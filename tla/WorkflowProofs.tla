--------------------------- MODULE WorkflowProofs ---------------------------
(* Proofs about the workflow, for any documents, contents and bound on the   *)
(* revisions.  The inductive invariant ties each activity to what it holds:  *)
(* a request in the port belongs to the flight that waits for it and names   *)
(* that flight's revision and documents; a running operation has a caller    *)
(* that waits for it; a host that is not up holds nothing.                   *)
EXTENDS Workflow, TLAPS

-----------------------------------------------------------------------------
(* The inductive invariant.                                                  *)

(* A request is its flight's, which never runs ahead of the state.           *)
RequestOfFlight(g) ==
    /\ entry[g].status # "free" =>
          /\ flight[g].step \in {"wait", "record", "settle"}
          /\ entry[g].rev = flight[g].rev /\ entry[g].hashes = flight[g].before
    /\ flight[g].step \in {"wait", "record", "settle"} => flight[g].before # Missing
    /\ entry[g].status = "free" => entry[g] = Free
    /\ entry[g].status # "decided" => entry[g].effect = "none"
    /\ flight[g].step \in {"record", "settle"} =>
          entry[g].status = "decided" /\ entry[g].effect = "approve"
    /\ flight[g].rev <= st.rev
    /\ flight[g].step = "settle" =>
          /\ st.rev > flight[g].rev
          /\ st.rev = flight[g].rev + 1 => st.approvals[g] = flight[g].before

RequestsOfFlights == \A g \in Gates : RequestOfFlight(g)

OpHasCaller == op # NoOp /\ op.by \in Gates => flight[op.by].step = "op"

DownIsEmpty == up # "up" => /\ entry = [g \in Gates |-> Free]
                            /\ flight = [g \in Gates |-> NoFlight] /\ op = NoOp

(* Between reconciliation and service a verdict may be left of a task that   *)
(* was rewound; it has lost the design approval by then.                     *)
Verdicts == st.verdict # "none" =>
               \/ st.phase \in {"VERIFY", "DELIVER"}
               \/ up # "up" /\ st.approvals["design"] = Missing

Memory == RequestsOfFlights /\ OpHasCaller /\ DownIsEmpty

IInv == TypeOK /\ GatesInOrder /\ Verdicts /\ Memory

-----------------------------------------------------------------------------
(* Facts about the pure part.                                                *)

\* The positions of the phases.
LEMMA RankValues ==
    /\ Rank("DISCOVER") = 1 /\ Rank("SPECIFY") = 2 /\ Rank("AWAIT_REQUIREMENTS_APPROVAL") = 3
    /\ Rank("DESIGN") = 4 /\ Rank("AWAIT_DESIGN_APPROVAL") = 5 /\ Rank("PLAN") = 6
    /\ Rank("BUILD") = 7 /\ Rank("VERIFY") = 8 /\ Rank("DELIVER") = 9
<1>1. \A i, j \in 1 .. 9 : PhaseOrder[i] = PhaseOrder[j] => i = j
  BY DEF PhaseOrder
<1>2. ASSUME NEW i \in 1 .. 9 PROVE Rank(PhaseOrder[i]) = i
  <2>1. \E k \in 1 .. 9 : PhaseOrder[k] = PhaseOrder[i] OBVIOUS
  <2>2. Rank(PhaseOrder[i]) \in 1 .. 9 /\ PhaseOrder[Rank(PhaseOrder[i])] = PhaseOrder[i]
    BY <2>1, Zenon DEF Rank
  <2> QED BY <1>1, <2>2
<1>3. /\ Rank(PhaseOrder[1]) = 1 /\ Rank(PhaseOrder[2]) = 2 /\ Rank(PhaseOrder[3]) = 3
      /\ Rank(PhaseOrder[4]) = 4 /\ Rank(PhaseOrder[5]) = 5 /\ Rank(PhaseOrder[6]) = 6
      /\ Rank(PhaseOrder[7]) = 7 /\ Rank(PhaseOrder[8]) = 8 /\ Rank(PhaseOrder[9]) = 9
  BY <1>2
<1>4. /\ PhaseOrder[1] = "DISCOVER" /\ PhaseOrder[2] = "SPECIFY"
      /\ PhaseOrder[3] = "AWAIT_REQUIREMENTS_APPROVAL" /\ PhaseOrder[4] = "DESIGN"
      /\ PhaseOrder[5] = "AWAIT_DESIGN_APPROVAL" /\ PhaseOrder[6] = "PLAN"
      /\ PhaseOrder[7] = "BUILD" /\ PhaseOrder[8] = "VERIFY" /\ PhaseOrder[9] = "DELIVER"
  BY DEF PhaseOrder
<1> QED BY <1>3, <1>4

\* The phases, one by one.
LEMMA PhasesAre == Phases = {"DISCOVER", "SPECIFY", "AWAIT_REQUIREMENTS_APPROVAL", "DESIGN",
                             "AWAIT_DESIGN_APPROVAL", "PLAN", "BUILD", "VERIFY", "DELIVER"}
BY DEF Phases, PhaseOrder

\* What a gate covers of the documents is a snapshot, and never Missing.
LEMMA ScopedIsSnapshot ==
    ASSUME NEW g \in Gates, NEW f \in [Docs -> Contents]
    PROVE  Scoped(g, f) \in Snapshots /\ Scoped(g, f) # Missing
<1>1. Scope(g) \subseteq Docs BY DEF Scope
<1>2. Scoped(g, f) \in [Scope(g) -> Contents] BY <1>1 DEF Scoped
<1>3. Scoped(g, f) \in UNION {[D -> Contents] : D \in SUBSET Docs} BY <1>1, <1>2
<1>4. Scoped(g, f) \in Snapshots BY <1>2 DEF Snapshots
<1> QED BY <1>3, <1>4, DocsAssumption

\* The latest approval of a gate, if it holds, is one.
LEMMA ApprovedIsGiven ==
    ASSUME files \in [Docs -> Contents], NEW g \in Gates, Approved(g)
    PROVE  st.approvals[g] # Missing
BY ScopedIsSnapshot DEF Approved

\* A state that was rewound is a state, with the same revision and verdict.
LEMMA InvalidatedIsState ==
    ASSUME NEW s \in States, NEW p \in {"SPECIFY", "DESIGN"}
    PROVE  /\ Invalidated(s, p) \in States
           /\ Invalidated(s, p).verdict = s.verdict
           /\ Invalidated(s, p).phase = IF Rank(s.phase) > Rank(p) THEN p ELSE s.phase
           /\ \A g \in Gates : Invalidated(s, p).approvals[g] =
                 IF p = "SPECIFY" \/ (p = "DESIGN" /\ g = "design")
                 THEN Missing ELSE s.approvals[g]
<1> DEFINE ph == IF Rank(s.phase) > Rank(p) THEN p ELSE s.phase
           ap == [g \in Gates |-> IF p = "SPECIFY" \/ (p = "DESIGN" /\ g = "design")
                                 THEN Missing ELSE s.approvals[g]]
<1>1. ph \in Phases BY PhasesAre DEF States
<1>2. ap \in [Gates -> Snapshots \cup {Missing}] BY DEF States
<1>3. Invalidated(s, p) = [s EXCEPT !.phase = ph, !.approvals = ap] BY DEF Invalidated
<1>4. \A g \in Gates : ap[g] = IF p = "SPECIFY" \/ (p = "DESIGN" /\ g = "design")
                               THEN Missing ELSE s.approvals[g]
  OBVIOUS
<1> HIDE DEF ph, ap
<1>5. Invalidated(s, p) \in States BY <1>1, <1>2, <1>3 DEF States
<1>6. Invalidated(s, p).verdict = s.verdict /\ Invalidated(s, p).phase = ph
      /\ Invalidated(s, p).approvals = ap
  BY <1>3 DEF States
<1> QED BY <1>4, <1>5, <1>6 DEF ph

\* A commit of a state is a state, one revision on; the rest is as committed.
LEMMA CommitIsState ==
    ASSUME NEW r \in Revisions, st \in States, NEW s \in States, Commit(r, s)
    PROVE  /\ st' \in States /\ st.rev = r /\ st'.rev = st.rev + 1
           /\ st'.phase = s.phase /\ st'.approvals = s.approvals /\ st'.verdict = s.verdict
           /\ st'.error = s.error /\ st'.change = s.change
<1>1. r + 1 \in Revisions /\ st.rev = r BY BoundAssumption DEF Commit, Revisions
<1>2. st' = [s EXCEPT !.rev = r + 1] BY DEF Commit
<1> QED BY <1>1, <1>2 DEF States

-----------------------------------------------------------------------------
(* Type correctness.                                                         *)

\* A flight that goes on, lands or is requested is a flight.
LEMMA FlightTypes ==
    ASSUME flight \in [Gates -> Flights], NEW g \in Gates
    PROVE  /\ \A x \in Flights : [flight EXCEPT ![g] = x] \in [Gates -> Flights]
           /\ \A step \in Early \cup {"none", "wait", "record", "settle", "next", "op", "publish"} :
                 Goes(g, step) => flight' \in [Gates -> Flights]
           /\ Lands(g) => flight' \in [Gates -> Flights]
           /\ NoFlight \in Flights
           /\ \A f \in [Gates -> Flights] : Requested(f, g) \in [Gates -> Flights]
<1>1. NoFlight \in Flights /\ [NoFlight EXCEPT !.step = "load"] \in Flights
  BY BoundAssumption DEF NoFlight, Flights, Early, Revisions
<1>2. \A step \in Early \cup {"none", "wait", "record", "settle", "next", "op", "publish"} :
         [flight[g] EXCEPT !.step = step] \in Flights
  BY DEF Flights
<1>3. \A x \in Flights : [flight EXCEPT ![g] = x] \in [Gates -> Flights]
  OBVIOUS
<1>4. \A f \in [Gates -> Flights] : Requested(f, g) \in [Gates -> Flights]
  BY <1>1 DEF Requested
<1>5. ASSUME NEW step \in Early \cup {"none", "wait", "record", "settle", "next", "op", "publish"},
             Goes(g, step)
      PROVE  flight' \in [Gates -> Flights]
  BY <1>2, <1>5 DEF Goes
<1>6. Lands(g) => flight' \in [Gates -> Flights]  BY <1>1 DEF Lands
<1> QED BY <1>1, <1>3, <1>4, <1>5, <1>6

\* Whatever happens in the port, its requests are requests.
LEMMA PortTypes ==
    ASSUME PortTypeOK, NEW g \in Gates
    PROVE  /\ \A r \in Revisions, h \in Snapshots : Asked(g, r, h) => PortTypeOK'
           /\ \A r \in Revisions, e \in {"approve", "reject"} : Decided(g, e, r) => PortTypeOK'
           /\ Settled(g) => PortTypeOK'
           /\ PortClosed => PortTypeOK'
           /\ Free \in Requests
<1>1. Free \in Requests BY BoundAssumption DEF Free, Requests, Revisions
<1>2. ASSUME NEW r \in Revisions, NEW h \in Snapshots, Asked(g, r, h) PROVE PortTypeOK'
  <2>1. [status |-> "pending", rev |-> r, hashes |-> h, effect |-> "none"] \in Requests
    BY DEF Requests
  <2> QED BY <1>2, <2>1 DEF Asked, PortTypeOK
<1>3. ASSUME NEW r \in Revisions, NEW e \in {"approve", "reject"}, Decided(g, e, r)
      PROVE  PortTypeOK'
  <2>1. entry[g] \in Requests BY DEF PortTypeOK
  <2>2. entry' = [entry EXCEPT ![g] = [entry[g] EXCEPT !.status = "decided", !.effect = e]]
    BY <1>3 DEF Decided, PortTypeOK
  <2>3. [entry[g] EXCEPT !.status = "decided", !.effect = e] \in Requests BY <2>1 DEF Requests
  <2> QED BY <1>3, <2>2, <2>3 DEF Decided, PortTypeOK
<1>4. Settled(g) => PortTypeOK' BY <1>1 DEF Settled, PortTypeOK
<1>5. PortClosed => PortTypeOK' BY <1>1 DEF PortClosed, PortTypeOK
<1> QED BY <1>1, <1>2, <1>3, <1>4, <1>5

\* Operations, commands and snapshots have the types of their parts.
LEMMA OpTypes ==
    ASSUME op \in Ops, cmd \in Commands, flight \in [Gates -> Flights], st \in States,
           files \in [Docs -> Contents]
    PROVE  /\ NoOp \in Ops /\ NoCmd \in Commands /\ NoFlight \in Flights
           /\ \A step \in {"idle", "clear", "open", "verify", "write", "fail"} :
                 [op EXCEPT !.step = step] \in Ops
           /\ \A step \in {"idle", "settling", "work", "op", "publish", "observe", "stop",
                           "reopen", "prepare", "generate", "ready"} :
                 /\ [cmd EXCEPT !.step = step] \in Commands
                 /\ Steps(step) => cmd' \in Commands
           /\ \A k \in Kinds : Begins(k) => op' \in Ops
           /\ \A ok \in BOOLEAN : Returned(ok) =>
                 cmd' \in Commands /\ flight' \in [Gates -> Flights]
           /\ \A g \in Gates : Scoped(g, files) \in Snapshots
           /\ \A k \in Kinds \cup {"none"} : WorkPhase(k) \in Phases /\ EndsIn(k) \in Phases
<1>1. NoOp \in Ops /\ NoCmd \in Commands /\ NoFlight \in Flights
  BY BoundAssumption, PhasesAre DEF NoOp, Ops, NoCmd, Commands, NoFlight, Flights, Gates, Revisions
<1>2. \A step \in {"idle", "clear", "open", "verify", "write", "fail"} :
         [op EXCEPT !.step = step] \in Ops
  BY DEF Ops
<1>3. \A step \in {"idle", "settling", "work", "op", "publish", "observe", "stop",
                   "reopen", "prepare", "generate", "ready"} :
         [cmd EXCEPT !.step = step] \in Commands
  BY DEF Commands
<1>4. \A k \in Kinds : Begins(k) => op' \in Ops  BY DEF Begins, Ops
<1>5. ASSUME NEW ok \in BOOLEAN, Returned(ok)
      PROVE  cmd' \in Commands /\ flight' \in [Gates -> Flights]
  <2>1. CASE op.by \in Gates
    <3>1. [flight[op.by] EXCEPT !.step = "publish"] \in Flights  BY <2>1 DEF Flights
    <3>2. flight' = [flight EXCEPT ![op.by] = IF ok THEN [flight[op.by] EXCEPT !.step = "publish"]
                                                    ELSE NoFlight]
          /\ cmd' = cmd
      BY <1>5, <2>1 DEF Returned
    <3> QED BY <1>1, <3>1, <3>2
  <2>2. CASE op.by \notin Gates
    <3>1. flight' = flight /\ cmd' \in {NoCmd, [cmd EXCEPT !.step = "ready"], [cmd EXCEPT !.step = "publish"]}
      BY <1>5, <2>2 DEF Returned
    <3> QED BY <1>1, <1>3, <3>1
  <2> QED BY <2>1, <2>2
<1>6. \A k \in Kinds \cup {"none"} : WorkPhase(k) \in Phases /\ EndsIn(k) \in Phases
  BY PhasesAre DEF WorkPhase, EndsIn
<1> QED BY <1>1, <1>2, <1>3, <1>4, <1>5, <1>6, ScopedIsSnapshot DEF Steps

\* A commit of a state with another phase, error, change or verdict is a state.
LEMMA CommitTypes ==
    ASSUME TypeOK
    PROVE  /\ \A p \in Phases : Commit(st.rev, [st EXCEPT !.phase = p]) => st' \in States
           /\ \A e \in BOOLEAN : Commit(st.rev, [st EXCEPT !.error = e]) => st' \in States
           /\ Commit(st.rev, [st EXCEPT !.change = "review"]) => st' \in States
           /\ \A p \in Phases : Commit(st.rev, [st EXCEPT !.phase = p, !.verdict = "none"])
                               => st' \in States
           /\ \A p \in Phases, v \in {"none", "blocked", "ready"} :
                 Commit(st.rev, [st EXCEPT !.verdict = v, !.phase = p]) => st' \in States
<1> USE DEF TypeOK
<1>1. st.rev \in Revisions BY DEF States
<1>2. \A p \in Phases : [st EXCEPT !.phase = p] \in States  BY DEF States
<1>3. \A e \in BOOLEAN : [st EXCEPT !.error = e] \in States  BY DEF States
<1>4. [st EXCEPT !.change = "review"] \in States  BY DEF States
<1>5. \A p \in Phases : [st EXCEPT !.phase = p, !.verdict = "none"] \in States  BY DEF States
<1>6. \A p \in Phases, v \in {"none", "blocked", "ready"} :
         [st EXCEPT !.verdict = v, !.phase = p] \in States
  BY DEF States
<1>7. \A s \in States : Commit(st.rev, s) => st' \in States  BY <1>1, CommitIsState
<1> QED BY <1>2, <1>3, <1>4, <1>5, <1>6, <1>7

\* Every step keeps the types.
LEMMA TypeStep ==
    ASSUME TypeOK, [Next]_vars
    PROVE  TypeOK'
<1> USE DEF TypeOK
<1>h. /\ \A g \in Gates : flight[g].rev \in Revisions /\ flight[g].before \in Snapshots \cup {Missing}
      /\ st.phase \in Phases /\ st.rev \in Revisions
      /\ cmd.rev \in Revisions /\ cmd.phase \in Phases /\ cmd.gate \in Gates
      /\ op.kind \in Kinds \cup {"none"}
      /\ \A g \in Gates : st.approvals[g] \in Snapshots \cup {Missing}
  BY DEF States, Flights, Commands, Ops
<1>1. ASSUME NEW g \in Gates, LoadForApproval(g) PROVE TypeOK'
  <2>1. [flight[g] EXCEPT !.rev = st.rev, !.step = IF g = "design" THEN "verify" ELSE "ask"]
          \in Flights
    BY <1>h, ZenonT(30) DEF Flights, Early
  <2>2. flight' = [flight EXCEPT ![g] = [flight[g] EXCEPT
                    !.rev = st.rev, !.step = IF g = "design" THEN "verify" ELSE "ask"]]
    BY <1>1 DEF LoadForApproval
  <2> QED BY <1>1, <2>1, <2>2 DEF LoadForApproval, PortTypeOK, portVars
<1>2. ASSUME NEW g \in Gates, VerifyRequirements(g) PROVE TypeOK'
  BY <1>2, FlightTypes DEF VerifyRequirements, PortTypeOK, portVars, Early
<1>3. ASSUME NEW g \in Gates, AskApproval(g) PROVE TypeOK'
  <2>1. [flight[g] EXCEPT !.step = "wait", !.before = Scoped(g, files)] \in Flights
    BY OpTypes DEF Flights
  <2>2. flight' = [flight EXCEPT ![g] =
                    [flight[g] EXCEPT !.step = "wait", !.before = Scoped(g, files)]]
    BY <1>3 DEF AskApproval
  <2>3. PortTypeOK'  BY <1>3, <1>h, PortTypes, OpTypes DEF AskApproval
  <2> QED BY <1>3, <2>1, <2>2, <2>3 DEF AskApproval
<1>4. ASSUME NEW g \in Gates, Rejected(g) PROVE TypeOK'
  BY <1>4, FlightTypes, PortTypes DEF Rejected
<1>5. ASSUME NEW g \in Gates, CheckUnchanged(g) PROVE TypeOK'
  BY <1>5, FlightTypes DEF CheckUnchanged, PortTypeOK, portVars
<1>6. ASSUME NEW g \in Gates, RecordApproval(g) PROVE TypeOK'
  <2> DEFINE s == [st EXCEPT !.phase = After(g), !.approvals[g] = flight[g].before]
  <2>1. After(g) \in Phases /\ [st.approvals EXCEPT ![g] = flight[g].before]
                                \in [Gates -> Snapshots \cup {Missing}]
    BY <1>h, PhasesAre DEF After, States
  <2>2. s = [st EXCEPT !.phase = After(g),
                       !.approvals = [st.approvals EXCEPT ![g] = flight[g].before]]
    OBVIOUS
  <2>3. s \in States  BY <2>1, <2>2 DEF States
  <2>4. Commit(flight[g].rev, s)  BY <1>6 DEF RecordApproval
  <2> HIDE DEF s
  <2>5. st' \in States  BY <2>3, <2>4, <1>h, CommitIsState
  <2> QED BY <1>6, <2>5, FlightTypes DEF RecordApproval, PortTypeOK, portVars
<1>7. ASSUME NEW g \in Gates, SettleApproval(g) PROVE TypeOK'
  BY <1>7, FlightTypes, PortTypes DEF SettleApproval
<1>8. ASSUME NEW g \in Gates, GenerateNext(g) PROVE TypeOK'
  BY <1>8, FlightTypes DEF GenerateNext, PortTypeOK, portVars, Ops, Kinds
<1>9. ASSUME NEW g \in Gates, PublishNext(g) PROVE TypeOK'
  <2>1. [flight EXCEPT ![g] = NoFlight] \in [Gates -> Flights] /\ "design" \in Gates
    BY FlightTypes DEF Gates
  <2>2. flight' \in [Gates -> Flights]  BY <1>9, <2>1, FlightTypes DEF PublishNext
  <2> QED BY <1>9, <2>2 DEF PublishNext, PortTypeOK, portVars
<1>10. ASSUME NEW g \in Gates, FlightFails(g) PROVE TypeOK'
  BY <1>10, FlightTypes, PortTypes DEF FlightFails
<1>11. ASSUME NEW g \in Gates, RetryApproval(g) PROVE TypeOK'
  BY <1>11, FlightTypes DEF RetryApproval, PortTypeOK, portVars
<1>12. CASE ClearError
  BY <1>12, <1>h, OpTypes, CommitTypes DEF ClearError, PortTypeOK, portVars
<1>13. CASE OpenPhase
  <2>1. st' \in States  BY <1>13, <1>h, OpTypes, CommitTypes DEF OpenPhase
  <2> QED BY <1>13, <2>1, OpTypes DEF OpenPhase, PortTypeOK, portVars
<1>14. CASE VerifyInputs
  BY <1>14, OpTypes DEF VerifyInputs, PortTypeOK, portVars
<1>15. CASE AgentWrites
  BY <1>15 DEF AgentWrites, PortTypeOK, portVars
<1>16. CASE ClosePhase
  <2>1. st' \in States  BY <1>16, <1>h, OpTypes, CommitTypes DEF ClosePhase
  <2>2. op' \in Ops /\ cmd' \in Commands /\ flight' \in [Gates -> Flights]
    BY <1>16, OpTypes DEF ClosePhase
  <2> QED BY <1>16, <2>1, <2>2 DEF ClosePhase, PortTypeOK, portVars
<1>17. CASE OpFails
  BY <1>17, OpTypes DEF OpFails, PortTypeOK, portVars
<1>18. CASE RecordError
  <2>1. st' \in States  BY <1>18, <1>h, CommitTypes DEF RecordError
  <2>2. op' \in Ops /\ cmd' \in Commands /\ flight' \in [Gates -> Flights]
    BY <1>18, OpTypes DEF RecordError
  <2> QED BY <1>18, <2>1, <2>2 DEF RecordError, PortTypeOK, portVars
<1>19. CASE Clarify
  <2>1. cmd' \in Commands
    <3>1. \A g \in Gates : [step |-> "settling", phase |-> st.phase, rev |-> st.rev, gate |-> g]
                             \in Commands
      BY <1>h DEF Commands
    <3>2. [NoCmd EXCEPT !.step = "work", !.phase = st.phase, !.rev = st.rev] \in Commands
      BY <1>h, OpTypes, ZenonT(30) DEF Commands
    <3> QED BY <1>19, <3>1, <3>2 DEF Clarify
  <2>2. PortTypeOK'
    <3>1. \A g \in Gates : entry[g].rev \in Revisions  BY DEF PortTypeOK, Requests
    <3> QED BY <1>19, <3>1, PortTypes DEF Clarify, PortTypeOK, portVars
  <2> QED BY <1>19, <2>1, <2>2 DEF Clarify
<1>20. CASE RetryChange
  BY <1>20, OpTypes DEF RetryChange, PortTypeOK, portVars, Commands
<1>21. CASE RetryGeneration
  <2>1. op' \in Ops  BY <1>21, OpTypes DEF RetryGeneration, Kinds
  <2>2. [NoCmd EXCEPT !.step = "op", !.phase = st.phase] \in Commands
    BY <1>h, OpTypes, ZenonT(30) DEF Commands
  <2> QED BY <1>21, <2>1, <2>2 DEF RetryGeneration, PortTypeOK, portVars
<1>22. CASE RejectionSettled
  BY <1>22, OpTypes DEF RejectionSettled, PortTypeOK, portVars
<1>23. CASE Work
  <2>1. op' \in Ops /\ cmd' \in Commands  BY <1>23, OpTypes DEF Work, Kinds
  <2> QED BY <1>23, <2>1 DEF Work, PortTypeOK, portVars
<1>24. CASE PublishApproval
  <2>1. PICK g \in Gates : flight' = Requested(flight, g)
                           /\ cmd' = [cmd EXCEPT !.step = "observe", !.gate = g]
    BY <1>24 DEF PublishApproval, Gates
  <2>2. cmd' \in Commands  BY <2>1 DEF Commands
  <2> QED BY <1>24, <2>1, <2>2, FlightTypes DEF PublishApproval, PortTypeOK, portVars
<1>25. CASE Observe
  BY <1>25, OpTypes DEF Observe, PortTypeOK, portVars
<1>26. CASE StopDevelopment
  BY <1>26, OpTypes DEF StopDevelopment, PortTypeOK, portVars
<1>27. CASE ReopenRequirements
  <2>1. "SPECIFY" \in Phases /\ [g \in Gates |-> Missing] \in [Gates -> Snapshots \cup {Missing}]
    BY PhasesAre
  <2> DEFINE s == [st EXCEPT !.phase = "SPECIFY", !.error = FALSE,
                             !.approvals = [g \in Gates |-> Missing],
                             !.change = "preparing", !.verdict = "none"]
  <2>5. s \in States  BY <2>1 DEF States
  <2>6. Commit(cmd.rev, s)  BY <1>27 DEF ReopenRequirements
  <2> HIDE DEF s
  <2>2. st' \in States  BY <2>5, <2>6, <1>h, CommitIsState
  <2>3. cmd' \in Commands  BY <1>27, OpTypes DEF ReopenRequirements
  <2> QED BY <1>27, <2>2, <2>3 DEF ReopenRequirements, PortTypeOK, portVars
<1>28. CASE PrepareChange
  <2>1. op' \in Ops /\ cmd' \in Commands  BY <1>28, OpTypes DEF PrepareChange, Kinds
  <2> QED BY <1>28, <2>1 DEF PrepareChange, PortTypeOK, portVars
<1>29. CASE ChangeReady
  <2>1. [cmd EXCEPT !.step = "publish", !.phase = st.phase] \in Commands  BY <1>h DEF Commands
  <2>2. st' \in States  BY <1>29, <1>h, CommitTypes DEF ChangeReady
  <2>3. cmd' \in Commands  BY <1>29, <2>1, OpTypes DEF ChangeReady
  <2> QED BY <1>29, <2>2, <2>3 DEF ChangeReady, PortTypeOK, portVars
<1>30. CASE CmdFails
  BY <1>30, OpTypes DEF CmdFails, PortTypeOK, portVars
<1>31. CASE CheckDecision
  BY <1>31, <1>h DEF CheckDecision, PortTypeOK, portVars
<1>32. CASE DecideApproval
  <2>1. seen \in Revisions /\ seen' \in Revisions \cup {MaxRevision + 1}
    BY <1>32 DEF DecideApproval, Unseen
  <2>2. PortTypeOK'  BY <1>32, <2>1, PortTypes DEF DecideApproval, PortTypeOK, portVars
  <2> QED BY <1>32, <2>1, <2>2 DEF DecideApproval
<1>33. CASE StartVerification
  BY <1>33 DEF StartVerification, PortTypeOK, portVars
<1>34. CASE BeginVerification
  <2>1. st' \in States  BY <1>34, <1>h, PhasesAre, CommitTypes DEF BeginVerification
  <2> QED BY <1>34, <2>1 DEF BeginVerification, PortTypeOK, portVars
<1>35. CASE VerifyResult
  BY <1>35 DEF VerifyResult, PortTypeOK, portVars
<1>36. CASE FinishVerification
  <2>1. st' \in States  BY <1>36, <1>h, PhasesAre, CommitTypes DEF FinishVerification
  <2> QED BY <1>36, <2>1 DEF FinishVerification, PortTypeOK, portVars
<1>37. CASE VerificationFails
  BY <1>37 DEF VerificationFails, PortTypeOK, portVars
<1>38. ASSUME NEW d \in Docs, EditDocument(d) PROVE TypeOK'
  BY <1>38 DEF EditDocument, PortTypeOK, portVars
<1>39. ASSUME MemoryLost, UNCHANGED <<st, files>> PROVE TypeOK'
  <2>1. PortTypeOK' /\ flight' \in [Gates -> Flights]
    BY <1>39, PortTypes, OpTypes DEF MemoryLost, PortTypeOK, Gates
  <2> QED BY <1>39, <2>1, OpTypes DEF MemoryLost, Unseen
<1>40. CASE Reconcile
  <2>1. st' \in States  BY <1>40, <1>h, InvalidatedIsState, CommitIsState DEF Reconcile
  <2> QED BY <1>40, <2>1 DEF Reconcile, PortTypeOK, portVars, mem
<1>41. CASE Serve
  <2>1. st' \in States  BY <1>41, <1>h, PhasesAre, CommitTypes DEF Serve
  <2>2. [NoFlight EXCEPT !.step = "load"] \in Flights  BY OpTypes DEF Flights, Early
  <2>3. flight' \in [Gates -> Flights]  BY <1>41, <2>2, OpTypes DEF Serve
  <2> QED BY <1>41, <2>1, <2>3 DEF Serve, PortTypeOK, portVars
<1>42. CASE Dispose
  <2>1. PortTypeOK'  BY <1>42, PortTypes DEF Dispose, Gates
  <2> QED BY <1>42, <2>1 DEF Dispose
<1>43. CASE UNCHANGED vars
  BY <1>43 DEF vars, PortTypeOK
<1> QED
  BY <1>1, <1>2, <1>3, <1>4, <1>5, <1>6, <1>7, <1>8, <1>9, <1>10, <1>11, <1>12, <1>13, <1>14,
     <1>15, <1>16, <1>17, <1>18, <1>19, <1>20, <1>21, <1>22, <1>23, <1>24, <1>25, <1>26, <1>27,
     <1>28, <1>29, <1>30, <1>31, <1>32, <1>33, <1>34, <1>35, <1>36, <1>37, <1>38, <1>39, <1>40,
     <1>41, <1>42, <1>43
  DEF Next, FlightStep, OpStep, CmdStep, LifeStep, Crash, Disposed

-----------------------------------------------------------------------------
(* Requests, operations and their flights.                                   *)

\* What a state that moves on or stays means for a flight that is left alone.
LEMMA LeftAlone ==
    ASSUME TypeOK, TypeOK', NEW g \in Gates, RequestOfFlight(g),
           st' = st \/ st'.rev = st.rev + 1,
           entry'[g] = entry[g], flight'[g] = flight[g]
    PROVE  RequestOfFlight(g)'
<1>1. st.rev \in Nat /\ st'.rev \in Nat /\ flight[g].rev \in Nat
  BY BoundAssumption DEF TypeOK, States, Flights, Revisions
<1>2. CASE st' = st  BY <1>2 DEF RequestOfFlight
<1>3. CASE st'.rev = st.rev + 1  BY <1>1, <1>3 DEF RequestOfFlight
<1> QED BY <1>2, <1>3

\* A step that leaves the port and the flights alone, and the operation to
\* whoever called it.
LEMMA FlightsKept ==
    ASSUME IInv, TypeOK', up = "up", up' = "up", entry' = entry, flight' = flight,
           st' = st \/ st'.rev = st.rev + 1,
           op' = op \/ op'.by = "user" \/ (op # NoOp /\ op'.by = op.by)
    PROVE  Memory'
<1>1. RequestsOfFlights'  BY LeftAlone DEF IInv, Memory, RequestsOfFlights
<1>2. OpHasCaller'
  BY DEF IInv, Memory, OpHasCaller, Gates, TypeOK, Ops
<1> QED BY <1>1, <1>2 DEF Memory, DownIsEmpty

\* A step of the flight of gate g, or the start of one.
LEMMA FlightMoved ==
    ASSUME IInv, TypeOK', up = "up", up' = "up", NEW g \in Gates, flight[g].step # "op",
           NEW f \in Flights, flight' = [flight EXCEPT ![g] = f],
           NEW e \in Requests, entry' = [entry EXCEPT ![g] = e],
           st' = st \/ st'.rev = st.rev + 1,
           op' = op \/ (op'.by = g /\ f.step = "op"),
           RequestOfFlight(g)'
    PROVE  Memory'
<1>1. ASSUME NEW h \in Gates, h # g PROVE RequestOfFlight(h)'
  BY <1>1, LeftAlone DEF IInv, Memory, RequestsOfFlights, TypeOK, PortTypeOK
<1>2. OpHasCaller'
  BY DEF IInv, Memory, OpHasCaller, TypeOK
<1> QED BY <1>1, <1>2 DEF Memory, DownIsEmpty, RequestsOfFlights

\* A flight that has no request holds what a flight without one must.
LEMMA WithoutRequest ==
    ASSUME TypeOK', NEW g \in Gates, entry'[g] = Free,
           flight'[g].step \notin {"wait", "record", "settle"},
           flight'[g].rev <= st'.rev
    PROVE  RequestOfFlight(g)'
BY DEF RequestOfFlight, Free

\* An operation that returns hands control to the flight that waits for it.
LEMMA ReturnedTo ==
    ASSUME IInv, TypeOK', up = "up", up' = "up", NEW ok \in BOOLEAN, Returned(ok),
           op # NoOp, op' = NoOp, entry' = entry, st' = st \/ st'.rev = st.rev + 1
    PROVE  Memory'
<1>1. CASE op.by \in Gates
  <2>0. PICK g \in Gates : g = op.by  BY <1>1
  <2> DEFINE f == IF ok THEN [flight[g] EXCEPT !.step = "publish"] ELSE NoFlight
  <2>1. flight' = [flight EXCEPT ![g] = f]  BY <1>1, <2>0 DEF Returned
  <2>2. flight[g].step = "op" /\ entry[g] = Free
    BY <2>0 DEF IInv, Memory, OpHasCaller, RequestsOfFlights, RequestOfFlight, TypeOK, PortTypeOK
  <2>3. flight[g].rev <= st.rev /\ st.rev <= st'.rev /\ st.rev \in Nat /\ st'.rev \in Nat
        /\ flight[g].rev \in Nat
    BY <1>1, BoundAssumption
    DEF IInv, Memory, RequestsOfFlights, RequestOfFlight, TypeOK, States, Revisions, Flights
  <2>4. f.step \in {"publish", "none"} /\ f.rev <= st'.rev
    BY <1>1, <2>3 DEF NoFlight, IInv, TypeOK, Flights
  <2> HIDE DEF f
  <2>5. flight'[g] = f  BY <1>1, <2>1 DEF IInv, TypeOK
  <2>6. RequestOfFlight(g)'
    BY <1>1, <2>2, <2>4, <2>5, WithoutRequest
  <2>7. ASSUME NEW h \in Gates, h # g PROVE RequestOfFlight(h)'
    BY <2>7, <2>1, LeftAlone DEF IInv, Memory, RequestsOfFlights, TypeOK
  <2> QED BY <2>6, <2>7 DEF Memory, DownIsEmpty, RequestsOfFlights, OpHasCaller
<1>2. CASE op.by \notin Gates
  BY <1>2, FlightsKept DEF Returned, NoOp
<1> QED BY <1>1, <1>2

\* Requesting an approval starts a flight where there is none.
LEMMA RequestedStarts ==
    ASSUME IInv, NEW g \in Gates, NEW f \in [Gates -> Flights]
    PROVE  /\ Requested(f, g) = [f EXCEPT ![g] = Requested(f, g)[g]]
           /\ \/ Requested(f, g)[g] = f[g]
              \/ f[g].step = "none" /\ Requested(f, g)[g] = [NoFlight EXCEPT !.step = "load"]
<1>1. CASE Requested(f, g) = f  BY <1>1
<1>2. CASE Requested(f, g) = [f EXCEPT ![g] = [NoFlight EXCEPT !.step = "load"]] /\ f[g].step = "none"
  BY <1>2
<1> QED BY <1>1, <1>2 DEF Requested

\* A durable commit moves the state one revision on.
LEMMA CommitMoves ==
    ASSUME TypeOK, NEW r, NEW s \in States, Commit(r, s)
    PROVE  /\ r = st.rev /\ st'.rev = st.rev + 1
           /\ st'.phase = s.phase /\ st'.approvals = s.approvals /\ st'.verdict = s.verdict
<1>1. r \in Revisions /\ r = st.rev  BY DEF Commit, TypeOK, States
<1> QED BY <1>1, CommitIsState DEF TypeOK

\* What each commit writes.
LEMMA Commits ==
    ASSUME TypeOK
    PROVE  /\ \A p \in Phases : Commit(st.rev, [st EXCEPT !.phase = p]) =>
                 st'.rev = st.rev + 1 /\ st'.phase = p /\ st'.approvals = st.approvals
                 /\ st'.verdict = st.verdict
           /\ \A e \in BOOLEAN : Commit(st.rev, [st EXCEPT !.error = e]) =>
                 st'.rev = st.rev + 1 /\ st'.phase = st.phase /\ st'.approvals = st.approvals
                 /\ st'.verdict = st.verdict
           /\ Commit(st.rev, [st EXCEPT !.change = "review"]) =>
                 st'.rev = st.rev + 1 /\ st'.phase = st.phase /\ st'.approvals = st.approvals
                 /\ st'.verdict = st.verdict
           /\ \A p \in Phases : Commit(st.rev, [st EXCEPT !.phase = p, !.verdict = "none"]) =>
                 st'.rev = st.rev + 1 /\ st'.phase = p /\ st'.approvals = st.approvals
                 /\ st'.verdict = "none"
           /\ \A p \in Phases, v \in {"none", "blocked", "ready"} :
                 Commit(st.rev, [st EXCEPT !.verdict = v, !.phase = p]) =>
                 st'.rev = st.rev + 1 /\ st'.phase = p /\ st'.approvals = st.approvals
                 /\ st'.verdict = v
<1> USE DEF TypeOK
<1>1. ASSUME NEW p \in Phases, Commit(st.rev, [st EXCEPT !.phase = p])
      PROVE  st'.rev = st.rev + 1 /\ st'.phase = p /\ st'.approvals = st.approvals
             /\ st'.verdict = st.verdict
  <2> DEFINE s == [st EXCEPT !.phase = p]
  <2>1. s \in States /\ s.phase = p /\ s.approvals = st.approvals /\ s.verdict = st.verdict
    BY DEF States
  <2> QED BY <1>1, <2>1, CommitMoves
<1>2. ASSUME NEW e \in BOOLEAN, Commit(st.rev, [st EXCEPT !.error = e])
      PROVE  st'.rev = st.rev + 1 /\ st'.phase = st.phase /\ st'.approvals = st.approvals
             /\ st'.verdict = st.verdict
  <2> DEFINE s == [st EXCEPT !.error = e]
  <2>1. s \in States /\ s.phase = st.phase /\ s.approvals = st.approvals /\ s.verdict = st.verdict
    BY DEF States
  <2> QED BY <1>2, <2>1, CommitMoves
<1>3. ASSUME Commit(st.rev, [st EXCEPT !.change = "review"])
      PROVE  st'.rev = st.rev + 1 /\ st'.phase = st.phase /\ st'.approvals = st.approvals
             /\ st'.verdict = st.verdict
  <2> DEFINE s == [st EXCEPT !.change = "review"]
  <2>1. s \in States /\ s.phase = st.phase /\ s.approvals = st.approvals /\ s.verdict = st.verdict
    BY DEF States
  <2> QED BY <1>3, <2>1, CommitMoves
<1>4. ASSUME NEW p \in Phases, Commit(st.rev, [st EXCEPT !.phase = p, !.verdict = "none"])
      PROVE  st'.rev = st.rev + 1 /\ st'.phase = p /\ st'.approvals = st.approvals
             /\ st'.verdict = "none"
  <2> DEFINE s == [st EXCEPT !.phase = p, !.verdict = "none"]
  <2>1. s \in States /\ s.phase = p /\ s.approvals = st.approvals /\ s.verdict = "none"
    BY DEF States
  <2> QED BY <1>4, <2>1, CommitMoves
<1>5. ASSUME NEW p \in Phases, NEW v \in {"none", "blocked", "ready"},
             Commit(st.rev, [st EXCEPT !.verdict = v, !.phase = p])
      PROVE  st'.rev = st.rev + 1 /\ st'.phase = p /\ st'.approvals = st.approvals
             /\ st'.verdict = v
  <2> DEFINE s == [st EXCEPT !.verdict = v, !.phase = p]
  <2>1. s \in States /\ s.phase = p /\ s.approvals = st.approvals /\ s.verdict = v
    BY DEF States
  <2> QED BY <1>5, <2>1, CommitMoves
<1> QED BY <1>1, <1>2, <1>3, <1>4, <1>5

\* What a recorded approval commits.
LEMMA ApprovalCommit ==
    ASSUME TypeOK, NEW g \in Gates, RecordApproval(g)
    PROVE  /\ flight[g].rev = st.rev /\ st'.rev = st.rev + 1
           /\ st.phase = Awaiting(g) /\ st'.phase = After(g) /\ st'.verdict = st.verdict
           /\ st'.approvals = [st.approvals EXCEPT ![g] = flight[g].before]
           /\ st'.approvals[g] = flight[g].before
<1> DEFINE a == [st.approvals EXCEPT ![g] = flight[g].before]
           s == [st EXCEPT !.phase = After(g), !.approvals[g] = flight[g].before]
<1>1. After(g) \in Phases /\ a \in [Gates -> Snapshots \cup {Missing}] /\ a[g] = flight[g].before
  BY PhasesAre DEF After, TypeOK, States, Flights
<1>2. s = [st EXCEPT !.phase = After(g), !.approvals = a]  OBVIOUS
<1> HIDE DEF a
<1>3. s \in States /\ s.phase = After(g) /\ s.approvals = a /\ s.verdict = st.verdict
  BY <1>1, <1>2 DEF TypeOK, States
<1>4. Commit(flight[g].rev, s)  BY DEF RecordApproval
<1> HIDE DEF s
<1>5. flight[g].rev = st.rev /\ st'.rev = st.rev + 1
      /\ st'.phase = After(g) /\ st'.approvals = a /\ st'.verdict = st.verdict
  BY <1>3, <1>4, CommitMoves
<1> QED BY <1>1, <1>5 DEF RecordApproval, a

\* What a reopening commits.
LEMMA ReopenCommit ==
    ASSUME TypeOK, ReopenRequirements
    PROVE  /\ st'.rev = st.rev + 1 /\ st'.phase = "SPECIFY" /\ st'.verdict = "none"
           /\ st'.approvals = [g \in Gates |-> Missing]
<1> DEFINE s == [st EXCEPT !.phase = "SPECIFY", !.error = FALSE,
                           !.approvals = [g \in Gates |-> Missing],
                           !.change = "preparing", !.verdict = "none"]
<1>1. [g \in Gates |-> Missing] \in [Gates -> Snapshots \cup {Missing}]  OBVIOUS
<1>2. s \in States /\ s.phase = "SPECIFY" /\ s.verdict = "none"
      /\ s.approvals = [g \in Gates |-> Missing]
  BY <1>1, PhasesAre DEF TypeOK, States
<1>3. Commit(cmd.rev, s)  BY DEF ReopenRequirements
<1> HIDE DEF s
<1> QED BY <1>2, <1>3, CommitMoves

\* A flight that goes on changes its step only.
LEMMA GoesFields ==
    ASSUME TypeOK, NEW g \in Gates,
           NEW step \in Early \cup {"none", "wait", "record", "settle", "next", "op", "publish"},
           Goes(g, step)
    PROVE  /\ flight'[g].step = step /\ flight'[g].rev = flight[g].rev
           /\ flight'[g].before = flight[g].before
           /\ flight'[g] \in Flights /\ flight' = [flight EXCEPT ![g] = flight'[g]]
<1> DEFINE f == [flight[g] EXCEPT !.step = step]
<1>1. f \in Flights /\ f.step = step /\ f.rev = flight[g].rev /\ f.before = flight[g].before
  BY DEF TypeOK, Flights
<1>2. flight' = [flight EXCEPT ![g] = f] /\ flight'[g] = f  BY DEF Goes, TypeOK
<1> HIDE DEF f
<1> QED BY <1>1, <1>2

\* The flight of gate g goes on; its request stays or is settled.
LEMMA FlightGoes ==
    ASSUME IInv, TypeOK', up = "up", up' = "up", NEW g \in Gates, flight[g].step # "op",
           NEW step \in Early \cup {"none", "wait", "record", "settle", "next", "op", "publish"},
           Goes(g, step), entry' = entry \/ entry' = [entry EXCEPT ![g] = Free],
           st' = st \/ st'.rev = st.rev + 1,
           op' = op \/ (op'.by = g /\ step = "op"),
           RequestOfFlight(g)'
    PROVE  Memory'
<1>1. PICK f \in Flights : f.step = step /\ flight' = [flight EXCEPT ![g] = f]
  <2>1. TypeOK  BY DEF IInv
  <2>2. flight'[g] \in Flights  BY <2>1, GoesFields
  <2> QED BY <2>1, <2>2, GoesFields
<1>2. PICK e \in Requests : entry' = [entry EXCEPT ![g] = e]
  <2>1. Free \in Requests /\ entry \in [Gates -> Requests]
    BY PortTypes DEF IInv, TypeOK, PortTypeOK
  <2>2. entry[g] \in Requests /\ entry = [entry EXCEPT ![g] = entry[g]]  BY <2>1
  <2> QED BY <2>1, <2>2
<1> QED BY <1>1, <1>2, FlightMoved

\* Every step keeps requests, operations and flights together.
LEMMA MemoryStep ==
    ASSUME IInv, TypeOK', Next
    PROVE  Memory'
<1>h. /\ TypeOK /\ \A g \in Gates : RequestOfFlight(g)
      /\ \A g \in Gates : flight[g] \in Flights /\ entry[g] \in Requests
      /\ \A g \in Gates : flight[g].rev \in Nat /\ entry = [entry EXCEPT ![g] = entry[g]]
      /\ flight \in [Gates -> Flights] /\ entry \in [Gates -> Requests]
      /\ op \in Ops /\ op.kind \in Kinds \cup {"none"}
      /\ st.phase \in Phases /\ st.rev \in Nat
      /\ NoFlight \in Flights /\ Free \in Requests
  BY OpTypes, PortTypes, BoundAssumption
  DEF IInv, Memory, RequestsOfFlights, TypeOK, PortTypeOK, States, Flights, Ops, Revisions, Gates
<1>1. ASSUME NEW g \in Gates, LoadForApproval(g) PROVE Memory'
  <2> DEFINE f == [flight[g] EXCEPT !.rev = st.rev,
                                    !.step = IF g = "design" THEN "verify" ELSE "ask"]
  <2>1. f \in Flights /\ f.step \in {"verify", "ask"} /\ f.rev = st.rev
    BY <1>h DEF Flights, Early, TypeOK, States
  <2>2. flight' = [flight EXCEPT ![g] = f] /\ flight'[g] = f
    BY <1>1, <1>h DEF LoadForApproval
  <2> HIDE DEF f
  <2>3. entry' = entry /\ entry[g] = Free /\ st' = st /\ op' = op /\ up = "up" /\ up' = "up"
        /\ flight[g].step = "load"
    BY <1>1, <1>h DEF LoadForApproval, portVars, At, RequestOfFlight
  <2>4. RequestOfFlight(g)'  BY <2>1, <2>2, <2>3, <1>h, WithoutRequest
  <2> QED BY <2>1, <2>2, <2>3, <2>4, <1>h, FlightMoved
<1>2. ASSUME NEW g \in Gates, VerifyRequirements(g) PROVE Memory'
  <2>1. entry' = entry /\ entry[g] = Free /\ st' = st /\ op' = op /\ up = "up" /\ up' = "up"
        /\ flight[g].step = "verify" /\ Goes(g, "ask") /\ flight[g].rev <= st.rev
    BY <1>2, <1>h DEF VerifyRequirements, portVars, At, RequestOfFlight
  <2>2. RequestOfFlight(g)'  BY <2>1, <1>h, GoesFields, WithoutRequest DEF Early
  <2> QED BY <2>1, <2>2, FlightGoes DEF Early
<1>3. ASSUME NEW g \in Gates, AskApproval(g) PROVE Memory'
  <2> DEFINE h == Scoped(g, files)
             f == [flight[g] EXCEPT !.step = "wait", !.before = h]
             e == [status |-> "pending", rev |-> flight[g].rev, hashes |-> h, effect |-> "none"]
  <2>1. h \in Snapshots /\ h # Missing  BY <1>h, ScopedIsSnapshot DEF TypeOK
  <2>2. f \in Flights /\ f.step = "wait" /\ f.before = h /\ f.rev = flight[g].rev /\ e \in Requests
    BY <2>1, <1>h DEF Flights, Requests
  <2>3. flight' = [flight EXCEPT ![g] = f] /\ flight'[g] = f
        /\ entry' = [entry EXCEPT ![g] = e] /\ entry'[g] = e
    BY <1>3, <1>h DEF AskApproval, Asked
  <2>4. st' = st /\ op' = op /\ up = "up" /\ up' = "up" /\ flight[g].step = "ask"
        /\ flight[g].rev <= st.rev
    BY <1>3, <1>h DEF AskApproval, At, RequestOfFlight
  <2>5. e.status = "pending" /\ e.rev = flight[g].rev /\ e.hashes = h /\ e.effect = "none"
    OBVIOUS
  <2> HIDE DEF h, f, e
  <2>6. RequestOfFlight(g)'  BY <2>1, <2>2, <2>3, <2>4, <2>5 DEF RequestOfFlight
  <2> QED BY <2>2, <2>3, <2>4, <2>6, FlightMoved
<1>4. ASSUME NEW g \in Gates, Rejected(g) PROVE Memory'
  <2>1. entry' = [entry EXCEPT ![g] = Free] /\ flight' = [flight EXCEPT ![g] = NoFlight]
        /\ st' = st /\ op' = op /\ up = "up" /\ up' = "up" /\ flight[g].step = "wait"
    BY <1>4 DEF Rejected, At, Settled, Lands
  <2>2. RequestOfFlight(g)'  BY <1>4, <2>1, <1>h, WithoutRequest DEF Rejected, NoFlight
  <2> QED BY <2>1, <2>2, <1>h, FlightMoved
<1>5. ASSUME NEW g \in Gates, CheckUnchanged(g) PROVE Memory'
  <2>1. entry' = entry /\ st' = st /\ op' = op /\ up = "up" /\ up' = "up"
        /\ flight[g].step = "wait" /\ Goes(g, "record")
        /\ entry[g].status = "decided" /\ entry[g].effect = "approve"
    BY <1>5 DEF CheckUnchanged, portVars, At
  <2>2. RequestOfFlight(g)'  BY <2>1, GoesFields, <1>h DEF RequestOfFlight
  <2> QED BY <2>1, <2>2, FlightGoes
<1>6. ASSUME NEW g \in Gates, RecordApproval(g) PROVE Memory'
  <2>1. entry' = entry /\ op' = op /\ up = "up" /\ up' = "up"
        /\ flight[g].step = "record" /\ Goes(g, "settle")
    BY <1>6 DEF RecordApproval, portVars, At
  <2>2. flight[g].rev = st.rev /\ st'.rev = st.rev + 1 /\ st'.approvals[g] = flight[g].before
    BY <1>6, <1>h, ApprovalCommit
  <2>3. RequestOfFlight(g)'  BY <2>1, <2>2, GoesFields, <1>h DEF RequestOfFlight
  <2> QED BY <2>1, <2>2, <2>3, FlightGoes
<1>7. ASSUME NEW g \in Gates, SettleApproval(g) PROVE Memory'
  <2>1. entry' = [entry EXCEPT ![g] = Free] /\ Goes(g, "next") /\ Settled(g)
        /\ st' = st /\ op' = op /\ up = "up" /\ up' = "up" /\ flight[g].step = "settle"
        /\ flight[g].rev <= st.rev
    BY <1>7, <1>h DEF SettleApproval, At, Settled, RequestOfFlight
  <2>2. RequestOfFlight(g)'  BY <2>1, <1>h, GoesFields, WithoutRequest
  <2> QED BY <2>1, <2>2, FlightGoes
<1>8. ASSUME NEW g \in Gates, GenerateNext(g) PROVE Memory'
  <2>1. entry' = entry /\ entry[g] = Free /\ st' = st /\ op'.by = g /\ up = "up" /\ up' = "up"
        /\ flight[g].step = "next" /\ Goes(g, "op") /\ flight[g].rev <= st.rev
    BY <1>8, <1>h DEF GenerateNext, portVars, At, RequestOfFlight
  <2>2. RequestOfFlight(g)'  BY <2>1, <1>h, GoesFields, WithoutRequest
  <2> QED BY <2>1, <2>2, FlightGoes
<1>9. ASSUME NEW g \in Gates, PublishNext(g) PROVE Memory'
  <2> DEFINE landed == [flight EXCEPT ![g] = NoFlight]
  <2>1. entry' = entry /\ entry[g] = Free /\ st' = st /\ op' = op /\ up = "up" /\ up' = "up"
        /\ flight[g].step = "publish"
        /\ flight' = (IF g = "requirements" THEN Requested(landed, "design") ELSE landed)
    BY <1>9, <1>h DEF PublishNext, portVars, At, RequestOfFlight
  <2>2. landed \in [Gates -> Flights] /\ landed[g] = NoFlight  BY <1>h
  <2>3. ASSUME NEW h \in Gates PROVE RequestOfFlight(h)'
    <3>1. CASE h = g
      <4>1. flight'[g] = NoFlight
        <5>1. CASE g = "requirements"
          BY <5>1, <2>1, <2>2 DEF Requested
        <5>2. CASE g # "requirements"  BY <5>2, <2>1, <2>2
        <5> QED BY <5>1, <5>2
      <4>2. flight'[g].step = "none" /\ flight'[g].rev <= st'.rev
        BY <4>1, <2>1, <1>h DEF NoFlight
      <4> QED BY <3>1, <4>2, <2>1, WithoutRequest
    <3>2. CASE h # g
      <4>1. landed[h] = flight[h]  BY <3>2
      <4> HIDE DEF landed
      <4>2. flight'[h] = flight[h]
            \/ (flight[h].step = "none" /\ flight'[h] = [NoFlight EXCEPT !.step = "load"])
        <5>1. "design" \in Gates  BY DEF Gates
        <5>2. CASE g = "requirements"  BY <5>1, <5>2, <2>1, <2>2, <4>1 DEF Requested
        <5>3. CASE g # "requirements"  BY <5>3, <2>1, <2>2, <4>1
        <5> QED BY <5>2, <5>3
      <4>3. CASE flight'[h] = flight[h]  BY <4>3, <2>1, <1>h, LeftAlone
      <4>4. CASE flight[h].step = "none" /\ flight'[h] = [NoFlight EXCEPT !.step = "load"]
        <5>1. entry[h] = Free  BY <4>4, <1>h DEF RequestOfFlight
        <5>2. [NoFlight EXCEPT !.step = "load"].step = "load"
              /\ [NoFlight EXCEPT !.step = "load"].rev = 0  BY DEF NoFlight
        <5>3. flight'[h].step = "load" /\ flight'[h].rev <= st'.rev
          BY <4>4, <5>2, <2>1, <1>h
        <5> QED BY <5>1, <5>3, <2>1, WithoutRequest
      <4> QED BY <4>2, <4>3, <4>4
    <3> QED BY <3>1, <3>2
  <2> HIDE DEF landed
  <2>4. OpHasCaller'
    <3>1. ASSUME NEW h \in Gates, flight[h].step = "op" PROVE flight'[h] = flight[h]
      <4>1. h # g  BY <2>1, <3>1
      <4>2. landed[h] = flight[h]  BY <4>1 DEF landed
      <4>3. CASE g = "requirements"
        <5>1. "design" \in Gates  BY DEF Gates
        <5> QED BY <4>2, <4>3, <5>1, <2>1, <2>2, <3>1 DEF Requested
      <4>4. CASE g # "requirements"  BY <4>2, <4>4, <2>1
      <4> QED BY <4>3, <4>4
    <3>2. op # NoOp /\ op.by \in Gates => flight[op.by].step = "op"
      BY DEF IInv, Memory, OpHasCaller
    <3> QED BY <2>1, <3>1, <3>2 DEF OpHasCaller
  <2> QED BY <2>1, <2>3, <2>4 DEF Memory, RequestsOfFlights, DownIsEmpty
<1>10. ASSUME NEW g \in Gates, FlightFails(g) PROVE Memory'
  <2>1. entry' = [entry EXCEPT ![g] = Free] /\ flight' = [flight EXCEPT ![g] = NoFlight]
        /\ st' = st /\ op' = op /\ up = "up" /\ up' = "up" /\ flight[g].step # "op"
    BY <1>10 DEF FlightFails, Settled, Lands
  <2>2. RequestOfFlight(g)'  BY <1>10, <2>1, <1>h, WithoutRequest DEF FlightFails, NoFlight
  <2> QED BY <2>1, <2>2, <1>h, FlightMoved
<1>11. ASSUME NEW g \in Gates, flight' = Requested(flight, g), entry' = entry, st' = st, op' = op,
              up = "up", up' = "up"
       PROVE  Memory'
  <2>1. CASE Requested(flight, g)[g] = flight[g]
    <3>1. flight' = flight  BY <1>11, <2>1, <1>h, RequestedStarts
    <3> QED BY <1>11, <3>1, FlightsKept
  <2>2. CASE flight[g].step = "none" /\ Requested(flight, g)[g] = [NoFlight EXCEPT !.step = "load"]
    <3> DEFINE f == [NoFlight EXCEPT !.step = "load"]
    <3>1. f \in Flights /\ f.step = "load" /\ f.rev = 0
      BY <1>h DEF NoFlight, Flights, Early
    <3>2. flight' = [flight EXCEPT ![g] = f]  BY <1>11, <2>2, <1>h, RequestedStarts
    <3> HIDE DEF f
    <3>3. flight'[g] = f /\ entry[g] = Free  BY <2>2, <3>2, <1>h DEF RequestOfFlight
    <3>4. RequestOfFlight(g)'  BY <3>1, <3>3, <1>11, <1>h, WithoutRequest
    <3> QED BY <3>1, <3>2, <3>4, <2>2, <1>11, <1>h, FlightMoved
  <2> QED BY <1>h, <2>1, <2>2, RequestedStarts
<1>12. ASSUME NEW g \in Gates, RetryApproval(g) PROVE Memory'
  BY <1>11, <1>12 DEF RetryApproval, portVars
<1>13. CASE PublishApproval
  BY <1>11, <1>13 DEF PublishApproval, portVars, CmdAt, Gates
<1>14. CASE ClearError
  <2>1. st' = st \/ st'.rev = st.rev + 1  BY <1>14, <1>h, Commits DEF ClearError
  <2>2. op # NoOp /\ op'.by = op.by  BY <1>14, <1>h DEF ClearError, OpAt, NoOp, Ops
  <2> QED BY <1>14, <2>1, <2>2, FlightsKept DEF ClearError, OpAt, portVars
<1>15. CASE OpenPhase
  <2>1. st' = st \/ st'.rev = st.rev + 1  BY <1>15, <1>h, OpTypes, Commits DEF OpenPhase, TypeOK
  <2> QED BY <1>15, <2>1, <1>h, FlightsKept DEF OpenPhase, OpAt, portVars, NoOp, Ops
<1>16. CASE VerifyInputs
  BY <1>16, <1>h, FlightsKept DEF VerifyInputs, OpAt, portVars, NoOp, Ops
<1>17. CASE AgentWrites
  BY <1>17, FlightsKept DEF AgentWrites, OpAt, portVars
<1>18. CASE ClosePhase
  <2>1. st'.rev = st.rev + 1  BY <1>18, <1>h, OpTypes, Commits DEF ClosePhase, TypeOK
  <2>2. up = "up" /\ up' = "up" /\ op # NoOp /\ entry' = entry
    BY <1>18 DEF ClosePhase, OpAt, portVars, NoOp
  <2>3. CASE op' = NoOp /\ Returned(TRUE)  BY <2>1, <2>2, <2>3, ReturnedTo
  <2>4. CASE op' = [op EXCEPT !.step = "fail"] /\ UNCHANGED <<flight, cmd>>
    BY <2>1, <2>2, <2>4, <1>h, FlightsKept DEF Ops
  <2> QED BY <1>18, <2>3, <2>4 DEF ClosePhase
<1>19. CASE OpFails
  BY <1>19, <1>h, FlightsKept DEF OpFails, portVars, NoOp, Ops
<1>20. CASE RecordError
  <2>1. st' = st \/ st'.rev = st.rev + 1  BY <1>20, <1>h, Commits DEF RecordError
  <2>2. up = "up" /\ up' = "up" /\ op # NoOp /\ entry' = entry
    BY <1>20 DEF RecordError, OpAt, portVars, NoOp
  <2>3. op' = NoOp /\ Returned(FALSE)  BY <1>20 DEF RecordError
  <2> QED BY <2>1, <2>2, <2>3, ReturnedTo
<1>21. ASSUME NEW g \in Gates, NEW e \in {"approve", "reject"}, Decided(g, e, entry[g].rev),
              flight' = flight, st' = st, op' = op, up = "up", up' = "up"
       PROVE  Memory'
  <2> DEFINE d == [entry[g] EXCEPT !.status = "decided", !.effect = e]
  <2>1. entry' = [entry EXCEPT ![g] = d] /\ entry'[g] = d /\ entry[g].status = "pending"
    BY <1>21, <1>h DEF Decided, Pending
  <2>2. d \in Requests /\ d.status = "decided" /\ d.effect = e
        /\ d.rev = entry[g].rev /\ d.hashes = entry[g].hashes
    BY <1>h DEF Requests
  <2> HIDE DEF d
  <2>3. flight[g].step = "wait"  BY <2>1, <1>h DEF RequestOfFlight
  <2>4. RequestOfFlight(g)'  BY <2>1, <2>2, <2>3, <1>21, <1>h DEF RequestOfFlight
  <2>5. flight' = [flight EXCEPT ![g] = flight[g]]  BY <1>21, <1>h
  <2> QED BY <2>1, <2>2, <2>3, <2>4, <2>5, <1>21, <1>h, FlightMoved
<1>22. CASE Clarify
  <2>1. CASE UNCHANGED portVars
    BY <1>22, <2>1, FlightsKept DEF Clarify, CmdAt, portVars
  <2>2. CASE \E g \in Gates : Decided(g, "reject", entry[g].rev)
    BY <1>21, <1>22, <2>2 DEF Clarify, CmdAt
  <2> QED BY <1>22, <2>1, <2>2 DEF Clarify
<1>23. CASE DecideApproval
  <2>1. CASE UNCHANGED portVars
    BY <1>23, <2>1, FlightsKept DEF DecideApproval, portVars
  <2>2. CASE \E g \in Gates, e \in {"approve", "reject"} : Decided(g, e, seen)
    <3>1. PICK g \in Gates, e \in {"approve", "reject"} : Decided(g, e, seen)  BY <2>2
    <3>2. Decided(g, e, entry[g].rev)  BY <3>1 DEF Decided
    <3> QED BY <1>21, <1>23, <3>2 DEF DecideApproval
  <2> QED BY <1>23, <2>1, <2>2 DEF DecideApproval
<1>24. ASSUME UNCHANGED <<entry, flight, op>>, st' = st \/ st'.rev = st.rev + 1, up = "up", up' = "up"
       PROVE  Memory'
  BY <1>24, FlightsKept
<1>25. ASSUME NEW k \in Kinds, Begins(k), UNCHANGED <<entry, flight, st>>, up = "up", up' = "up"
       PROVE  Memory'
  BY <1>25, FlightsKept DEF Begins
<1>26. CASE Work
  BY <1>24, <1>25, <1>26 DEF Work, CmdAt, portVars, Kinds
<1>27. CASE RetryGeneration
  BY <1>25, <1>27 DEF RetryGeneration, CmdAt, portVars, Kinds
<1>28. CASE PrepareChange
  BY <1>24, <1>25, <1>28 DEF PrepareChange, CmdAt, portVars, Kinds
<1>29. CASE RetryChange \/ RejectionSettled \/ Observe \/ StopDevelopment \/ CmdFails
  BY <1>24, <1>29 DEF RetryChange, RejectionSettled, Observe, StopDevelopment, CmdFails, CmdAt,
                      portVars
<1>30. CASE ReopenRequirements
  BY <1>24, <1>30, <1>h, ReopenCommit DEF ReopenRequirements, CmdAt, portVars
<1>31. CASE ChangeReady
  BY <1>24, <1>31, <1>h, Commits DEF ChangeReady, CmdAt, portVars
<1>32. CASE CheckDecision \/ StartVerification \/ VerifyResult \/ VerificationFails
  BY <1>24, <1>32 DEF CheckDecision, StartVerification, VerifyResult, VerificationFails, portVars
<1>33. CASE BeginVerification
  BY <1>24, <1>33, <1>h, PhasesAre, Commits DEF BeginVerification, portVars
<1>34. CASE FinishVerification
  BY <1>24, <1>34, <1>h, PhasesAre, Commits DEF FinishVerification, portVars
<1>35. ASSUME NEW d \in Docs, EditDocument(d) PROVE Memory'
  <2>1. entry' = entry /\ flight' = flight /\ op' = op /\ st' = st /\ up' = up
    BY <1>35 DEF EditDocument, portVars
  <2>2. RequestsOfFlights'  BY <2>1, <1>h, LeftAlone DEF RequestsOfFlights
  <2>3. OpHasCaller' /\ DownIsEmpty'
    BY <2>1 DEF IInv, Memory, OpHasCaller, DownIsEmpty
  <2> QED BY <2>2, <2>3 DEF Memory
<1>36. ASSUME MemoryLost, UNCHANGED <<st, files>> PROVE Memory'
  <2>1. \A g \in Gates : entry'[g] = Free /\ flight'[g] = NoFlight  BY <1>36 DEF MemoryLost
  <2>2. RequestsOfFlights'
    BY <2>1, <1>36, <1>h, WithoutRequest DEF RequestsOfFlights, NoFlight
  <2> QED BY <1>36, <2>2 DEF Memory, OpHasCaller, DownIsEmpty, MemoryLost
<1>37. CASE Reconcile
  <2>1. entry' = entry /\ flight' = flight /\ op' = op /\ up # "up"
    BY <1>37 DEF Reconcile, mem, portVars
  <2>2. st' = st \/ st'.rev = st.rev + 1
    BY <1>37, <1>h, InvalidatedIsState, CommitMoves DEF Reconcile, TypeOK
  <2>3. RequestsOfFlights'  BY <2>1, <2>2, <1>h, LeftAlone DEF RequestsOfFlights
  <2>4. OpHasCaller' /\ DownIsEmpty'
    BY <2>1 DEF IInv, Memory, OpHasCaller, DownIsEmpty
  <2> QED BY <2>3, <2>4 DEF Memory
<1>38. CASE Serve
  <2>1. \A g \in Gates : entry'[g] = Free  /\ op' = NoOp /\ up' = "up"
    BY <1>38 DEF Serve, portVars, IInv, Memory, DownIsEmpty
  <2>2. st'.rev \in Nat  BY BoundAssumption DEF TypeOK, States, Revisions
  <2>3. \A g \in Gates : flight'[g] \in {NoFlight, [NoFlight EXCEPT !.step = "load"]}
    BY <1>38 DEF Serve
  <2>4. \A g \in Gates : flight'[g].step \in {"none", "load"} /\ flight'[g].rev = 0
    BY <2>3 DEF NoFlight
  <2>5. RequestsOfFlights'
    BY <2>1, <2>2, <2>4, WithoutRequest DEF RequestsOfFlights
  <2>6. op' = NoOp  BY <2>1 DEF Gates
  <2> QED BY <1>38, <2>5, <2>6 DEF Memory, OpHasCaller, DownIsEmpty, Serve
<1>39. CASE Dispose
  <2>1. flight' = flight /\ op' = op /\ st' = st /\ up' = up /\ up = "up"
        /\ \A g \in Gates : entry'[g] = IF Pending(g) THEN Free ELSE entry[g]
    BY <1>39 DEF Dispose, PortClosed
  <2>2. ASSUME NEW g \in Gates PROVE RequestOfFlight(g)'
    <3>1. CASE Pending(g)
      BY <3>1, <2>1, <1>h DEF Pending, RequestOfFlight, Free
    <3>2. CASE ~Pending(g)  BY <3>2, <2>1, <1>h, LeftAlone
    <3> QED BY <3>1, <3>2
  <2>3. OpHasCaller' /\ DownIsEmpty'
    BY <2>1 DEF IInv, Memory, OpHasCaller, DownIsEmpty
  <2> QED BY <2>2, <2>3 DEF Memory, RequestsOfFlights
<1> QED
  BY <1>1, <1>2, <1>3, <1>4, <1>5, <1>6, <1>7, <1>8, <1>9, <1>10, <1>12, <1>13, <1>14, <1>15,
     <1>16, <1>17, <1>18, <1>19, <1>20, <1>22, <1>23, <1>26, <1>27, <1>28, <1>29, <1>30, <1>31,
     <1>32, <1>33, <1>34, <1>35, <1>36, <1>37, <1>38, <1>39
  DEF Next, FlightStep, OpStep, CmdStep, LifeStep, Crash, Disposed

-----------------------------------------------------------------------------
(* The gates and the verdict.                                                *)

\* The phases behind each gate.
LEMMA BehindGates ==
    ASSUME NEW p \in Phases
    PROVE  /\ Rank(p) > Rank(Awaiting("requirements")) <=>
                 p \in {"DESIGN", "AWAIT_DESIGN_APPROVAL", "PLAN", "BUILD", "VERIFY", "DELIVER"}
           /\ Rank(p) > Rank(Awaiting("design")) <=> p \in {"PLAN", "BUILD", "VERIFY", "DELIVER"}
           /\ Rank(p) > Rank("SPECIFY") <=> p \notin {"DISCOVER", "SPECIFY"}
           /\ Rank(p) > Rank("DESIGN") <=>
                 p \in {"AWAIT_DESIGN_APPROVAL", "PLAN", "BUILD", "VERIFY", "DELIVER"}
BY RankValues, PhasesAre DEF Awaiting

\* GatesInOrder without ranks.
GatesInWords ==
    /\ st.phase \in {"DESIGN", "AWAIT_DESIGN_APPROVAL", "PLAN", "BUILD", "VERIFY", "DELIVER"}
          => st.approvals["requirements"] # Missing
    /\ st.phase \in {"PLAN", "BUILD", "VERIFY", "DELIVER"} => st.approvals["design"] # Missing
    /\ st.phase = "DELIVER" => st.verdict = "ready"

\* Every step keeps the gates in order and the verdict with its phase.
LEMMA GatesStep ==
    ASSUME IInv, TypeOK', Next
    PROVE  GatesInOrder' /\ Verdicts'
<1>h. /\ TypeOK /\ st \in States /\ st' \in States /\ st.phase \in Phases
      /\ op.kind \in Kinds \cup {"none"} /\ files \in [Docs -> Contents]
      /\ Verdicts /\ GatesInOrder
  BY DEF IInv, TypeOK, States, Ops
<1>w. /\ GatesInWords /\ (GatesInWords' => GatesInOrder')
      /\ \A g \in Gates : [st.approvals EXCEPT ![g] = flight[g].before][g] = flight[g].before
  <2>1. st.phase \in Phases /\ st'.phase \in Phases  BY <1>h DEF States
  <2>2. GatesInWords  BY <1>h, <2>1, BehindGates DEF GatesInWords, GatesInOrder
  <2>3. GatesInWords' => GatesInOrder'  BY <2>1, BehindGates DEF GatesInWords, GatesInOrder
  <2> QED BY <1>h, <2>2, <2>3 DEF States
<1>1. CASE st' = st /\ (up' = up \/ up' # "up")
  BY <1>1, <1>h DEF GatesInOrder, Verdicts
<1>2. ASSUME NEW g \in Gates, RecordApproval(g) PROVE GatesInOrder' /\ Verdicts'
  <2>1. up = "up" /\ up' = "up" /\ flight[g].before # Missing
    BY <1>2 DEF RecordApproval, At, IInv, Memory, RequestsOfFlights, RequestOfFlight
  <2>2. st.phase = Awaiting(g) /\ st'.phase = After(g) /\ st'.verdict = st.verdict
        /\ st'.approvals = [st.approvals EXCEPT ![g] = flight[g].before]
    BY <1>2, <1>h, ApprovalCommit
  <2>3. st.verdict = "none"
    BY <2>1, <2>2, <1>h DEF Verdicts, Awaiting
  <2>4. CASE g = "requirements"
    BY <2>1, <2>2, <2>3, <2>4, <1>h, <1>w DEF GatesInWords, Verdicts, After, States, Gates
  <2>5. CASE g = "design"
    BY <2>1, <2>2, <2>3, <2>5, <1>h, <1>w DEF GatesInWords, Verdicts, After, Awaiting, States, Gates
  <2> QED BY <2>4, <2>5 DEF Gates
<1>3. CASE ClearError
  <2>1. st'.phase = st.phase /\ st'.approvals = st.approvals /\ st'.verdict = st.verdict /\ up' = up
    BY <1>3, <1>h, Commits DEF ClearError
  <2> QED BY <2>1, <1>h DEF GatesInOrder, Verdicts
<1>4. CASE OpenPhase
  <2>1. up = "up" /\ up' = up  BY <1>4 DEF OpenPhase, OpAt
  <2>2. CASE st' = st  BY <1>1, <2>1, <2>2
  <2>3. CASE /\ st.phase = OpensFrom(op.kind) /\ OpensFrom(op.kind) # WorkPhase(op.kind)
             /\ Commit(st.rev, [st EXCEPT !.phase = WorkPhase(op.kind)])
    <3>1. st'.phase = WorkPhase(op.kind) /\ st'.approvals = st.approvals
          /\ st'.verdict = st.verdict
      BY <2>3, <1>h, OpTypes, Commits DEF TypeOK
    <3>2. \/ st.phase \in {"DISCOVER", "AWAIT_REQUIREMENTS_APPROVAL"} /\ st'.phase = "SPECIFY"
          \/ st.phase = "AWAIT_DESIGN_APPROVAL" /\ st'.phase = "DESIGN"
      BY <2>3, <3>1, <1>h DEF OpensFrom, WorkPhase, Kinds
    <3> QED BY <3>1, <3>2, <2>1, <1>h, <1>w DEF GatesInWords, Verdicts
  <2> QED BY <1>4, <2>2, <2>3 DEF OpenPhase
<1>5. CASE ClosePhase
  <2>1. up = "up" /\ up' = up /\ st.phase = WorkPhase(op.kind)  BY <1>5 DEF ClosePhase, OpAt
  <2>2. st'.phase = EndsIn(op.kind) /\ st'.approvals = st.approvals /\ st'.verdict = st.verdict
    BY <1>5, <1>h, OpTypes, Commits DEF ClosePhase, TypeOK
  <2>3. \/ st.phase = "SPECIFY" /\ st'.phase = "AWAIT_REQUIREMENTS_APPROVAL"
        \/ st.phase = "DESIGN" /\ st'.phase = "AWAIT_DESIGN_APPROVAL"
        \/ st.phase = "PLAN" /\ st'.phase = "BUILD"
    BY <2>1, <2>2, <1>h DEF EndsIn, WorkPhase, Kinds
  <2> QED BY <2>1, <2>2, <2>3, <1>h, <1>w DEF GatesInWords, Verdicts
<1>6. CASE RecordError
  <2>1. up' = up /\ \/ st' = st
                    \/ st'.phase = st.phase /\ st'.approvals = st.approvals /\ st'.verdict = st.verdict
    BY <1>6, <1>h, Commits DEF RecordError
  <2> QED BY <1>1, <2>1, <1>h DEF GatesInOrder, Verdicts
<1>7. CASE ReopenRequirements
  <2>1. st'.phase = "SPECIFY" /\ st'.verdict = "none"  BY <1>7, <1>h, ReopenCommit
  <2> QED BY <2>1, <1>h, <1>w DEF GatesInWords, Verdicts
<1>8. CASE ChangeReady
  <2>1. st'.phase = st.phase /\ st'.approvals = st.approvals /\ st'.verdict = st.verdict /\ up' = up
    BY <1>8, <1>h, Commits DEF ChangeReady
  <2> QED BY <2>1, <1>h DEF GatesInOrder, Verdicts
<1>9. CASE BeginVerification
  <2>1. st'.phase = "VERIFY" /\ st'.approvals = st.approvals /\ st'.verdict = "none"
        /\ st.phase \in {"BUILD", "VERIFY"}
    BY <1>9, <1>h, PhasesAre, Commits DEF BeginVerification
  <2> QED BY <2>1, <1>h, <1>w DEF GatesInWords, Verdicts
<1>10. CASE FinishVerification
  <2>1. st.phase = "VERIFY" /\ st'.approvals = st.approvals
        /\ \/ st'.phase = "DELIVER" /\ st'.verdict = "ready"
           \/ st'.phase = "VERIFY" /\ st'.verdict = "blocked"
    BY <1>10, <1>h, PhasesAre, Commits DEF FinishVerification
  <2> QED BY <2>1, <1>h, <1>w DEF GatesInWords, Verdicts
<1>11. CASE Reconcile
  <2>1. up # "up" /\ up' # "up"  BY <1>11 DEF Reconcile
  <2>2. CASE st' = st  BY <1>1, <2>1, <2>2
  <2>3. ASSUME NEW p \in {"SPECIFY", "DESIGN"}, Commit(st.rev, Invalidated(st, p))
        PROVE  GatesInOrder' /\ Verdicts'
    <3> DEFINE s == Invalidated(st, p)
    <3>1. s \in States /\ s.verdict = st.verdict
          /\ s.phase = (IF Rank(st.phase) > Rank(p) THEN p ELSE st.phase)
          /\ s.approvals["design"] = Missing
          /\ (p = "DESIGN" => s.approvals["requirements"] = st.approvals["requirements"])
      BY <1>h, InvalidatedIsState DEF Gates
    <3> HIDE DEF s
    <3>2. st'.phase = s.phase /\ st'.approvals = s.approvals /\ st'.verdict = s.verdict
      BY <2>3, <3>1, <1>h, CommitMoves DEF s
    <3>3. p = "SPECIFY" => st'.phase \in {"DISCOVER", "SPECIFY"}
      BY <3>1, <3>2, <1>h, BehindGates
    <3>4. p = "DESIGN" => /\ st'.phase \in {"DISCOVER", "SPECIFY", "AWAIT_REQUIREMENTS_APPROVAL", "DESIGN"}
                          /\ st'.phase = "DESIGN" => st.phase \notin {"DISCOVER", "SPECIFY", "AWAIT_REQUIREMENTS_APPROVAL"}
      BY <3>1, <3>2, <1>h, BehindGates, PhasesAre
    <3>5. GatesInOrder'
      <4>1. CASE p = "SPECIFY"  BY <4>1, <3>3, <1>h, <1>w DEF GatesInWords
      <4>2. CASE p = "DESIGN"
        BY <4>2, <3>1, <3>2, <3>4, <1>h, <1>w, PhasesAre DEF GatesInWords
      <4> QED BY <4>1, <4>2
    <3> QED BY <2>1, <3>1, <3>2, <3>5 DEF Verdicts
  <2> QED BY <1>11, <2>2, <2>3 DEF Reconcile
<1>12. CASE Serve
  <2>1. CASE st' = st /\ st.verdict = "none"  BY <2>1, <1>h DEF GatesInOrder, Verdicts
  <2>2. CASE st' = st /\ st.verdict # "none" /\ ApprovedForDevelopment
    <3>1. st.approvals["design"] # Missing
      BY <2>2, <1>h, ApprovedIsGiven DEF ApprovedForDevelopment, Gates
    <3> QED BY <2>2, <3>1, <1>h DEF GatesInOrder, Verdicts
  <2>3. CASE Commit(st.rev, [st EXCEPT !.verdict = "none",
                      !.phase = IF st.phase = "DELIVER" THEN "VERIFY" ELSE st.phase])
    <3>1. st'.phase = (IF st.phase = "DELIVER" THEN "VERIFY" ELSE st.phase)
          /\ st'.approvals = st.approvals /\ st'.verdict = "none"
      BY <2>3, <1>h, PhasesAre, Commits
    <3> QED BY <3>1, <1>h, <1>w DEF GatesInWords, Verdicts
  <2> QED BY <1>12, <2>1, <2>2, <2>3 DEF Serve
<1>13. \/ st' = st /\ (up' = up \/ up' # "up")
       \/ \E g \in Gates : RecordApproval(g)
       \/ ClearError \/ OpenPhase \/ ClosePhase \/ RecordError \/ ReopenRequirements \/ ChangeReady
       \/ BeginVerification \/ FinishVerification \/ Reconcile \/ Serve
  <2>1. ASSUME NEW g \in Gates, FlightStep(g) \/ RetryApproval(g)
        PROVE  (st' = st /\ up' = up) \/ RecordApproval(g)
    BY <2>1 DEF FlightStep, RetryApproval, LoadForApproval, VerifyRequirements, AskApproval,
                Rejected, CheckUnchanged, SettleApproval, GenerateNext, PublishNext, FlightFails
  <2>2. ASSUME OpStep \/ AgentWrites
        PROVE  (st' = st /\ up' = up) \/ ClearError \/ OpenPhase \/ ClosePhase \/ RecordError
    BY <2>2 DEF OpStep, AgentWrites, VerifyInputs, OpFails
  <2>3. ASSUME Clarify \/ RetryChange \/ RetryGeneration \/ CmdStep \/ CheckDecision \/ DecideApproval
        PROVE  (st' = st /\ up' = up) \/ ReopenRequirements \/ ChangeReady
    BY <2>3 DEF Clarify, RetryChange, RetryGeneration, CmdStep, CheckDecision, DecideApproval,
                RejectionSettled, Work, PublishApproval, Observe, StopDevelopment, PrepareChange,
                CmdFails
  <2>4. ASSUME StartVerification \/ LifeStep
        PROVE  (st' = st /\ up' = up) \/ BeginVerification \/ FinishVerification
    BY <2>4 DEF StartVerification, LifeStep, VerifyResult, VerificationFails
  <2>5. ASSUME (\E d \in Docs : EditDocument(d)) \/ Crash \/ Dispose \/ Disposed
        PROVE  st' = st /\ (up' = up \/ up' # "up")
    BY <2>5 DEF EditDocument, Crash, Dispose, Disposed, MemoryLost
  <2> QED BY <2>1, <2>2, <2>3, <2>4, <2>5 DEF Next
<1> QED
  BY <1>1, <1>2, <1>3, <1>4, <1>5, <1>6, <1>7, <1>8, <1>9, <1>10, <1>11, <1>12, <1>13

-----------------------------------------------------------------------------
(* The theorems.                                                             *)

\* The invariant holds at the start.
LEMMA InitHolds == Init => IInv
<1> SUFFICES ASSUME Init PROVE IInv  OBVIOUS
<1>1. /\ entry \in [Gates -> Requests] /\ closed \in BOOLEAN
      /\ flight \in [Gates -> Flights] /\ files \in [Docs -> Contents]
      /\ \A g \in Gates : entry[g] = Free /\ flight[g] = NoFlight
  <2>1. Free \in Requests /\ NoFlight \in Flights
    BY BoundAssumption DEF Free, Requests, NoFlight, Flights, Revisions
  <2> QED BY <2>1 DEF Init, PortInit
<1>2. st \in States /\ st.phase = "DISCOVER" /\ st.rev = 0 /\ st.verdict = "none"
  BY BoundAssumption, PhasesAre DEF Init, States, Revisions
<1>3. op \in Ops /\ cmd \in Commands
  BY BoundAssumption, PhasesAre DEF Init, NoOp, Ops, NoCmd, Commands, Gates, Revisions
<1>4. TypeOK
  BY <1>1, <1>2, <1>3 DEF Init, TypeOK, PortTypeOK, Unseen
<1>5. GatesInOrder  BY <1>2, PhasesAre, BehindGates DEF GatesInOrder
<1>6. Memory
  BY <1>1, <1>2 DEF Init, Memory, RequestsOfFlights, RequestOfFlight, OpHasCaller, DownIsEmpty,
                    Free, NoFlight
<1> QED BY <1>2, <1>4, <1>5, <1>6 DEF IInv, Verdicts

\* Every step keeps the invariant.
LEMMA InvariantStep == IInv /\ [Next]_vars => IInv'
<1> SUFFICES ASSUME IInv, [Next]_vars PROVE IInv'  OBVIOUS
<1>1. TypeOK'  BY TypeStep DEF IInv
<1>2. CASE Next  BY <1>1, <1>2, GatesStep, MemoryStep DEF IInv
<1>3. CASE UNCHANGED vars
  BY <1>1, <1>3 DEF vars, IInv, GatesInOrder, Verdicts, Memory, RequestsOfFlights, RequestOfFlight,
                    OpHasCaller, DownIsEmpty
<1> QED BY <1>2, <1>3

\* The inductive invariant is one.
LEMMA InvariantHolds == Spec => []IInv
BY InitHolds, InvariantStep, PTL DEF Spec

\* The workflow's state always has its type, whatever interleaves.
THEOREM TypeCorrect == Spec => []TypeOK
<1>1. IInv => TypeOK  BY DEF IInv
<1> QED BY <1>1, InvariantHolds, PTL

\* No task gets behind a gate without the approval that guards it, nor to
\* delivery without a ready verdict.
THEOREM GatesInOrderHolds == Spec => []GatesInOrder
<1>1. IInv => GatesInOrder  BY DEF IInv
<1> QED BY <1>1, InvariantHolds, PTL

\* While the host serves, a saved verdict is that of a task in verification
\* or delivered.
THEOREM VerdictIsCurrentHolds == Spec => []VerdictIsCurrent
<1>1. IInv => VerdictIsCurrent  BY DEF IInv, Verdicts, VerdictIsCurrent
<1> QED BY <1>1, InvariantHolds, PTL

\* The steps that change the approvals, and those that change the port.
LEMMA WhoChangesWhat ==
    ASSUME TypeOK, Next
    PROVE  /\ \/ \A g \in Gates : st'.approvals[g] \in {st.approvals[g], Missing}
              \/ \E g \in Gates : RecordApproval(g)
           /\ \/ entry' = entry \/ MemoryLost \/ PortClosed
              \/ \E g \in Gates : \/ AskApproval(g) \/ Rejected(g) \/ SettleApproval(g) \/ FlightFails(g)
                                  \/ \E e \in {"approve", "reject"}, r \in Revisions : Decided(g, e, r)
<1>h. /\ op.kind \in Kinds \cup {"none"} /\ st.phase \in Phases /\ st \in States
      /\ \A g \in Gates : entry[g].rev \in Revisions
      /\ seen # Unseen => seen \in Revisions
  BY DEF TypeOK, Ops, States, PortTypeOK, Requests, Unseen
<1>1. ASSUME NEW g \in Gates, FlightStep(g) \/ RetryApproval(g)
      PROVE  /\ st' = st \/ RecordApproval(g)
             /\ entry' = entry \/ AskApproval(g) \/ Rejected(g) \/ SettleApproval(g) \/ FlightFails(g)
  BY <1>1 DEF FlightStep, RetryApproval, LoadForApproval, VerifyRequirements, AskApproval,
              Rejected, CheckUnchanged, SettleApproval, GenerateNext, PublishNext, FlightFails,
              RecordApproval, portVars
<1>2. ASSUME OpStep \/ AgentWrites
      PROVE  entry' = entry /\ (st' = st \/ st'.approvals = st.approvals)
  <2>1. entry' = entry
    BY <1>2 DEF OpStep, AgentWrites, ClearError, OpenPhase, VerifyInputs, ClosePhase, OpFails,
                RecordError, portVars
  <2>2. st' = st \/ st'.approvals = st.approvals
    <3>1. CASE ClearError  BY <3>1, Commits DEF ClearError
    <3>2. CASE OpenPhase  BY <3>2, <1>h, OpTypes, Commits DEF OpenPhase, TypeOK
    <3>3. CASE ClosePhase  BY <3>3, <1>h, OpTypes, Commits DEF ClosePhase, TypeOK
    <3>4. CASE RecordError  BY <3>4, Commits DEF RecordError
    <3>5. CASE VerifyInputs \/ OpFails \/ AgentWrites
      BY <3>5 DEF VerifyInputs, OpFails, AgentWrites
    <3> QED BY <1>2, <3>1, <3>2, <3>3, <3>4, <3>5 DEF OpStep
  <2> QED BY <2>1, <2>2
<1>3. ASSUME Clarify \/ RetryChange \/ RetryGeneration \/ CmdStep \/ CheckDecision \/ DecideApproval
      PROVE  /\ st' = st \/ \A g \in Gates : st'.approvals[g] \in {st.approvals[g], Missing}
             /\ \/ entry' = entry
                \/ \E g \in Gates, e \in {"approve", "reject"}, r \in Revisions : Decided(g, e, r)
  <2>1. CASE Clarify  BY <2>1, <1>h DEF Clarify, portVars
  <2>2. CASE DecideApproval  BY <2>2, <1>h DEF DecideApproval, portVars
  <2>3. CASE ReopenRequirements
    <3>1. st'.approvals = [g \in Gates |-> Missing]  BY <2>3, ReopenCommit
    <3> QED BY <2>3, <3>1 DEF ReopenRequirements, portVars
  <2>4. CASE ChangeReady
    <3>1. st'.approvals = st.approvals  BY <2>4, Commits DEF ChangeReady
    <3> QED BY <2>4, <3>1 DEF ChangeReady, portVars
  <2>5. CASE RetryChange \/ RetryGeneration \/ CheckDecision \/ RejectionSettled \/ Work
             \/ PublishApproval \/ Observe \/ StopDevelopment \/ PrepareChange \/ CmdFails
    BY <2>5 DEF RetryChange, RetryGeneration, CheckDecision, RejectionSettled, Work,
                PublishApproval, Observe, StopDevelopment, PrepareChange, CmdFails, portVars
  <2> QED BY <1>3, <2>1, <2>2, <2>3, <2>4, <2>5 DEF CmdStep
<1>4. ASSUME StartVerification \/ LifeStep
      PROVE  entry' = entry /\ (st' = st \/ st'.approvals = st.approvals)
  <2>1. entry' = entry
    BY <1>4 DEF StartVerification, LifeStep, BeginVerification, VerifyResult, FinishVerification,
                VerificationFails, portVars
  <2>2. st' = st \/ st'.approvals = st.approvals
    <3>1. CASE BeginVerification  BY <3>1, PhasesAre, Commits DEF BeginVerification
    <3>2. CASE FinishVerification  BY <3>2, PhasesAre, Commits DEF FinishVerification
    <3>3. CASE StartVerification \/ VerifyResult \/ VerificationFails
      BY <3>3 DEF StartVerification, VerifyResult, VerificationFails
    <3> QED BY <1>4, <3>1, <3>2, <3>3 DEF LifeStep
  <2> QED BY <2>1, <2>2
<1>5. ASSUME (\E d \in Docs : EditDocument(d)) \/ Crash \/ Dispose \/ Disposed
      PROVE  st' = st /\ (entry' = entry \/ MemoryLost \/ PortClosed)
  BY <1>5 DEF EditDocument, Crash, Dispose, Disposed, portVars
<1>6. ASSUME Reconcile
      PROVE  entry' = entry /\ \A g \in Gates : st'.approvals[g] \in {st.approvals[g], Missing}
  <2>1. ASSUME NEW p \in {"SPECIFY", "DESIGN"}, Commit(st.rev, Invalidated(st, p))
        PROVE  \A g \in Gates : st'.approvals[g] \in {st.approvals[g], Missing}
    <3>1. st'.approvals = Invalidated(st, p).approvals
      BY <2>1, <1>h, InvalidatedIsState, CommitMoves
    <3> QED BY <1>h, <3>1, InvalidatedIsState
  <2> QED BY <1>6, <2>1 DEF Reconcile, portVars
<1>7. ASSUME Serve
      PROVE  entry' = entry /\ (st' = st \/ st'.approvals = st.approvals)
  <2>1. ASSUME Commit(st.rev, [st EXCEPT !.verdict = "none",
                        !.phase = IF st.phase = "DELIVER" THEN "VERIFY" ELSE st.phase])
        PROVE  st'.approvals = st.approvals
    BY <2>1, <1>h, PhasesAre, Commits
  <2> QED BY <1>7, <2>1 DEF Serve, portVars
<1> QED BY <1>1, <1>2, <1>3, <1>4, <1>5, <1>6, <1>7 DEF Next

\* An approval is recorded only while the user's own decision is unsettled,
\* for the documents it was asked for, with the state as it was then.
THEOREM ApprovalIsReviewedHolds == Spec => ApprovalIsReviewed
<1>1. ASSUME IInv, [Next]_vars, NEW g \in Gates, st'.approvals[g] \notin {st.approvals[g], Missing}
      PROVE  /\ entry[g].status = "decided" /\ entry[g].effect = "approve"
             /\ entry[g].hashes = st'.approvals[g] /\ entry[g].rev = st.rev
  <2>1. Next /\ TypeOK  BY <1>1 DEF IInv, vars
  <2>2. PICK h \in Gates : RecordApproval(h)  BY <1>1, <2>1, WhoChangesWhat
  <2>3. flight[h].rev = st.rev /\ flight[h].step = "record"
        /\ st'.approvals = [st.approvals EXCEPT ![h] = flight[h].before]
        /\ st'.approvals[h] = flight[h].before
    BY <2>1, <2>2, ApprovalCommit DEF RecordApproval, At
  <2>4. h = g  BY <1>1, <2>1, <2>3 DEF TypeOK, States
  <2>5. RequestOfFlight(g)  BY <1>1 DEF IInv, Memory, RequestsOfFlights
  <2> QED BY <2>3, <2>4, <2>5 DEF RequestOfFlight
<1>2. IInv /\ [Next]_vars =>
        [\A g \in Gates : st'.approvals[g] \notin {st.approvals[g], Missing} =>
              /\ entry[g].status = "decided" /\ entry[g].effect = "approve"
              /\ entry[g].hashes = st'.approvals[g]
              /\ entry[g].rev = st.rev]_vars
  BY <1>1
<1> QED BY <1>2, InvariantHolds, PTL DEF Spec, ApprovalIsReviewed

\* A decision to approve is answered only after the approval is durable, as
\* the revision that follows the one it was asked at.
THEOREM AnsweredIsDurableHolds == Spec => AnsweredIsDurable
<1>1. ASSUME IInv, [Next]_vars, NEW g \in Gates,
             entry[g].effect = "approve", entry'[g] = Free, flight'[g].step # "none"
      PROVE  st.rev > entry[g].rev /\ (st.rev = entry[g].rev + 1 => st.approvals[g] = entry[g].hashes)
  <2>1. RequestOfFlight(g) /\ TypeOK  BY <1>1 DEF IInv, Memory, RequestsOfFlights
  <2>2. entry[g].status = "decided" /\ entry[g] # Free /\ entry'[g] # entry[g]
    BY <1>1, <2>1 DEF RequestOfFlight, Free
  <2>3. Next  BY <1>1, <2>2 DEF vars
  <2>4. ~MemoryLost  BY <1>1 DEF MemoryLost, NoFlight
  <2>5. ~PortClosed  BY <2>2 DEF PortClosed, Pending
  <2>6. PICK h \in Gates : \/ AskApproval(h) \/ Rejected(h) \/ SettleApproval(h) \/ FlightFails(h)
                           \/ \E e \in {"approve", "reject"}, r \in Revisions : Decided(h, e, r)
    BY <2>1, <2>2, <2>3, <2>4, <2>5, WhoChangesWhat
  <2>7. h = g
    BY <2>1, <2>2, <2>6 DEF AskApproval, Asked, Rejected, SettleApproval, FlightFails, Settled,
                            Decided, TypeOK, PortTypeOK
  <2>8. SettleApproval(g)
    <3>1. ~AskApproval(g)  BY <2>2 DEF AskApproval, Asked
    <3>2. ~Rejected(g)  BY <1>1 DEF Rejected
    <3>3. ~FlightFails(g)  BY <1>1, <2>1 DEF FlightFails, Lands, NoFlight, TypeOK
    <3>4. ~\E e \in {"approve", "reject"}, r \in Revisions : Decided(g, e, r)
      BY <2>2 DEF Decided, Pending
    <3> QED BY <2>6, <2>7, <3>1, <3>2, <3>3, <3>4
  <2>9. flight[g].step = "settle"  BY <2>8 DEF SettleApproval, At
  <2> QED BY <2>1, <2>2, <2>9 DEF RequestOfFlight
<1>2. IInv /\ [Next]_vars =>
        [\A g \in Gates :
          (entry[g].effect = "approve" /\ entry'[g] = Free /\ flight'[g].step # "none") =>
              /\ st.rev > entry[g].rev
              /\ st.rev = entry[g].rev + 1 => st.approvals[g] = entry[g].hashes]_vars
  BY <1>1
<1> QED BY <1>2, InvariantHolds, PTL DEF Spec, AnsweredIsDurable
=============================================================================

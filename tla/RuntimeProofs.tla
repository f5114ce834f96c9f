--------------------------- MODULE RuntimeProofs ---------------------------
(***************************************************************************)
(* Theorems about the host's runtime (MCRuntime), for any processes,       *)
(* tokens, actions, pids, schemas, sessions and bounds: the installation   *)
(* of its tools (Installation, with the policy), the database and its GUI  *)
(* (Database), the migration of the database (Migration) and the tasks of  *)
(* the conversations (TaskHost), each by itself, then the whole.  A part's *)
(* invariant strengthens its properties: InstallInv, DatabaseInv,          *)
(* MigrationInv and TaskInv.  The lemmas named ...Initially and ...Step    *)
(* are that it is inductive, those named ...Safe that the properties       *)
(* follow.                                                                 *)
(***************************************************************************)
EXTENDS MCRuntime, FiniteSetTheorems, SequenceTheorems, TLAPS

---------------------------------------------------------------------------
(* The policy *)

\* What the policy forbids it does not ask for: the refusals come first
\* (policy-engine/src/rules.ts evaluateRules).
LEMMA ForbiddenIsNotAsked ==
  ASSUME NEW a, I!Forbidden(a)
  PROVE  I!Decide(a).effect # "ask"
<1> DEFINE rules == I!Rules(a)
           First(i) == /\ rules[i].applies
                       /\ \A j \in 1..(i - 1) : ~rules[j].applies
<1>1. DOMAIN rules = 1..10
  BY DEF I!Rules
<1>2. /\ rules[1] = I!Rule(I!RemoteDatabase(a), "deny", "none")
      /\ rules[2] = I!Rule(I!RemoteService(a), "deny", "none")
      /\ rules[3] = I!Rule(I!GlobalInstall(a), "deny", "none")
      /\ rules[4] = I!Rule(I!DestructiveGit(a), "deny", "none")
      /\ rules[5] = I!Rule(I!UnownedDelete(a), "deny", "none")
  BY DEF I!Rules
<1> HIDE DEF rules
<1>3. /\ rules[1].applies <=> I!RemoteDatabase(a)
      /\ rules[2].applies <=> I!RemoteService(a)
      /\ rules[3].applies <=> I!GlobalInstall(a)
      /\ rules[4].applies <=> I!DestructiveGit(a)
      /\ rules[5].applies <=> I!UnownedDelete(a)
  BY <1>2 DEF I!Rule
<1>4. \A i \in 1..5 : rules[i].effect = "deny"
  BY <1>2 DEF I!Rule
<1>5. \E i \in 1..5 : rules[i].applies
  BY <1>3 DEF I!Forbidden
<1>6. \E i \in 1..5 : First(i)
  BY <1>5
<1>7. PICK k \in 1..10 : k = (CHOOSE i \in DOMAIN rules : First(i)) /\ First(k)
  BY <1>1, <1>6
<1>8. k \in 1..5
  BY <1>5, <1>7
<1>9. I!Decide(a) = rules[k]
  BY <1>7 DEF I!Decide, I!FirstOf, rules
<1> QED
  BY <1>4, <1>8, <1>9

---------------------------------------------------------------------------
(* The installation *)

InstallPlaces == {"idle", "checked", "open", "fetching", "ending", "equipped", "dead", "fetched",
                  "publish uv", "publish uvx", "linked uv", "linked uvx", "verify uv",
                  "uv installed", "make tree", "fill tree", "write receipt", "check receipt"}
Steps == {"none", "asked", "requested", "made", "filled", "linked"}
Writing == {"made", "filled", "linked"}
Executables == {"uv", "uvx"}
FileRecords == [by : Procs \cup {I!Nobody}, content : I!Contents, links : {1, 2}]
TokenRecords == [action : Actions, kind : {"install", "migration"}, used : BOOLEAN, expired : BOOLEAN]

InstallTypeOK == /\ tokens \in [Tokens -> {NoToken} \cup TokenRecords]
                 /\ opened \in [Tokens -> {0, 1}]
                 /\ files \in [I!Paths -> {NoFile} \cup FileRecords]
                 /\ at \in [Procs -> InstallPlaces]
                 /\ download \in [Procs -> Steps]
                 /\ evidence \in [Procs -> SUBSET {"uv", "kit"}]

\* A token is for something the policy asks about, and was accepted at most
\* the once that it is marked with.
TokensAreSound ==
  \A t \in Tokens : /\ tokens[t] # NoToken => I!Decide(tokens[t].action).effect = "ask"
                    /\ opened[t] = 1 => tokens[t] # NoToken /\ tokens[t].used
RanWasAsked == ran # NoAction => I!Decide(ran).effect = "ask"

\* The partial belongs to the one live process whose download writes it.
WriterOwnsPartial ==
  \A p \in Procs : at[p] # "dead" => (download[p] \in Writing <=> I!Own(p, "partial"))

\* A download runs in a session, also after the callback has ended.
DownloadIsOfSession == \A p \in Procs : download[p] # "none" => at[p] \in {"fetching", "ending"}

\* What is linked and not yet published is there.
LinkedIsThere == \A p \in Procs : download[p] = "linked" => I!Exists("archive")

\* An executable that is there is complete, and stays.
ExecutablesAreGood ==
  \A path \in Executables : I!Exists(path) => files[path].content = "good"
PublishedIsThere ==
  \A p \in Procs :
    /\ at[p] \in {"linked uv", "publish uvx", "linked uvx", "verify uv"} => I!Exists("uv")
    /\ at[p] \in {"linked uvx", "verify uv"} => I!Exists("uvx")

TokenInv == TokensAreSound /\ RanWasAsked
DownloadInv == WriterOwnsPartial /\ DownloadIsOfSession /\ LinkedIsThere
PublishInv == ExecutablesAreGood /\ PublishedIsThere /\ I!EvidenceIsWhole

InstallInv == InstallTypeOK /\ TokenInv /\ DownloadInv /\ PublishInv

\* Nothing is there at the start.
LEMMA InstallInitially == I!Init => InstallInv
<1> SUFFICES ASSUME I!Init PROVE InstallInv
  OBVIOUS
<1>1. /\ tokens = [t \in Tokens |-> NoToken] /\ opened = [t \in Tokens |-> 0] /\ ran = NoAction
      /\ files = [path \in I!Paths |-> NoFile]
      /\ at = [p \in Procs |-> "idle"] /\ download = [p \in Procs |-> "none"]
      /\ evidence = [p \in Procs |-> {}]
  BY DEF I!Init
<1>2. InstallTypeOK
  BY <1>1 DEF InstallTypeOK, InstallPlaces, Steps
<1>3. TokenInv
  BY <1>1 DEF TokenInv, TokensAreSound, RanWasAsked
<1>4. DownloadInv
  BY <1>1 DEF DownloadInv, WriterOwnsPartial, DownloadIsOfSession, LinkedIsThere, Writing, I!Own, I!Exists, I!Paths
<1>5. PublishInv
  BY <1>1 DEF PublishInv, ExecutablesAreGood, PublishedIsThere, I!EvidenceIsWhole, Executables,
              I!Exists, I!Paths
<1> QED
  BY <1>2, <1>3, <1>4, <1>5 DEF InstallInv

\* What happens to the other processes while p moves.
Alone(p) == \A q \in Procs \ {p} : /\ at'[q] = at[q] /\ download'[q] = download[q]
                                   /\ evidence'[q] = evidence[q]
                                   /\ I!Own(q, "partial")' <=> I!Own(q, "partial")

\* A process moves: what is to be shown of it and of the files.
LEMMA ProcessMoves ==
  ASSUME NEW p \in Procs, InstallInv, InstallTypeOK', TokenInv', Alone(p),
         at'[p] # "dead" => (download'[p] \in Writing <=> I!Own(p, "partial")'),
         download'[p] # "none" => at'[p] \in {"fetching", "ending"},
         LinkedIsThere',
         \A path \in Executables : /\ I!Exists(path) => I!Exists(path)'
                                   /\ I!Exact(path) => I!Exact(path)'
                                   /\ I!Exists(path)' => files'[path].content = "good",
         at'[p] \in {"linked uv", "publish uvx", "linked uvx", "verify uv"} => I!Exists("uv")',
         at'[p] \in {"linked uvx", "verify uv"} => I!Exists("uvx")',
         "uv" \in evidence'[p] => \A path \in Executables : I!Exact(path)'
  PROVE  InstallInv'
<1>i. DownloadInv /\ PublishInv
  BY DEF InstallInv
<1>1. WriterOwnsPartial'
  <2>1. ASSUME NEW q \in Procs, at'[q] # "dead", q # p
        PROVE  download'[q] \in Writing <=> I!Own(q, "partial")'
    BY <1>i, <2>1 DEF DownloadInv, WriterOwnsPartial, Alone
  <2> QED
    BY <2>1 DEF WriterOwnsPartial
<1>2. DownloadIsOfSession'
  BY <1>i DEF DownloadInv, DownloadIsOfSession, Alone
<1>3. ExecutablesAreGood'
  BY DEF ExecutablesAreGood
<1>4. PublishedIsThere'
  BY <1>i DEF PublishInv, PublishedIsThere, Alone, Executables
<1>5. I!EvidenceIsWhole'
  BY <1>i DEF PublishInv, I!EvidenceIsWhole, Alone, Executables
<1> QED
  BY <1>1, <1>2, <1>3, <1>4, <1>5 DEF InstallInv, DownloadInv, PublishInv

\* A process moves and touches no file.
LEMMA ProcessGoesOn ==
  ASSUME NEW p \in Procs, InstallInv, UNCHANGED <<tokens, opened, ran, files>>, at[p] # "dead",
         at' \in [Procs -> InstallPlaces], download' \in [Procs -> Steps],
         evidence' \in [Procs -> SUBSET {"uv", "kit"}],
         \A q \in Procs \ {p} : at'[q] = at[q] /\ download'[q] = download[q] /\ evidence'[q] = evidence[q],
         at'[p] # "dead" => (download'[p] \in Writing <=> download[p] \in Writing),
         download'[p] = "linked" => download[p] = "linked",
         download'[p] # "none" => at'[p] \in {"fetching", "ending"},
         at'[p] \in {"linked uv", "publish uvx", "linked uvx", "verify uv"} => I!Exists("uv"),
         at'[p] \in {"linked uvx", "verify uv"} => I!Exists("uvx"),
         "uv" \in evidence'[p] => \A path \in Executables : I!Exact(path)
  PROVE  InstallInv'
<1>i. InstallTypeOK /\ TokenInv /\ WriterOwnsPartial /\ LinkedIsThere /\ ExecutablesAreGood
  BY DEF InstallInv, DownloadInv, PublishInv
<1>1. InstallTypeOK'
  BY <1>i DEF InstallTypeOK
<1>2. TokenInv'
  BY <1>i DEF TokenInv, TokensAreSound, RanWasAsked
<1>3. \A path \in I!Paths, q \in Procs : /\ I!Exists(path)' <=> I!Exists(path)
                                         /\ I!Exact(path)' <=> I!Exact(path)
                                         /\ I!Own(q, path)' <=> I!Own(q, path)
  BY DEF I!Exists, I!Exact, I!Own
<1>4. "partial" \in I!Paths /\ "uv" \in I!Paths /\ "uvx" \in I!Paths /\ Executables \subseteq I!Paths
  BY DEF I!Paths, Executables
<1>5. Alone(p)
  BY <1>3, <1>4 DEF Alone
<1>6. LinkedIsThere'
  BY <1>i, <1>3 DEF LinkedIsThere, I!Paths
<1>7. at'[p] # "dead" => (download'[p] \in Writing <=> I!Own(p, "partial")')
  BY <1>i, <1>3, <1>4 DEF WriterOwnsPartial
<1>8. \A path \in Executables : I!Exists(path)' => files'[path].content = "good"
  BY <1>i, <1>3, <1>4 DEF ExecutablesAreGood
<1> QED
  BY <1>1, <1>2, <1>3, <1>4, <1>5, <1>6, <1>7, <1>8, ProcessMoves

\* Issuing, expiring and spending tokens.
LEMMA TokensStep ==
  ASSUME InstallInv, NEW t \in Tokens, UNCHANGED <<files, download>>,
         \/ I!Issue(t) \/ I!Expire(t)
         \/ \E p \in Procs : I!RunCommand(p, t) \/ I!Open(p, t)
  PROVE  InstallInv'
<1>i. InstallTypeOK /\ TokensAreSound /\ RanWasAsked /\ DownloadInv /\ PublishInv
  BY DEF InstallInv, TokenInv
<1>n. \A r \in TokenRecords : r # NoToken
  BY NothingIsNoValue DEF TokenRecords
<1>1. \A r \in TokenRecords :
        /\ [r EXCEPT !.expired = TRUE] \in TokenRecords /\ [r EXCEPT !.used = TRUE] \in TokenRecords
        /\ [r EXCEPT !.expired = TRUE].action = r.action /\ [r EXCEPT !.expired = TRUE].used = r.used
        /\ [r EXCEPT !.used = TRUE].action = r.action /\ [r EXCEPT !.used = TRUE].used = TRUE
  BY DEF TokenRecords
<1>2. ASSUME I!Issue(t)
      PROVE  /\ tokens' \in [Tokens -> {NoToken} \cup TokenRecords] /\ TokenInv'
             /\ UNCHANGED <<opened, at, evidence>>
  <2>1. PICK a \in Actions, kind \in {"install", "migration"} :
          /\ tokens[t] = NoToken /\ I!Decide(a).effect = "ask"
          /\ tokens' = [tokens EXCEPT ![t] = [action |-> a, kind |-> kind, used |-> FALSE, expired |-> FALSE]]
    BY <1>2 DEF I!Issue
  <2> DEFINE new == [action |-> a, kind |-> kind, used |-> FALSE, expired |-> FALSE]
  <2>2. new \in TokenRecords /\ new.action = a
    BY DEF TokenRecords
  <2>3. tokens' = [tokens EXCEPT ![t] = new] /\ UNCHANGED <<opened, ran, at, evidence>>
    BY <1>2, <2>1 DEF I!Issue
  <2> HIDE DEF new
  <2>4. tokens' \in [Tokens -> {NoToken} \cup TokenRecords]
    BY <1>i, <2>2, <2>3 DEF InstallTypeOK
  <2>5. TokensAreSound'
    BY <1>i, <1>n, <2>1, <2>2, <2>3 DEF InstallTypeOK, TokensAreSound
  <2> QED
    BY <1>i, <2>3, <2>4, <2>5 DEF TokenInv, RanWasAsked
<1>3. ASSUME I!Expire(t)
      PROVE  /\ tokens' \in [Tokens -> {NoToken} \cup TokenRecords] /\ TokenInv'
             /\ UNCHANGED <<opened, at, evidence>>
  <2>1. /\ tokens[t] \in TokenRecords /\ tokens' = [tokens EXCEPT ![t] = [@ EXCEPT !.expired = TRUE]]
        /\ UNCHANGED <<opened, ran, at, evidence>>
    BY <1>i, <1>3 DEF I!Expire, InstallTypeOK
  <2>2. tokens' \in [Tokens -> {NoToken} \cup TokenRecords]
    BY <1>i, <1>1, <2>1 DEF InstallTypeOK
  <2>3. TokensAreSound'
    BY <1>i, <1>n, <1>1, <2>1, ZenonT(30) DEF InstallTypeOK, TokensAreSound
  <2> QED
    BY <1>i, <2>1, <2>2, <2>3 DEF TokenInv, RanWasAsked
<1>4. ASSUME NEW a, I!Consumable(t, a), I!Spend(t), ran' = a
      PROVE  /\ tokens' \in [Tokens -> {NoToken} \cup TokenRecords] /\ TokenInv'
             /\ opened' \in [Tokens -> {0, 1}]
  <2>1. /\ tokens[t] \in TokenRecords /\ tokens[t].action = a /\ opened[t] = 0
        /\ tokens' = [tokens EXCEPT ![t] = [@ EXCEPT !.used = TRUE]]
        /\ opened' = [opened EXCEPT ![t] = @ + 1]
    BY <1>i, <1>4 DEF I!Consumable, I!Spend, InstallTypeOK, TokensAreSound
  <2>2. tokens' \in [Tokens -> {NoToken} \cup TokenRecords]
    BY <1>i, <1>1, <2>1 DEF InstallTypeOK
  <2>3. opened' = [opened EXCEPT ![t] = 1]
    BY <2>1
  <2>4. opened' \in [Tokens -> {0, 1}]
    BY <1>i, <2>3 DEF InstallTypeOK
  <2>5. TokensAreSound'
    <3>1. PICK new \in TokenRecords : /\ new = [tokens[t] EXCEPT !.used = TRUE]
                                     /\ new.action = tokens[t].action /\ new.used = TRUE
      BY <1>1, <2>1
    <3>2. tokens' = [tokens EXCEPT ![t] = new]
      BY <2>1, <3>1
    <3>3. I!Decide(new.action).effect = "ask"
      BY <1>i, <1>n, <2>1, <3>1 DEF TokensAreSound
    <3> QED
      BY <1>i, <1>n, <2>3, <3>1, <3>2, <3>3 DEF InstallTypeOK, TokensAreSound
  <2>6. RanWasAsked'
    BY <1>i, <1>n, <1>4, <2>1 DEF TokensAreSound, RanWasAsked
  <2> QED
    BY <2>2, <2>4, <2>5, <2>6 DEF TokenInv
<1>5. ASSUME NEW p \in Procs, I!RunCommand(p, t)
      PROVE  /\ tokens' \in [Tokens -> {NoToken} \cup TokenRecords] /\ TokenInv'
             /\ opened' \in [Tokens -> {0, 1}] /\ UNCHANGED <<at, evidence>>
  BY <1>4, <1>5 DEF I!RunCommand
<1>6. CASE I!Issue(t) \/ I!Expire(t) \/ \E p \in Procs : I!RunCommand(p, t)
  <2>1. /\ UNCHANGED <<at, evidence, files, download>> /\ TokenInv' /\ InstallTypeOK'
    BY <1>i, <1>2, <1>3, <1>5, <1>6 DEF InstallTypeOK
  <2>2. DownloadInv'
    BY <1>i, <2>1 DEF DownloadInv, WriterOwnsPartial, DownloadIsOfSession, LinkedIsThere, I!Own, I!Exists
  <2>3. PublishInv'
    BY <1>i, <2>1 DEF PublishInv, ExecutablesAreGood, PublishedIsThere, I!EvidenceIsWhole, I!Exact, I!Exists
  <2> QED
    BY <2>1, <2>2, <2>3 DEF InstallInv
<1>7. ASSUME NEW p \in Procs, I!Open(p, t) PROVE InstallInv'
  <2>1. /\ at[p] = "checked" /\ UNCHANGED <<files, download, evidence>>
        /\ at' = [at EXCEPT ![p] = "open"] \/ at' = [at EXCEPT ![p] = "idle"]
    BY <1>7 DEF I!Open, I!Go
  <2>2. TokenInv' /\ tokens' \in [Tokens -> {NoToken} \cup TokenRecords] /\ opened' \in [Tokens -> {0, 1}]
    <3>1. CASE I!Consumable(t, Install) /\ I!Spend(t) /\ ran' = Install
      BY <1>4, <3>1
    <3>2. CASE UNCHANGED <<tokens, opened, ran>>
      BY <1>i, <3>2 DEF TokenInv, TokensAreSound, RanWasAsked, InstallTypeOK
    <3> QED
      BY <1>7, <3>1, <3>2 DEF I!Open
  <2>3. InstallTypeOK'
    BY <1>i, <2>1, <2>2 DEF InstallTypeOK, InstallPlaces
  <2>4. DownloadInv'
    BY <1>i, <2>1 DEF DownloadInv, WriterOwnsPartial, DownloadIsOfSession, LinkedIsThere, I!Own, I!Exists, InstallTypeOK, Writing
  <2>5. PublishInv'
    BY <1>i, <2>1 DEF PublishInv, ExecutablesAreGood, PublishedIsThere, I!EvidenceIsWhole, I!Exact, I!Exists, InstallTypeOK
  <2> QED
    BY <2>2, <2>3, <2>4, <2>5 DEF InstallInv
<1> QED
  BY <1>6, <1>7

\* The steps of a process that touch no file.
LEMMA QuietStep ==
  ASSUME InstallInv, NEW p \in Procs,
         \/ I!Check(p) \/ I!Leave(p) \/ I!Close(p) \/ I!Crash(p)
         \/ I!Fetch(p) \/ I!Prepare(p) \/ I!NoResponse(p)
         \/ I!FindUv(p) \/ I!VerifyUv(p)
         \/ I!FindKit(p) \/ I!MakeTree(p) \/ I!FillTree(p) \/ I!WriteReceipt(p) \/ I!IssueKit(p)
  PROVE  InstallInv'
<1>i. InstallTypeOK /\ DownloadIsOfSession /\ PublishedIsThere
  BY DEF InstallInv, DownloadInv, PublishInv
<1>e. "uv" \in evidence[p] => \A path \in Executables : I!Exact(path)
  BY DEF InstallInv, PublishInv, I!EvidenceIsWhole, Executables
<1>u. UNCHANGED <<tokens, opened, ran, files>>
  BY DEF I!Check, I!Leave, I!Close, I!Crash, I!Fetch, I!Prepare, I!NoResponse, I!Stay, I!FindUv,
         I!VerifyUv, I!FindKit, I!MakeTree, I!FillTree, I!Build, I!WriteReceipt, I!IssueKit, I!Keep
<1> USE DEF InstallTypeOK, InstallPlaces, Steps
<1>1. CASE I!Check(p)
  <2>1. at[p] = "idle" /\ at' = [at EXCEPT ![p] = "checked"] /\ UNCHANGED <<download, evidence>>
    BY <1>1 DEF I!Check, I!Go
  <2> QED
    BY <1>i, <1>e, <1>u, <2>1, ProcessGoesOn DEF DownloadIsOfSession
<1>2. CASE I!Leave(p)
  <2>1. at[p] = "fetching" /\ at' = [at EXCEPT ![p] = "ending"] /\ UNCHANGED <<download, evidence>>
    BY <1>2 DEF I!Leave, I!Fail, I!Go
  <2> QED
    BY <1>i, <1>e, <1>u, <2>1, ProcessGoesOn
<1>3. CASE I!Close(p)
  <2>1. /\ at[p] \in {"ending", "equipped"} /\ download[p] = "none" /\ at' = [at EXCEPT ![p] = "idle"]
        /\ UNCHANGED download /\ evidence' = [evidence EXCEPT ![p] = {}]
    BY <1>3 DEF I!Close, I!Settled, I!Go
  <2> QED
    BY <1>i, <1>u, <2>1, ProcessGoesOn
<1>4. CASE I!Crash(p)
  <2>1. /\ at[p] # "dead" /\ at' = [at EXCEPT ![p] = "dead"]
        /\ download' = [download EXCEPT ![p] = "none"] /\ evidence' = [evidence EXCEPT ![p] = {}]
    BY <1>4 DEF I!Crash, I!Go
  <2> QED
    BY <1>i, <1>u, <2>1, ProcessGoesOn
<1>5. CASE I!Fetch(p)
  <2>1. /\ at[p] = "open" /\ at' = [at EXCEPT ![p] = "fetching"] /\ UNCHANGED evidence
        /\ download' = [download EXCEPT ![p] = "asked"]
    BY <1>5 DEF I!Fetch, I!Go, I!Stay
  <2> QED
    BY <1>i, <1>e, <1>u, <2>1, ProcessGoesOn DEF DownloadIsOfSession, Writing
<1>6. CASE I!Prepare(p) \/ I!NoResponse(p)
  <2>1. /\ download[p] \in {"asked", "requested"} /\ UNCHANGED evidence
        /\ \/ download' = [download EXCEPT ![p] = "requested"] /\ UNCHANGED at
           \/ /\ download' = [download EXCEPT ![p] = "none"]
              /\ \/ at' = [at EXCEPT ![p] = "fetched"] \/ at' = [at EXCEPT ![p] = "ending"]
                 \/ UNCHANGED at
    BY <1>6 DEF I!Prepare, I!NoResponse, I!Fetched, I!Failed, I!Settle, I!Continue, I!Go, I!Stay
  <2>2. at[p] \in {"fetching", "ending"}
    BY <1>i, <2>1 DEF DownloadIsOfSession
  <2> QED
    BY <1>i, <1>e, <1>u, <2>1, <2>2, ProcessGoesOn, ZenonT(30) DEF Writing
<1>7. CASE I!FindUv(p)
  <2>1. /\ at[p] = "fetched" /\ UNCHANGED download
        /\ \/ at' = [at EXCEPT ![p] = "ending"] /\ UNCHANGED evidence
           \/ at' = [at EXCEPT ![p] = "publish uv"] /\ UNCHANGED evidence
           \/ /\ ~I!Partly(I!Installed) /\ I!Installed # {} /\ I!Recovered
              /\ evidence' = [evidence EXCEPT ![p] = @ \cup {"uv"}]
              /\ at' = [at EXCEPT ![p] = "uv installed"]
    BY <1>7 DEF I!FindUv, I!Fail, I!Go
  <2>2. ~I!Partly(I!Installed) /\ I!Installed # {} => I!Installed = Executables
    <3>1. ASSUME NEW path \in Executables, I!Installed = {path} PROVE I!Partly(I!Installed)
      <4>1. \A S : S = {path} => Cardinality(S) = 1
        <5>1. Cardinality({path}) = 1
          BY FS_Singleton
        <5> QED
          BY <5>1, Zenon
      <4>2. Cardinality(I!Installed) = 1
        BY <3>1, <4>1
      <4> QED
        BY <4>2 DEF I!Partly, I!Cardinality, Cardinality
    <3> QED
      BY <3>1 DEF I!Installed, Executables
  <2>3. ~I!Partly(I!Installed) /\ I!Installed # {} /\ I!Recovered => \A path \in Executables : I!Exact(path)
    BY <2>2 DEF I!Recovered
  <2>4. download[p] = "none"
    BY <1>i, <2>1 DEF DownloadIsOfSession
  <2>5. CASE evidence' = [evidence EXCEPT ![p] = @ \cup {"uv"}]
    BY <1>i, <1>e, <1>u, <2>1, <2>3, <2>4, <2>5, ProcessGoesOn, ZenonT(30)
  <2>6. CASE UNCHANGED evidence
    BY <1>i, <1>e, <1>u, <2>1, <2>4, <2>6, ProcessGoesOn
  <2> QED
    BY <2>1, <2>5, <2>6
<1>8. CASE I!VerifyUv(p)
  <2>1. /\ at[p] = "verify uv" /\ UNCHANGED download
        /\ \/ at' = [at EXCEPT ![p] = "ending"] /\ UNCHANGED evidence
           \/ /\ I!Recovered
              /\ evidence' = [evidence EXCEPT ![p] = @ \cup {"uv"}]
              /\ at' = [at EXCEPT ![p] = "uv installed"]
    BY <1>8 DEF I!VerifyUv, I!Fail, I!Go
  <2>2. I!Recovered => \A path \in Executables : I!Exact(path)
    BY <1>i, <2>1 DEF PublishedIsThere, I!Recovered, I!Installed, Executables
  <2>3. download[p] = "none"
    BY <1>i, <2>1 DEF DownloadIsOfSession
  <2>4. CASE /\ I!Recovered
             /\ evidence' = [evidence EXCEPT ![p] = @ \cup {"uv"}]
             /\ at' = [at EXCEPT ![p] = "uv installed"]
    BY <1>i, <1>e, <1>u, <2>1, <2>2, <2>3, <2>4, ProcessGoesOn
  <2>5. CASE at' = [at EXCEPT ![p] = "ending"] /\ UNCHANGED evidence
    BY <1>i, <1>e, <1>u, <2>1, <2>3, <2>5, ProcessGoesOn
  <2> QED
    BY <2>1, <2>4, <2>5
<1>9. CASE \/ I!FindKit(p) \/ I!MakeTree(p) \/ I!FillTree(p) \/ I!WriteReceipt(p) \/ I!IssueKit(p)
  <2>1. /\ at[p] \in {"uv installed", "make tree", "fill tree", "write receipt", "check receipt"}
        /\ UNCHANGED download
        /\ \/ UNCHANGED evidence
           \/ evidence' = [evidence EXCEPT ![p] = @ \cup {"kit"}]
        /\ \E place \in {"ending", "make tree", "fill tree", "write receipt", "check receipt", "equipped"} :
             at' = [at EXCEPT ![p] = place]
    BY <1>9 DEF I!FindKit, I!MakeTree, I!FillTree, I!Build, I!WriteReceipt, I!IssueKit, I!Equip,
                I!Keep, I!Fail, I!Go
  <2>2. download[p] = "none"
    BY <1>i, <2>1 DEF DownloadIsOfSession
  <2>3. /\ evidence' \in [Procs -> SUBSET {"uv", "kit"}]
        /\ \A q \in Procs \ {p} : evidence'[q] = evidence[q]
        /\ "uv" \in evidence'[p] => "uv" \in evidence[p]
    <3>1. CASE UNCHANGED evidence
      BY <1>i, <3>1
    <3>2. CASE evidence' = [evidence EXCEPT ![p] = @ \cup {"kit"}]
      BY <1>i, <3>2
    <3> QED
      BY <2>1, <3>1, <3>2
  <2>4. /\ at' \in [Procs -> InstallPlaces] /\ \A q \in Procs \ {p} : at'[q] = at[q]
        /\ at'[p] \in {"ending", "make tree", "fill tree", "write receipt", "check receipt", "equipped"}
    BY <1>i, <2>1
  <2> QED
    BY <1>i, <1>e, <1>u, <2>1, <2>2, <2>3, <2>4, ProcessGoesOn
<1> QED
  BY <1>1, <1>2, <1>3, <1>4, <1>5, <1>6, <1>7, <1>8, <1>9

\* What is removed, or fails to be, is no process's afterwards.
LEMMA DiscardedIsNobodys ==
  ASSUME InstallTypeOK, NEW paths \in SUBSET I!Paths, I!Discard(paths),
         \A path \in paths : I!Exists(path), Cardinality(paths) \in {1, 2}, IsFiniteSet(paths)
  PROVE  /\ files' \in [I!Paths -> {NoFile} \cup FileRecords]
         /\ \A path \in I!Paths \ paths : files'[path] = files[path]
         /\ \A path \in paths, q \in Procs : ~I!Own(q, path)'
<1>1. PICK kept \in SUBSET paths :
        files' = [path \in I!Paths |->
                    IF path \in kept
                    THEN [files[path] EXCEPT !.by = I!Nobody, !.links = Cardinality(kept)]
                    ELSE IF path \in paths THEN NoFile ELSE files[path]]
  BY DEF I!Discard, I!Cardinality, Cardinality
<1>2. ASSUME NEW path \in kept
      PROVE  files'[path] \in FileRecords /\ files'[path].by = I!Nobody
  <2>1. IsFiniteSet(kept) /\ Cardinality(kept) <= Cardinality(paths)
    BY FS_Subset
  <2>2. Cardinality(kept) \in Nat /\ Cardinality(kept) # 0
    BY <2>1, <1>2, FS_CardinalityType, FS_EmptySet
  <2>3. PICK k : k = Cardinality(kept)
    OBVIOUS
  <2>4. k \in {1, 2}
    BY <2>1, <2>2, <2>3
  <2>5. files[path] \in FileRecords
    BY DEF InstallTypeOK, I!Exists
  <2>6. files'[path] = [files[path] EXCEPT !.by = I!Nobody, !.links = k]
    BY <1>1, <2>3
  <2> QED
    BY <2>4, <2>5, <2>6 DEF FileRecords
<1>3. \A path \in I!Paths : /\ path \notin paths => files'[path] = files[path]
                            /\ path \in paths \ kept => files'[path] = NoFile
  BY <1>1
<1>4. files' = [path \in I!Paths |-> files'[path]]
  BY <1>1
<1>5. \A path \in I!Paths : files'[path] \in {NoFile} \cup FileRecords
  BY <1>2, <1>3 DEF InstallTypeOK
<1> QED
  BY <1>2, <1>3, <1>4, <1>5, NothingIsNoValue DEF I!Own, I!Exists

\* The steps of a process that touch its partial and the archive.
LEMMA DownloadStep ==
  ASSUME InstallInv, NEW p \in Procs, I!MakePartial(p) \/ I!Fill(p) \/ I!Link(p) \/ I!Publish(p)
  PROVE  InstallInv'
<1>i. InstallTypeOK /\ TokenInv /\ DownloadIsOfSession /\ WriterOwnsPartial /\ LinkedIsThere
      /\ ExecutablesAreGood
  BY DEF InstallInv, DownloadInv, PublishInv
<1>e. "uv" \in evidence[p] => \A path \in Executables : I!Exact(path)
  BY DEF InstallInv, PublishInv, I!EvidenceIsWhole, Executables
<1>n. \A r \in FileRecords : r # NoFile
  BY NothingIsNoValue DEF FileRecords
<1>u. UNCHANGED <<tokens, opened, ran, evidence>>
  BY DEF I!MakePartial, I!Fill, I!Link, I!Publish, I!Stay
<1>t. TokenInv'
  BY <1>i, <1>u DEF TokenInv, TokensAreSound, RanWasAsked
<1>p. "partial" \in I!Paths /\ "archive" \in I!Paths /\ Executables \subseteq I!Paths
      /\ "partial" \notin Executables /\ "archive" \notin Executables
  BY DEF I!Paths, Executables
<1>c. /\ IsFiniteSet({"partial"}) /\ Cardinality({"partial"}) = 1
      /\ IsFiniteSet({"partial", "archive"}) /\ Cardinality({"partial", "archive"}) = 2
  <2>1. IsFiniteSet({"partial"}) /\ Cardinality({"partial"}) = 1
    BY FS_Singleton
  <2>2. {"partial", "archive"} = {"partial"} \cup {"archive"} /\ "archive" \notin {"partial"}
    OBVIOUS
  <2> QED
    BY <2>1, <2>2, FS_AddElement
<1>1. /\ download[p] \in {"requested", "made", "filled", "linked"}
      /\ at[p] \in {"fetching", "ending"}
  BY <1>i DEF I!MakePartial, I!Fill, I!Link, I!Publish, DownloadIsOfSession
\* What becomes of p, and of the partial.
<1>2. /\ \/ /\ \E step \in {"made", "filled", "linked"} : download' = [download EXCEPT ![p] = step]
            /\ UNCHANGED at
         \/ /\ download' = [download EXCEPT ![p] = "none"]
            /\ \/ at' = [at EXCEPT ![p] = "fetched"] \/ at' = [at EXCEPT ![p] = "ending"]
               \/ UNCHANGED at
  BY DEF I!MakePartial, I!Fill, I!Link, I!Publish, I!Failed, I!Fetched, I!Settle, I!Continue, I!Go
<1>3. ASSUME NEW content \in I!Contents
      PROVE  I!File(p, content, 1) \in FileRecords /\ I!File(p, content, 1).by = p
  BY DEF I!File, FileRecords
<1>4. /\ files' \in [I!Paths -> {NoFile} \cup FileRecords]
      /\ \A path \in Executables : files'[path] = files[path]
      /\ \A q \in Procs \ {p} : I!Own(q, "partial")' <=> I!Own(q, "partial")
      /\ download'[p] \in Writing <=> I!Own(p, "partial")'
  <2> USE DEF InstallTypeOK, I!Own, I!Exists, Writing
  <2>1. CASE I!MakePartial(p)
    <3>1. CASE I!Exists("partial") /\ UNCHANGED files /\ download' = [download EXCEPT ![p] = "none"]
      <4>1. download[p] = "requested"
        BY <2>1 DEF I!MakePartial
      <4> QED
        BY <1>i, <1>1, <1>p, <3>1, <4>1 DEF WriterOwnsPartial
    <3>2. CASE /\ files["partial"] = NoFile /\ files' = [files EXCEPT !["partial"] = I!File(p, "empty", 1)]
               /\ download' = [download EXCEPT ![p] = "made"]
      <4>1. PICK new \in FileRecords : new = I!File(p, "empty", 1) /\ new.by = p
        BY <1>3 DEF I!Contents
      <4>2. files' = [files EXCEPT !["partial"] = new]
        BY <3>2, <4>1
      <4> QED
        BY <1>i, <1>n, <1>p, <3>2, <4>1, <4>2
    <3> QED
      BY <2>1, <3>1, <3>2 DEF I!MakePartial, I!Failed, I!Settle, I!Continue
  <2>2. CASE I!Fill(p)
    <3>1. I!Own(p, "partial")
      BY <2>2 DEF I!Fill
    <3>2. CASE I!Discard({"partial"}) /\ download' = [download EXCEPT ![p] = "none"]
      BY <1>i, <1>p, <1>c, <3>1, <3>2, DiscardedIsNobodys
    <3>3. ASSUME NEW content \in I!Contents,
                 files' = [files EXCEPT !["partial"] = I!File(p, content, 1)],
                 download' = [download EXCEPT ![p] = "filled"]
          PROVE  <1>4!1 /\ <1>4!2 /\ <1>4!3 /\ <1>4!4
      <4>1. PICK new \in FileRecords : new = I!File(p, content, 1) /\ new.by = p
        BY <1>3
      <4>2. files' = [files EXCEPT !["partial"] = new]
        BY <3>3, <4>1
      <4> QED
        BY <1>i, <1>n, <1>p, <3>1, <3>3, <4>1, <4>2
    <3> QED
      BY <2>2, <3>2, <3>3 DEF I!Fill, I!Failed, I!Settle, I!Continue
  <2>3. CASE I!Link(p)
    <3>1. files["partial"] \in FileRecords /\ files["partial"].by = p
      BY <1>i, <1>p, <2>3 DEF I!Link
    <3>2. CASE I!Discard({"partial"}) /\ download' = [download EXCEPT ![p] = "none"]
      <4>1. I!Own(p, "partial")
        BY <2>3 DEF I!Link
      <4> QED
        BY <1>i, <1>p, <1>c, <3>1, <3>2, <4>1, DiscardedIsNobodys
    <3>3. PICK both : both = [files["partial"] EXCEPT !.links = 2]
      OBVIOUS
    <3>4. both \in FileRecords /\ both.by = p
      BY <3>1, <3>3 DEF FileRecords
    <3>5. CASE /\ files' = [files EXCEPT !["partial"] = both, !["archive"] = both]
               /\ download' = [download EXCEPT ![p] = "linked"]
      BY <1>i, <1>n, <1>p, <3>1, <3>4, <3>5
    <3> QED
      BY <2>3, <3>2, <3>3, <3>5 DEF I!Link, I!Failed, I!Settle, I!Continue
  <2>4. CASE I!Publish(p)
    <3>1. files["partial"] \in FileRecords /\ files["partial"].by = p
          /\ download' = [download EXCEPT ![p] = "none"]
      BY <1>i, <1>p, <2>4 DEF I!Publish, I!Failed, I!Fetched, I!Settle
    <3>2. CASE I!Discard({"partial", "archive"})
      <4>1. I!Own(p, "partial") /\ I!Exists("archive")
        BY <1>i, <2>4 DEF I!Publish, LinkedIsThere
      <4>2. {"partial", "archive"} \subseteq I!Paths
        BY <1>p
      <4> QED
        BY <1>i, <1>p, <1>c, <3>1, <3>2, <4>1, <4>2, DiscardedIsNobodys
    <3>3. CASE files' = [files EXCEPT !["partial"] = NoFile, !["archive"].links = 1]
      <4>1. files["archive"] \in FileRecords
        BY <1>i, <1>p, <2>4 DEF I!Publish, LinkedIsThere
      <4>2. PICK new : new = [files["archive"] EXCEPT !.links = 1]
        OBVIOUS
      <4>3. new \in FileRecords
        BY <4>1, <4>2 DEF FileRecords
      <4>4. files' = [files EXCEPT !["partial"] = NoFile, !["archive"] = new]
        BY <3>3, <4>2
      <4> QED
        BY <1>i, <1>p, <3>1, <4>3, <4>4
    <3> QED
      BY <2>4, <3>2, <3>3 DEF I!Publish
  <2> QED
    BY <2>1, <2>2, <2>3, <2>4
<1>5. /\ at' \in [Procs -> InstallPlaces] /\ download' \in [Procs -> Steps]
      /\ at'[p] \in {at[p], "fetched", "ending"}
      /\ download'[p] # "none" => at'[p] = at[p]
      /\ \A q \in Procs \ {p} : at'[q] = at[q] /\ download'[q] = download[q]
  BY <1>i, <1>2 DEF InstallTypeOK, InstallPlaces, Steps
<1>6. InstallTypeOK'
  BY <1>i, <1>u, <1>4, <1>5 DEF InstallTypeOK
<1>7. Alone(p)
  BY <1>u, <1>4, <1>5 DEF Alone
\* Only the one whose partial it is can take the archive away.
<1>9. LinkedIsThere'
  <2>1. ASSUME NEW q \in Procs, download'[q] = "linked" PROVE files'["archive"] # NoFile
    <3>1. CASE I!Publish(p)
      <4>1. q # p /\ download[q] = "linked" /\ at[q] # "dead"
        BY <1>5, <1>i, <2>1, <3>1 DEF I!Publish, I!Fetched, I!Failed, I!Settle, InstallTypeOK, DownloadIsOfSession
      <4>2. I!Own(q, "partial") /\ I!Own(p, "partial")
        BY <1>i, <3>1, <4>1 DEF WriterOwnsPartial, Writing, I!Publish
      <4> QED
        BY <4>1, <4>2 DEF I!Own
    <3>2. CASE I!Link(p)
      <4>1. files["partial"] \in FileRecords
        BY <1>i, <1>p, <3>2 DEF I!Link, I!Own, I!Exists, InstallTypeOK
      <4>2. PICK both : both = [files["partial"] EXCEPT !.links = 2]
        OBVIOUS
      <4>3. both \in FileRecords
        BY <4>1, <4>2 DEF FileRecords
      <4>4. CASE files' = [files EXCEPT !["partial"] = both, !["archive"] = both]
        BY <1>i, <1>n, <1>p, <4>3, <4>4 DEF InstallTypeOK
      <4>5. CASE files["archive"] # NoFile /\ I!Discard({"partial"})
        <5>1. I!Exists("partial") /\ "archive" \notin {"partial"} /\ {"partial"} \subseteq I!Paths
          BY <1>p, <3>2 DEF I!Link, I!Own
        <5>2. files'["archive"] = files["archive"]
          BY <1>i, <1>p, <1>c, <4>5, <5>1, DiscardedIsNobodys
        <5> QED
          BY <4>5, <5>2
      <4> QED
        BY <3>2, <4>2, <4>4, <4>5 DEF I!Link, I!Exists
    <3>3. CASE I!MakePartial(p) \/ I!Fill(p)
      <4>1. files'["archive"] = files["archive"]
        <5>1. CASE I!Discard({"partial"}) /\ I!Own(p, "partial")
          <6>1. I!Exists("partial") /\ "archive" \notin {"partial"} /\ {"partial"} \subseteq I!Paths
            BY <1>p, <5>1 DEF I!Own
          <6> QED
            BY <1>i, <1>p, <1>c, <5>1, <6>1, DiscardedIsNobodys
        <5>2. CASE \/ UNCHANGED files
                   \/ \E f : files' = [files EXCEPT !["partial"] = f]
          BY <1>i, <1>p, <5>2 DEF InstallTypeOK
        <5> QED
          BY <3>3, <5>1, <5>2 DEF I!MakePartial, I!Fill
      <4>2. download[q] = "linked"
        BY <1>i, <1>5, <2>1, <3>3 DEF I!MakePartial, I!Fill, I!Failed, I!Settle, I!Continue, InstallTypeOK
      <4> QED
        BY <1>i, <4>1, <4>2 DEF LinkedIsThere, I!Exists
    <3> QED
      BY <3>1, <3>2, <3>3
  <2> QED
    BY <2>1 DEF LinkedIsThere, I!Exists
<1>8. \A path \in Executables : /\ I!Exists(path)' <=> I!Exists(path)
                                /\ I!Exact(path)' <=> I!Exact(path)
                                /\ I!Exists(path)' => files'[path].content = "good"
  BY <1>i, <1>4 DEF I!Exists, I!Exact, ExecutablesAreGood
<1> QED
  BY <1>1, <1>e, <1>t, <1>u, <1>4, <1>5, <1>6, <1>7, <1>8, <1>9, ProcessMoves

\* The steps of a process that publish the executables.
LEMMA ExecutableStep ==
  ASSUME InstallInv, NEW p \in Procs, NEW path \in Executables,
         I!LinkUv(p, path) \/ I!UnlinkUv(p, path)
  PROVE  InstallInv'
<1>i. /\ InstallTypeOK /\ TokenInv /\ DownloadIsOfSession /\ WriterOwnsPartial /\ LinkedIsThere
      /\ ExecutablesAreGood /\ PublishedIsThere
  BY DEF InstallInv, DownloadInv, PublishInv
<1>e. "uv" \in evidence[p] => \A other \in Executables : I!Exact(other)
  BY DEF InstallInv, PublishInv, I!EvidenceIsWhole, Executables
<1>n. \A r \in FileRecords : r # NoFile
  BY NothingIsNoValue DEF FileRecords
<1>u. UNCHANGED <<tokens, opened, ran, evidence, download>>
  BY DEF I!LinkUv, I!UnlinkUv, I!Stay
<1>t. TokenInv'
  BY <1>i, <1>u DEF TokenInv, TokensAreSound, RanWasAsked
<1>p. "partial" \in I!Paths /\ "archive" \in I!Paths /\ Executables \subseteq I!Paths
      /\ "partial" \notin Executables /\ "archive" \notin Executables
      /\ "uv" \in Executables /\ "uvx" \in Executables
  BY DEF I!Paths, Executables
\* The file of the executable, before and after.
<1>1. /\ files' \in [I!Paths -> {NoFile} \cup FileRecords]
      /\ \A other \in I!Paths \ {path} : files'[other] = files[other]
      /\ \/ files'[path] = files[path]
         \/ /\ files'[path] \in FileRecords /\ files'[path].content = "good"
            /\ files[path] = NoFile \/ files'[path].links = 1
  <2>1. CASE I!LinkUv(p, path)
    <3>1. PICK new : new = I!File(p, "good", 2)
      OBVIOUS
    <3>2. new \in FileRecords /\ new.content = "good"
      BY <3>1 DEF I!File, FileRecords, I!Contents
    <3>3. \/ UNCHANGED files
          \/ files[path] = NoFile /\ files' = [files EXCEPT ![path] = new]
      BY <2>1, <3>1 DEF I!LinkUv, I!Exists
    <3> QED
      BY <1>i, <1>p, <3>2, <3>3 DEF InstallTypeOK
  <2>2. CASE I!UnlinkUv(p, path)
    <3>1. files[path] \in FileRecords /\ files[path].content = "good"
      BY <1>i, <1>p, <2>2 DEF I!UnlinkUv, I!Own, I!Exists, InstallTypeOK, ExecutablesAreGood
    <3>2. PICK new : new = [files[path] EXCEPT !.links = 1]
      OBVIOUS
    <3>3. new \in FileRecords /\ new.content = "good" /\ new.links = 1
      BY <3>1, <3>2 DEF FileRecords
    <3>4. files' = [files EXCEPT ![path] = new]
      BY <2>2, <3>2 DEF I!UnlinkUv
    <3> QED
      BY <1>i, <1>p, <3>3, <3>4 DEF InstallTypeOK
  <2> QED
    BY <2>1, <2>2
\* Where the process goes, with what is there by then.
<1>2. /\ at[p] \in {"publish uv", "publish uvx", "linked uv", "linked uvx"}
      /\ \/ at' = [at EXCEPT ![p] = "ending"]
         \/ /\ path = "uv" /\ files'[path] # NoFile
            /\ at' = [at EXCEPT ![p] = "linked uv"] \/ at' = [at EXCEPT ![p] = "publish uvx"]
         \/ /\ path = "uvx" /\ files'[path] # NoFile /\ at[p] \in {"publish uvx", "linked uvx"}
            /\ at' = [at EXCEPT ![p] = "linked uvx"] \/ at' = [at EXCEPT ![p] = "verify uv"]
  <2>1. CASE I!LinkUv(p, path)
    <3>1. at[p] = I!Publishing[path]
          /\ \/ at' = [at EXCEPT ![p] = "ending"]
             \/ /\ at' = [at EXCEPT ![p] = I!Linked[path]]
                /\ files[path] = NoFile /\ files' = [files EXCEPT ![path] = I!File(p, "good", 2)]
      BY <2>1 DEF I!LinkUv, I!Fail, I!Go, I!Exists
    <3>2. I!File(p, "good", 2) # NoFile
      BY <1>n DEF I!File, FileRecords, I!Contents
    <3>3. files[path] = NoFile /\ files' = [files EXCEPT ![path] = I!File(p, "good", 2)]
          => files'[path] # NoFile
      BY <1>i, <1>p, <3>2 DEF InstallTypeOK
    <3>4. CASE path = "uv"
      <4>1. I!Publishing[path] = "publish uv" /\ I!Linked[path] = "linked uv"
        BY <3>4 DEF I!Publishing, I!Linked
      <4> QED
        BY <3>1, <3>3, <3>4, <4>1
    <3>5. CASE path = "uvx"
      <4>1. I!Publishing[path] = "publish uvx" /\ I!Linked[path] = "linked uvx"
        BY <3>5 DEF I!Publishing, I!Linked
      <4> QED
        BY <3>1, <3>3, <3>5, <4>1
    <3> QED
      BY <3>4, <3>5 DEF Executables
  <2>2. CASE I!UnlinkUv(p, path)
    <3>1. /\ at[p] = I!Linked[path]
          /\ at' = [at EXCEPT ![p] = IF path = "uv" THEN "publish uvx" ELSE "verify uv"]
          /\ files[path] \in FileRecords
      BY <1>i, <1>p, <2>2 DEF I!UnlinkUv, I!Go, I!Own, I!Exists, InstallTypeOK
    <3>2. files'[path] # NoFile
      BY <1>1, <1>n, <3>1
    <3>3. CASE path = "uv"
      <4>1. I!Linked[path] = "linked uv"
        BY <3>3 DEF I!Linked
      <4> QED
        BY <3>1, <3>2, <3>3, <4>1
    <3>4. CASE path = "uvx"
      <4>1. I!Linked[path] = "linked uvx"
        BY <3>4 DEF I!Linked
      <4> QED
        BY <3>1, <3>2, <3>4, <4>1
    <3> QED
      BY <3>3, <3>4 DEF Executables
  <2> QED
    BY <2>1, <2>2
<1>3. /\ at' \in [Procs -> InstallPlaces]
      /\ at'[p] \in {"ending", "linked uv", "publish uvx", "linked uvx", "verify uv"}
      /\ \A q \in Procs \ {p} : at'[q] = at[q]
  BY <1>i, <1>2 DEF InstallTypeOK, InstallPlaces
<1>4. InstallTypeOK'
  BY <1>i, <1>u, <1>1, <1>3 DEF InstallTypeOK
<1>5. files'["partial"] = files["partial"] /\ files'["archive"] = files["archive"]
  BY <1>p, <1>1
<1>6. Alone(p)
  BY <1>u, <1>3, <1>5 DEF Alone, I!Own, I!Exists
<1>7. LinkedIsThere'
  BY <1>i, <1>u, <1>5 DEF LinkedIsThere, I!Exists
<1>8. \A other \in Executables : /\ I!Exists(other) => I!Exists(other)'
                                 /\ I!Exact(other) => I!Exact(other)'
                                 /\ I!Exists(other)' => files'[other].content = "good"
  BY <1>i, <1>n, <1>p, <1>1 DEF I!Exists, I!Exact, ExecutablesAreGood
<1>9. download[p] = "none" /\ (download[p] \in Writing <=> I!Own(p, "partial"))
  BY <1>i, <1>2 DEF DownloadIsOfSession, WriterOwnsPartial
<1>10. /\ at'[p] \in {"linked uv", "publish uvx", "linked uvx", "verify uv"} => I!Exists("uv")'
       /\ at'[p] \in {"linked uvx", "verify uv"} => I!Exists("uvx")'
  <2>1. at[p] \in {"publish uvx", "linked uvx"} => I!Exists("uv")
    BY <1>i DEF PublishedIsThere
  <2>2. at'[p] \in {"linked uvx", "verify uv"} => path = "uvx" /\ files'[path] # NoFile /\ I!Exists("uv")
    BY <1>i, <1>2, <2>1 DEF InstallTypeOK
  <2>3. at'[p] \in {"linked uv", "publish uvx"} => path = "uv" /\ files'[path] # NoFile
    BY <1>i, <1>2 DEF InstallTypeOK
  <2> QED
    BY <1>p, <1>8, <2>2, <2>3 DEF I!Exists
<1>11. (download'[p] \in Writing <=> I!Own(p, "partial")')
  BY <1>u, <1>5, <1>9 DEF I!Own, I!Exists
<1>12. "uv" \in evidence'[p] => \A other \in Executables : I!Exact(other)'
  BY <1>e, <1>u, <1>8
<1> QED
  BY <1>2, <1>t, <1>u, <1>4, <1>6, <1>7, <1>8, <1>9, <1>10, <1>11, <1>12, ProcessMoves

\* Every step keeps the invariant.
LEMMA InstallStep == InstallInv /\ [I!Next]_(I!vars) => InstallInv'
<1> SUFFICES ASSUME InstallInv, [I!Next]_(I!vars) PROVE InstallInv'
  OBVIOUS
<1>1. ASSUME NEW t \in Tokens, I!Issue(t) \/ I!Expire(t) PROVE InstallInv'
  BY <1>1, TokensStep DEF I!Issue, I!Expire
<1>2. ASSUME NEW p \in Procs, NEW t \in Tokens, I!RunCommand(p, t) \/ I!Open(p, t) PROVE InstallInv'
  BY <1>2, TokensStep DEF I!RunCommand, I!Open
<1>3. CASE UNCHANGED I!vars
  <2>1. UNCHANGED <<tokens, opened, ran, files, at, download, evidence>>
    BY <1>3 DEF I!vars
  <2>2. InstallTypeOK' /\ TokenInv'
    BY <2>1 DEF InstallInv, InstallTypeOK, TokenInv, TokensAreSound, RanWasAsked
  <2>3. DownloadInv'
    BY <2>1 DEF InstallInv, DownloadInv, WriterOwnsPartial, DownloadIsOfSession, LinkedIsThere, I!Own, I!Exists
  <2>4. PublishInv'
    BY <2>1 DEF InstallInv, PublishInv, ExecutablesAreGood, PublishedIsThere, I!EvidenceIsWhole, I!Exact, I!Exists
  <2> QED
    BY <2>2, <2>3, <2>4 DEF InstallInv
<1> QED
  BY <1>1, <1>2, <1>3, QuietStep, DownloadStep, ExecutableStep DEF I!Next, Executables

\* What the invariant says for the run's properties.
LEMMA InstallSafe ==
  InstallInv => I!RunIsApproved /\ I!SessionsEndClean /\ I!EvidenceIsWhole /\ I!PartialIsKept
<1> SUFFICES ASSUME InstallInv PROVE I!RunIsApproved /\ I!SessionsEndClean /\ I!EvidenceIsWhole /\ I!PartialIsKept
  OBVIOUS
<1>1. I!RunIsApproved
  BY ForbiddenIsNotAsked DEF InstallInv, InstallTypeOK, TokenInv, RanWasAsked, I!RunIsApproved
<1>2. I!SessionsEndClean
  BY DEF InstallInv, DownloadInv, WriterOwnsPartial, DownloadIsOfSession, Writing, I!SessionsEndClean
<1>3. I!PartialIsKept
  <2>1. ASSUME NEW p \in Procs, download[p] \in Writing PROVE at[p] # "dead"
    BY <2>1 DEF InstallInv, DownloadInv, DownloadIsOfSession, Writing
  <2> QED
    BY <2>1 DEF InstallInv, DownloadInv, WriterOwnsPartial, Writing, I!PartialIsKept
<1> QED
  BY <1>1, <1>2, <1>3 DEF InstallInv, PublishInv

\* Only what was asked for and approved runs, a session leaves no download
\* behind, a live download keeps its partial, and what is taken for installed is
\* whole: approval-token.ts, install-session.ts, artifact-downloader.ts,
\* uv-installer.ts.
THEOREM InstallationIsSound ==
  I!Spec => [](I!RunIsApproved /\ I!SessionsEndClean /\ I!EvidenceIsWhole /\ I!PartialIsKept)
BY InstallInitially, InstallStep, InstallSafe, PTL DEF I!Spec

---------------------------------------------------------------------------
(* The database and its GUI *)

Children == [pid : Pids, start : 1..MaxDesigns]
Spawned == {"inspect", "recorded", "wait", "terminate"}
Places == {"start cluster", "look", "stop gui", "discard", "create", "reserve", "spawn",
           "terminating", "stop cluster"}
Purposes == {"open", "stop", "undo", "undo again"}

OperationOK == \/ operation = D!Idle
               \/ operation \in [at : Places, then : Purposes]
               \/ operation \in [at : Spawned, then : {"open"}, child : Children]
GuiOK == gui = D!NoGui \/ gui \in [state : {"starting", "running", "interrupted"}, child : Children]
DbTypeOK == /\ os \in [Pids -> 0..(MaxDesigns + 1)]
            /\ reserve \in BOOLEAN
            /\ record \in {D!NoRecord} \cup Children
            /\ GuiOK /\ OperationOK
            /\ session \in 0..MaxDesigns /\ databases \in 0..MaxDesigns
            /\ designs \subseteq 1..MaxDesigns
            /\ harmed = FALSE

\* The GUI process that lives, if there is one, is this one.
Only(child) == \A pid \in D!Guis : pid = child.pid /\ os[pid] = child.start

\* What lives is on the reservation's account, and on the record's.
ReservedInv ==
  /\ ~reserve => record = D!NoRecord /\ D!Guis = {}
  /\ record # D!NoRecord => Only(record)
  /\ \A g, h \in D!Guis : g = h
  /\ operation.at = "spawn" => reserve /\ record = D!NoRecord /\ D!Guis = {}
  /\ operation.at \in Spawned => /\ reserve /\ Only(operation.child)
                                 /\ record \in {D!NoRecord, operation.child}
  /\ operation.at = "terminating" => record # D!NoRecord

\* The launcher's GUI works on the session's database; a session is given up
\* only after its GUI.
SessionInv ==
  /\ session # 0 => session \in designs
  /\ gui # D!NoGui => session # 0 /\ gui.child.start = session
  /\ operation.at \in {"reserve", "spawn"} => session # 0
  /\ operation.at \in Spawned => session # 0 /\ operation.child.start = session
  /\ operation.at \in {"discard", "create", "reserve", "spawn", "inspect", "recorded", "terminate"}
     => gui = D!NoGui
  /\ gui.state = "starting" => operation.at = "wait"
  /\ operation.at = "wait" => gui.state = "starting"

DatabaseInv == DbTypeOK /\ ReservedInv /\ SessionInv

\* Nothing runs at the start.
LEMMA DatabaseInitially == D!Init => DatabaseInv
<1> SUFFICES ASSUME D!Init PROVE DatabaseInv
  OBVIOUS
<1>1. D!Guis = {}
  BY BoundsAreNumbers DEF D!Init, D!Guis, D!Designs, D!None
<1>2. operation.at = "idle" /\ gui = D!NoGui /\ gui.state = "stopped"
  BY DEF D!Init, D!Idle, D!NoGui
<1>3. DbTypeOK
  <2>1. 0 \in 0..(MaxDesigns + 1) /\ 0 \in 0..MaxDesigns
    BY BoundsAreNumbers
  <2>2. /\ os = [pid \in Pids |-> 0] /\ reserve = FALSE /\ record = D!NoRecord /\ operation = D!Idle
        /\ session = 0 /\ databases = 0 /\ designs = {} /\ harmed = FALSE
    BY DEF D!Init, D!None
  <2>3. os \in [Pids -> 0..(MaxDesigns + 1)]
    BY <2>1, <2>2
  <2> QED
    BY <1>2, <2>1, <2>2, <2>3 DEF DbTypeOK, GuiOK, OperationOK
<1>4. ReservedInv
  BY <1>1, <1>2 DEF D!Init, ReservedInv, Spawned
<1>5. SessionInv
  BY <1>2 DEF D!Init, SessionInv, Spawned, D!None
<1> QED
  BY <1>3, <1>4, <1>5 DEF DatabaseInv

\* The operation goes on to its next place.
LEMMA OperationGoes ==
  ASSUME OperationOK, NEW step, D!Go(step)
  PROVE  /\ operation.at \in Places /\ step \in Places
            => /\ operation' \in [at : Places, then : Purposes]
               /\ operation'.at = step /\ operation'.then = operation.then
         /\ operation.at \in Spawned /\ step \in Spawned
            => /\ operation' \in [at : Spawned, then : {"open"}, child : Children]
               /\ operation'.at = step /\ operation'.child = operation.child
<1>1. D!Idle.at \notin Places \cup Spawned
  BY DEF D!Idle, Places, Spawned
<1>2. PICK next : next = [operation EXCEPT !.at = step]
  OBVIOUS
<1>3. operation' = next
  BY <1>2 DEF D!Go
<1>4. ASSUME operation.at \in Places, step \in Places
      PROVE  /\ next \in [at : Places, then : Purposes]
             /\ next.at = step /\ next.then = operation.then
  <2>1. operation \in [at : Places, then : Purposes]
    BY <1>1, <1>4 DEF OperationOK, Places, Spawned
  <2> QED
    BY <1>2, <1>4, <2>1
<1>5. ASSUME operation.at \in Spawned, step \in Spawned
      PROVE  /\ next \in [at : Spawned, then : {"open"}, child : Children]
             /\ next.at = step /\ next.child = operation.child
  <2>1. operation \in [at : Spawned, then : {"open"}, child : Children]
    BY <1>1, <1>5 DEF OperationOK, Places, Spawned
  <2> QED
    BY <1>2, <1>5, <2>1
<1> QED
  BY <1>3, <1>4, <1>5

\* The operations that are made anew.
LEMMA NewOperations ==
  ASSUME NEW new
  PROVE  /\ new = [at |-> "start cluster", then |-> "open"]
            => new \in [at : Places, then : Purposes] /\ new.at = "start cluster"
         /\ new = [at |-> "stop gui", then |-> "stop"]
            => new \in [at : Places, then : Purposes] /\ new.at = "stop gui"
         /\ new = [at |-> "stop gui", then |-> "undo"]
            => new \in [at : Places, then : Purposes] /\ new.at = "stop gui"
         /\ new = [at |-> "stop gui", then |-> "undo again"]
            => new \in [at : Places, then : Purposes] /\ new.at = "stop gui"
         /\ new = [at |-> "discard", then |-> "undo"]
            => new \in [at : Places, then : Purposes] /\ new.at = "discard"
         /\ D!Idle.at = "idle" /\ "idle" \notin Places /\ "idle" \notin Spawned
         /\ D!NoGui.state = "stopped"
<1>1. "start cluster" \in Places /\ "stop gui" \in Places /\ "discard" \in Places
      /\ "open" \in Purposes /\ "stop" \in Purposes /\ "undo" \in Purposes /\ "undo again" \in Purposes
  BY DEF Places, Purposes
<1>2. D!Idle.at = "idle" /\ "idle" \notin Places /\ "idle" \notin Spawned /\ D!NoGui.state = "stopped"
  BY DEF D!Idle, D!NoGui, Places, Spawned
<1>3. ASSUME NEW step \in Places, NEW for \in Purposes, new = [at |-> step, then |-> for]
      PROVE  new \in [at : Places, then : Purposes] /\ new.at = step
  BY <1>3
<1> QED
  BY <1>1, <1>2, <1>3

\* Only the operation moves, to a place of which nothing is promised.
LEMMA OnlyOperationMoves ==
  ASSUME DatabaseInv, UNCHANGED <<os, reserve, record, gui, session, databases, designs, harmed>>,
         OperationOK',
         operation'.at \notin Spawned \cup {"reserve", "spawn", "terminating"},
         operation'.at \in {"discard", "create"} => gui = D!NoGui,
         gui.state # "starting"
  PROVE  DatabaseInv'
<1>1. DbTypeOK'
  BY DEF DatabaseInv, DbTypeOK, GuiOK
<1>2. D!Guis' = D!Guis
  BY DEF D!Guis
<1>3. record # D!NoRecord => Only(record)'
  BY <1>2 DEF DatabaseInv, ReservedInv, Only
<1>4. ReservedInv'
  BY <1>2, <1>3 DEF DatabaseInv, ReservedInv, Spawned
<1>5. SessionInv'
  BY DEF DatabaseInv, SessionInv, Spawned
<1> QED
  BY <1>1, <1>4, <1>5 DEF DatabaseInv

\* The steps in which only the operation and the cluster move.
LEMMA ClusterStep ==
  ASSUME DatabaseInv, D!BeginOpen \/ D!BeginStop \/ D!StartCluster \/ D!Look \/ D!StopCluster
  PROVE  DatabaseInv'
<1>i. DbTypeOK /\ SessionInv
  BY DEF DatabaseInv
<1>1. UNCHANGED <<os, reserve, record, gui, session, databases, designs, harmed>>
  BY DEF D!BeginOpen, D!BeginStop, D!StartCluster, D!Look, D!StopCluster, D!disk, D!port
<1>2. operation.at \in {"idle", "start cluster", "look", "stop cluster"}
  BY NewOperations DEF D!BeginOpen, D!BeginStop, D!StartCluster, D!Look, D!StopCluster
<1>3. gui.state # "starting"
  BY <1>i, <1>2 DEF SessionInv
<1>4. OperationOK' /\ operation'.at \in {"idle", "start cluster", "look", "stop gui", "discard"}
  <2>1. CASE D!BeginOpen \/ D!BeginStop
    <3>1. \/ operation' = [at |-> "start cluster", then |-> "open"]
          \/ operation' = [at |-> "stop gui", then |-> "stop"]
      BY <2>1 DEF D!BeginOpen, D!BeginStop
    <3> QED
      BY <3>1, NewOperations DEF OperationOK
  <2>2. CASE operation' = D!Idle
    BY <2>2, NewOperations DEF OperationOK
  <2>3. ASSUME NEW step \in {"look", "stop gui", "discard"}, D!Go(step), operation.at \in Places
        PROVE  OperationOK' /\ operation'.at = step
    BY <1>i, <2>3, OperationGoes DEF DbTypeOK, OperationOK, Places
  <2>4. CASE operation' # D!Idle /\ (D!StartCluster \/ D!Look)
    <3>1. operation.at \in Places
      BY <2>4 DEF D!StartCluster, D!Look, Places
    <3>2. D!Go("look") \/ D!Go("stop gui") \/ D!Go("discard")
      BY <2>4 DEF D!StartCluster, D!Look, D!Done
    <3> QED
      BY <2>3, <3>1, <3>2
  <2> QED
    BY <2>1, <2>2, <2>4 DEF D!StopCluster, D!Done
<1>5. operation'.at = "discard" => gui = D!NoGui
  <2>1. ASSUME D!Look, gui.state \notin {"running", "interrupted"} PROVE gui = D!NoGui
    BY <1>i, <1>3, <2>1 DEF DbTypeOK, GuiOK
  <2>2. CASE D!Look /\ gui.state \in {"running", "interrupted"}
    <3>1. operation' = D!Idle \/ D!Go("stop gui")
      BY <2>2 DEF D!Look, D!Done
    <3>2. operation.at \in Places /\ "stop gui" \in Places
      BY <2>2 DEF D!Look, Places
    <3>3. D!Go("stop gui") => operation'.at = "stop gui"
      BY <1>i, <3>2, OperationGoes DEF DbTypeOK
    <3> QED
      BY <3>1, <3>3, NewOperations
  <2>3. CASE D!BeginOpen \/ D!BeginStop \/ D!StopCluster
    <3>1. \/ operation' = [at |-> "start cluster", then |-> "open"]
          \/ operation' = [at |-> "stop gui", then |-> "stop"]
          \/ operation' = D!Idle
      BY <2>3 DEF D!BeginOpen, D!BeginStop, D!StopCluster, D!Done
    <3> QED
      BY <3>1, NewOperations
  <2>4. CASE D!StartCluster
    <3>1. operation' = D!Idle \/ D!Go("look")
      BY <2>4 DEF D!StartCluster, D!Done
    <3>2. operation.at \in Places /\ "look" \in Places
      BY <2>4 DEF D!StartCluster, Places
    <3>3. D!Go("look") => operation'.at = "look"
      BY <1>i, <3>2, OperationGoes DEF DbTypeOK
    <3> QED
      BY <3>1, <3>3, NewOperations
  <2> QED
    BY <2>1, <2>2, <2>3, <2>4
<1>6. operation'.at \notin Spawned \cup {"reserve", "spawn", "terminating", "create"}
  BY <1>4 DEF Spawned
<1> QED
  BY <1>1, <1>3, <1>4, <1>5, <1>6, OnlyOperationMoves

\* The design session's database, made before its GUI and dropped after it.
LEMMA SessionStep ==
  ASSUME DatabaseInv, D!CreateDesign \/ D!Discard
  PROVE  DatabaseInv'
<1>i. DbTypeOK /\ ReservedInv /\ SessionInv
  BY DEF DatabaseInv
<1>1. UNCHANGED <<os, reserve, record, gui, harmed>>
  BY DEF D!CreateDesign, D!Discard, D!disk, D!port
<1>2. operation.at \in {"create", "discard"} /\ gui = D!NoGui /\ operation.at \in Places
  BY <1>i DEF D!CreateDesign, D!Discard, SessionInv, Places
<1>3. gui.state # "starting"
  BY <1>2, NewOperations
<1>4. ASSUME NEW step \in {"create", "stop cluster", "reserve"}, D!Go(step)
      PROVE  OperationOK' /\ operation'.at = step
  BY <1>i, <1>2, <1>4, OperationGoes DEF DbTypeOK, OperationOK, Places
<1>5. operation' = D!Idle => OperationOK' /\ operation'.at = "idle"
  BY NewOperations DEF OperationOK
<1>6. CASE UNCHANGED <<session, designs, databases>> /\ (operation' = D!Idle \/ D!Go("create") \/ D!Go("stop cluster"))
  <2>1. OperationOK' /\ operation'.at \in {"idle", "create", "stop cluster"}
    BY <1>4, <1>5, <1>6
  <2>2. operation'.at \notin Spawned \cup {"reserve", "spawn", "terminating"}
    BY <2>1 DEF Spawned
  <2> QED
    BY <1>1, <1>2, <1>3, <1>6, <2>1, <2>2, OnlyOperationMoves
<1>7. D!Guis' = D!Guis /\ (record # D!NoRecord => Only(record)')
  BY <1>i, <1>1 DEF D!Guis, Only, ReservedInv
<1>8. ASSUME OperationOK', operation'.at \in {"idle", "create", "stop cluster", "reserve"},
             session' \in 0..MaxDesigns, databases' \in 0..MaxDesigns, designs' \subseteq 1..MaxDesigns,
             session' # 0 => session' \in designs', operation'.at = "reserve" => session' # 0
      PROVE  DatabaseInv'
  <2>1. DbTypeOK'
    BY <1>i, <1>1, <1>8 DEF DbTypeOK, GuiOK
  <2>2. ReservedInv'
    BY <1>i, <1>1, <1>7, <1>8 DEF ReservedInv, Spawned
  <2>3. SessionInv'
    BY <1>i, <1>1, <1>2, <1>3, <1>8 DEF SessionInv, Spawned
  <2> QED
    BY <2>1, <2>2, <2>3 DEF DatabaseInv
<1>9. CASE D!CreateDesign /\ databases' = databases + 1
  <2>1. /\ databases' \in 1..MaxDesigns /\ designs' = designs \cup {databases'}
        /\ \/ session' = databases' /\ D!Go("reserve")
           \/ operation' = D!Idle /\ UNCHANGED session
    BY <1>i, <1>9, BoundsAreNumbers DEF D!CreateDesign, D!Done, D!port, DbTypeOK
  <2>2. databases' \in 0..MaxDesigns /\ databases' # 0 /\ designs' \subseteq 1..MaxDesigns
    BY <1>i, <2>1, BoundsAreNumbers DEF DbTypeOK
  <2>3. CASE session' = databases' /\ D!Go("reserve")
    BY <1>4, <1>8, <2>1, <2>2, <2>3
  <2>4. CASE operation' = D!Idle /\ UNCHANGED session
    BY <1>i, <1>5, <1>8, <2>1, <2>2, <2>4 DEF DbTypeOK, SessionInv
  <2> QED
    BY <2>1, <2>3, <2>4
<1>10. CASE D!Discard /\ session' = 0 /\ designs' = designs \ {session} /\ UNCHANGED databases
  <2>1. operation' = D!Idle \/ D!Go("create") \/ D!Go("stop cluster")
    BY <1>2, <1>10 DEF D!Discard, D!After, D!Done, D!port
  <2>2. /\ session' \in 0..MaxDesigns /\ databases' \in 0..MaxDesigns
        /\ designs' \subseteq 1..MaxDesigns
    BY <1>i, <1>10, BoundsAreNumbers DEF DbTypeOK
  <2>3. OperationOK' /\ operation'.at \in {"idle", "create", "stop cluster"}
    BY <1>4, <1>5, <2>1
  <2> QED
    BY <1>8, <1>10, <2>2, <2>3
<1> QED
  BY <1>6, <1>9, <1>10 DEF D!CreateDesign, D!Discard, D!After, D!Done, D!port, D!None

\* The processes of the machine: what exits or is others' is no GUI of ours.
LEMMA MachineStep ==
  ASSUME DatabaseInv, NEW pid \in Pids, D!Exit(pid) \/ D!Take(pid)
  PROVE  DatabaseInv'
<1>i. DbTypeOK /\ ReservedInv /\ SessionInv
  BY DEF DatabaseInv
<1>1. UNCHANGED <<reserve, record, gui, operation, session, designs, databases, harmed>>
  BY DEF D!Exit, D!Take, D!disk, D!port
<1>2. \E other \in {0, MaxDesigns + 1} : os' = [os EXCEPT ![pid] = other]
  BY DEF D!Exit, D!Take, D!None, D!Foreign
<1>3. /\ os' \in [Pids -> 0..(MaxDesigns + 1)]
      /\ \A g \in D!Guis' : g \in D!Guis /\ os'[g] = os[g]
  BY <1>i, <1>2, BoundsAreNumbers DEF DbTypeOK, D!Guis, D!Designs
<1>4. DbTypeOK' /\ SessionInv'
  BY <1>i, <1>1, <1>3 DEF DbTypeOK, GuiOK, OperationOK, SessionInv
<1>5. /\ record # D!NoRecord => Only(record)'
      /\ operation.at \in Spawned => Only(operation.child)'
  BY <1>i, <1>1, <1>3 DEF ReservedInv, Only
<1>6. ReservedInv'
  BY <1>i, <1>1, <1>3, <1>5 DEF ReservedInv
<1> QED
  BY <1>4, <1>6 DEF DatabaseInv

\* Reserving, and a spawn that fails.
LEMMA ReserveStep ==
  ASSUME DatabaseInv, D!Reserve
  PROVE  DatabaseInv'
<1>i. DbTypeOK /\ ReservedInv /\ SessionInv
  BY DEF DatabaseInv
<1>1. UNCHANGED <<os, record, gui, session, designs, databases, harmed>>
  BY DEF D!Reserve, D!disk, D!port
<1>2. operation.at = "reserve" /\ gui = D!NoGui /\ gui.state # "starting"
  BY <1>i, NewOperations DEF D!Reserve, SessionInv
<1>3. CASE reserve /\ D!Undo /\ UNCHANGED reserve
  <2>1. OperationOK' /\ operation'.at = "discard"
    BY <1>3, NewOperations DEF D!Undo, OperationOK
  <2> QED
    BY <1>1, <1>2, <1>3, <2>1, OnlyOperationMoves DEF Spawned
<1>4. CASE ~reserve /\ reserve' = TRUE /\ D!Go("spawn")
  <2>1. OperationOK' /\ operation'.at = "spawn"
    BY <1>i, <1>2, <1>4, OperationGoes DEF DbTypeOK, OperationOK, Places
  <2>2. D!Guis' = D!Guis /\ D!Guis = {} /\ record = D!NoRecord
    BY <1>i, <1>1, <1>4 DEF ReservedInv, D!Guis
  <2>3. DbTypeOK'
    BY <1>i, <1>1, <1>4, <2>1 DEF DbTypeOK, GuiOK
  <2>4. ReservedInv'
    BY <1>1, <1>4, <2>1, <2>2 DEF ReservedInv, Spawned
  <2>5. SessionInv'
    BY <1>i, <1>1, <1>2, <2>1 DEF SessionInv, Spawned
  <2> QED
    BY <2>3, <2>4, <2>5 DEF DatabaseInv
<1> QED
  BY <1>3, <1>4 DEF D!Reserve, D!disk

\* The GUI's process is made, or not.
LEMMA SpawnStep ==
  ASSUME DatabaseInv, D!Spawn
  PROVE  DatabaseInv'
<1>i. DbTypeOK /\ ReservedInv /\ SessionInv
  BY DEF DatabaseInv
<1>1. UNCHANGED <<record, gui, session, designs, databases, harmed>>
  BY DEF D!Spawn, D!disk, D!port
<1>2. operation.at = "spawn" /\ gui = D!NoGui /\ gui.state # "starting"
      /\ reserve /\ record = D!NoRecord /\ D!Guis = {} /\ session # 0
  BY <1>i, NewOperations DEF D!Spawn, SessionInv, ReservedInv
<1>3. CASE reserve' = FALSE /\ D!Undo /\ UNCHANGED os
  <2>1. OperationOK' /\ operation'.at = "discard"
    BY <1>3, NewOperations DEF D!Undo, OperationOK
  <2>2. D!Guis' = {}
    BY <1>2, <1>3 DEF D!Guis
  <2>3. DbTypeOK'
    BY <1>i, <1>1, <1>3, <2>1 DEF DbTypeOK, GuiOK
  <2>4. ReservedInv'
    BY <1>1, <1>2, <1>3, <2>1, <2>2 DEF ReservedInv, Spawned
  <2>5. SessionInv'
    BY <1>i, <1>1, <1>2, <2>1 DEF SessionInv, Spawned
  <2> QED
    BY <2>3, <2>4, <2>5 DEF DatabaseInv
<1>4. ASSUME NEW pid \in Pids, ~D!Alive(pid), os' = [os EXCEPT ![pid] = session],
             operation' = [at |-> "inspect", then |-> "open", child |-> D!Child(pid, session)],
             UNCHANGED reserve
      PROVE  DatabaseInv'
  <2>1. session \in 1..MaxDesigns
    BY <1>i, <1>2, BoundsAreNumbers DEF DbTypeOK
  <2>2. PICK child : child = D!Child(pid, session)
    OBVIOUS
  <2>3. child \in Children /\ child.pid = pid /\ child.start = session
    BY <2>1, <2>2 DEF Children, D!Child
  <2>4. PICK new : new = [at |-> "inspect", then |-> "open", child |-> child]
    OBVIOUS
  <2>5. new \in [at : Spawned, then : {"open"}, child : Children] /\ new.at = "inspect" /\ new.child = child
    BY <2>3, <2>4 DEF Spawned
  <2>6. operation' = new
    BY <1>4, <2>2, <2>4
  <2>7. /\ os' \in [Pids -> 0..(MaxDesigns + 1)]
        /\ \A g \in D!Guis' : g = pid /\ os'[g] = session
    BY <1>i, <1>2, <1>4, <2>1, BoundsAreNumbers DEF DbTypeOK, D!Guis, D!Designs
  <2>8. DbTypeOK'
    BY <1>i, <1>1, <1>4, <2>5, <2>6, <2>7 DEF DbTypeOK, GuiOK, OperationOK
  <2>9. Only(operation.child)'
    BY <2>3, <2>5, <2>6, <2>7 DEF Only
  <2>10. ReservedInv'
    BY <1>1, <1>2, <1>4, <2>5, <2>6, <2>7, <2>9 DEF ReservedInv, Spawned
  <2>11. SessionInv'
    BY <1>i, <1>1, <1>2, <2>3, <2>5, <2>6 DEF SessionInv, Spawned
  <2> QED
    BY <2>8, <2>10, <2>11 DEF DatabaseInv
<1> QED
  BY <1>3, <1>4 DEF D!Spawn

\* The GUI's process is recorded and handed over, or it is given up.
LEMMA RecordStep ==
  ASSUME DatabaseInv, D!Record \/ D!HandOver
  PROVE  DatabaseInv'
<1>i. DbTypeOK /\ ReservedInv /\ SessionInv
  BY DEF DatabaseInv
<1>1. UNCHANGED <<os, reserve, session, designs, databases, harmed>>
  BY DEF D!Record, D!HandOver, D!disk, D!port
<1>2. operation.at \in {"inspect", "recorded"} /\ operation.at \in Spawned /\ operation.child \in Children
  <2>1. operation.at \in {"inspect", "recorded"}
    BY DEF D!Record, D!HandOver
  <2>2. operation # D!Idle /\ operation.at \notin Places
    BY <2>1, NewOperations DEF Places
  <2>3. operation \in [at : Spawned, then : {"open"}, child : Children]
    BY <1>i, <2>2 DEF DbTypeOK, OperationOK
  <2> QED
    BY <2>1, <2>3
<1>3. /\ gui = D!NoGui /\ gui.state = "stopped" /\ reserve /\ Only(operation.child)
      /\ session # 0 /\ operation.child.start = session /\ record \in {D!NoRecord, operation.child}
  BY <1>i, <1>2, NewOperations DEF SessionInv, ReservedInv
<1>4. D!Guis' = D!Guis
  BY <1>1 DEF D!Guis
<1>5. /\ record' \in {record, operation.child}
      /\ \/ UNCHANGED gui /\ (D!Go("recorded") \/ D!Go("terminate"))
         \/ gui' = [state |-> "starting", child |-> operation.child] /\ D!Go("wait")
  BY DEF D!Record, D!HandOver, D!disk
<1>6. ASSUME NEW step \in {"recorded", "terminate", "wait"}, D!Go(step)
      PROVE  /\ operation' \in [at : Spawned, then : {"open"}, child : Children]
             /\ operation'.at = step /\ operation'.child = operation.child /\ step \in Spawned
  BY <1>i, <1>2, <1>6, OperationGoes DEF DbTypeOK, Spawned
<1>7. /\ OperationOK' /\ operation'.at \in {"recorded", "terminate", "wait"}
      /\ operation'.child = operation.child
  BY <1>5, <1>6 DEF OperationOK
<1>8. /\ GuiOK'
      /\ gui' # D!NoGui => gui'.child = operation.child
      /\ operation'.at \in {"recorded", "terminate"} => gui' = D!NoGui
      /\ gui'.state = "starting" <=> operation'.at = "wait"
  <2>1. CASE UNCHANGED gui /\ (D!Go("recorded") \/ D!Go("terminate"))
    <3>1. operation'.at \in {"recorded", "terminate"}
      BY <1>6, <2>1
    <3>2. gui' = D!NoGui /\ gui'.state = "stopped"
      BY <1>3, <2>1
    <3> QED
      BY <3>1, <3>2 DEF GuiOK
  <2>2. CASE gui' = [state |-> "starting", child |-> operation.child] /\ D!Go("wait")
    <3>1. PICK new : new = [state |-> "starting", child |-> operation.child]
      OBVIOUS
    <3>2. new \in [state : {"starting", "running", "interrupted"}, child : Children]
          /\ new.child = operation.child /\ new.state = "starting"
      BY <1>2, <3>1
    <3>3. gui' = new /\ operation'.at = "wait"
      BY <1>6, <2>2, <3>1
    <3> QED
      BY <3>2, <3>3 DEF GuiOK
  <2> QED
    BY <1>5, <2>1, <2>2
<1>9. DbTypeOK'
  BY <1>i, <1>1, <1>2, <1>5, <1>7, <1>8 DEF DbTypeOK
<1>10. Only(operation.child)' /\ (record' # D!NoRecord => Only(record)')
  BY <1>1, <1>3, <1>4, <1>5, <1>7 DEF Only
<1>11. ReservedInv'
  BY <1>i, <1>1, <1>3, <1>4, <1>5, <1>7, <1>10 DEF ReservedInv
<1>12. SessionInv'
  BY <1>i, <1>1, <1>3, <1>7, <1>8 DEF SessionInv
<1> QED
  BY <1>9, <1>11, <1>12 DEF DatabaseInv

\* The GUI answers, or is to be stopped.
LEMMA WaitStep ==
  ASSUME DatabaseInv, D!WaitReady
  PROVE  DatabaseInv'
<1>i. DbTypeOK /\ ReservedInv /\ SessionInv
  BY DEF DatabaseInv
<1>1. UNCHANGED <<os, reserve, record, session, designs, databases, harmed>>
  BY DEF D!WaitReady, D!disk, D!port
<1>2. PICK state \in {"running", "interrupted"} :
        /\ gui' = [gui EXCEPT !.state = state]
        /\ \/ operation' = D!Idle \/ operation' = [at |-> "stop gui", then |-> "undo"]
           \/ operation' = [at |-> "stop gui", then |-> "undo again"]
  BY DEF D!WaitReady, D!Done
<1>3. OperationOK' /\ operation'.at \in {"idle", "stop gui"}
  BY <1>2, NewOperations DEF OperationOK
<1>4. PICK new : new = [gui EXCEPT !.state = state]
  OBVIOUS
<1>5. gui # D!NoGui
  BY <1>i, NewOperations DEF D!WaitReady, SessionInv
<1>6. /\ new \in [state : {"starting", "running", "interrupted"}, child : Children]
      /\ new.child = gui.child /\ new.state = state
  BY <1>i, <1>4, <1>5 DEF DbTypeOK, GuiOK
<1>7. gui' = new
  BY <1>2, <1>4
<1>8. DbTypeOK'
  BY <1>i, <1>1, <1>3, <1>6, <1>7 DEF DbTypeOK, GuiOK
<1>9. D!Guis' = D!Guis /\ (record # D!NoRecord => Only(record)')
  BY <1>i, <1>1 DEF D!Guis, ReservedInv, Only
<1>10. ReservedInv'
  BY <1>i, <1>1, <1>3, <1>9 DEF ReservedInv, Spawned
<1>11. SessionInv'
  BY <1>i, <1>1, <1>3, <1>5, <1>6, <1>7 DEF SessionInv, Spawned
<1> QED
  BY <1>8, <1>10, <1>11 DEF DatabaseInv

\* A child that was not handed over is made to end, or stays.
LEMMA TerminateStep ==
  ASSUME DatabaseInv, D!Terminate
  PROVE  DatabaseInv'
<1>i. DbTypeOK /\ ReservedInv /\ SessionInv
  BY DEF DatabaseInv
<1>1. UNCHANGED <<gui, session, designs, databases, harmed>>
  BY DEF D!Terminate, D!port
<1>2. operation.at = "terminate" /\ operation.at \in Spawned /\ operation.child \in Children
  <2>1. operation.at = "terminate" /\ operation # D!Idle /\ operation.at \notin Places
    BY NewOperations DEF D!Terminate, Places
  <2>2. operation \in [at : Spawned, then : {"open"}, child : Children]
    BY <1>i, <2>1 DEF DbTypeOK, OperationOK
  <2> QED
    BY <2>1, <2>2
<1>3. /\ gui = D!NoGui /\ gui.state = "stopped" /\ Only(operation.child)
      /\ record \in {D!NoRecord, operation.child}
  BY <1>i, <1>2, NewOperations DEF SessionInv, ReservedInv
<1>4. OperationOK' /\ operation'.at = "discard"
  BY NewOperations DEF D!Terminate, D!Undo, OperationOK
<1>5. PICK gone \in BOOLEAN :
        /\ ~D!Is(operation.child) => gone
        /\ os' = IF gone /\ D!Is(operation.child) THEN [os EXCEPT ![operation.child.pid] = 0] ELSE os
        /\ record' = IF gone /\ record = operation.child THEN D!NoRecord ELSE record
        /\ reserve' = ~gone
  BY DEF D!Terminate, D!None, D!Unreserved
<1>6. os' \in [Pids -> 0..(MaxDesigns + 1)]
  BY <1>i, <1>2, <1>5, BoundsAreNumbers DEF DbTypeOK, Children
<1>7. \A g \in D!Guis' : g \in D!Guis /\ os'[g] = os[g]
  BY <1>i, <1>2, <1>5, BoundsAreNumbers DEF DbTypeOK, Children, D!Guis, D!Designs
<1>8. ~reserve' => record' = D!NoRecord /\ D!Guis' = {}
  <2>1. SUFFICES ASSUME gone PROVE record' = D!NoRecord /\ D!Guis' = {}
    BY <1>5
  <2>2. CASE D!Is(operation.child)
    <3>1. os'[operation.child.pid] = 0
      BY <1>i, <1>2, <1>5, <2>1, <2>2 DEF DbTypeOK, Children
    <3>2. operation.child.pid \notin D!Guis'
      BY <3>1 DEF D!Guis, D!Designs
    <3> QED
      BY <1>3, <1>5, <1>7, <2>1, <3>2 DEF Only
  <2>3. CASE ~D!Is(operation.child)
    BY <1>3, <1>5, <1>7, <2>1, <2>3 DEF Only, D!Is
  <2> QED
    BY <2>2, <2>3
<1>9. DbTypeOK'
  <2>1. record' \in {D!NoRecord} \cup Children /\ reserve' \in BOOLEAN
    BY <1>i, <1>5 DEF DbTypeOK
  <2> QED
    BY <1>i, <1>1, <1>4, <1>6, <2>1 DEF DbTypeOK, GuiOK
<1>10. ReservedInv'
  <2>1. record' # D!NoRecord => Only(record)'
    BY <1>i, <1>5, <1>7 DEF ReservedInv, Only
  <2> QED
    BY <1>i, <1>4, <1>7, <1>8, <2>1 DEF ReservedInv, Spawned
<1>11. SessionInv'
  BY <1>i, <1>1, <1>2, <1>3, <1>4 DEF SessionInv, Spawned
<1> QED
  BY <1>9, <1>10, <1>11 DEF DatabaseInv

\* What follows a stop of the GUI.
LEMMA StopGoesOn ==
  ASSUME DatabaseInv, operation.at \in {"stop gui", "terminating"}
  PROVE  /\ operation \in [at : Places, then : Purposes]
         /\ D!StopFailed => OperationOK' /\ operation'.at \in {"idle", "stop gui"}
         /\ D!Stopped => OperationOK' /\ operation'.at = "discard" /\ gui' = D!NoGui
         /\ D!Go("terminating") => OperationOK' /\ operation'.at = "terminating"
<1>1. operation \in [at : Places, then : Purposes] /\ operation.at \in Places
  BY NewOperations DEF DatabaseInv, DbTypeOK, OperationOK, Spawned, Places
<1>2. D!StopFailed => OperationOK' /\ operation'.at \in {"idle", "stop gui"}
  <2>1. D!StopFailed => operation' = D!Idle \/ operation' = [at |-> "stop gui", then |-> "undo again"]
    BY DEF D!StopFailed, D!Done
  <2> QED
    BY <2>1, NewOperations DEF OperationOK
<1>3. D!Stopped => OperationOK' /\ operation'.at = "discard" /\ gui' = D!NoGui
  <2>1. PICK purpose : purpose = IF operation.then = "undo again" THEN "undo" ELSE operation.then
    OBVIOUS
  <2>2. purpose \in Purposes
    BY <1>1, <2>1 DEF Purposes
  <2>3. PICK new : new = [at |-> "discard", then |-> purpose]
    OBVIOUS
  <2>4. new \in [at : Places, then : Purposes] /\ new.at = "discard"
    BY <2>2, <2>3 DEF Places
  <2>5. D!Stopped => operation' = new /\ gui' = D!NoGui
    BY <2>1, <2>3 DEF D!Stopped
  <2> QED
    BY <2>4, <2>5 DEF OperationOK
<1>4. D!Go("terminating") => OperationOK' /\ operation'.at = "terminating"
  <2>1. "terminating" \in Places
    BY DEF Places
  <2> QED
    BY <1>1, <2>1, OperationGoes DEF DatabaseInv, DbTypeOK, OperationOK
<1> QED
  BY <1>1, <1>2, <1>3, <1>4

\* The step of a stop: the GUI and its record go together, or the record
\* stays and the GUI is known to be interrupted.
LEMMA StopMoves ==
  ASSUME DatabaseInv, operation.at \in {"stop gui", "terminating"},
         UNCHANGED <<session, designs, databases, harmed>>,
         OperationOK', operation'.at \in {"idle", "stop gui", "terminating", "discard"},
         operation'.at = "terminating" => record' # D!NoRecord,
         os' \in [Pids -> 0..(MaxDesigns + 1)],
         \A g \in D!Guis' : g \in D!Guis /\ os'[g] = os[g],
         \/ UNCHANGED <<reserve, record>>
         \/ reserve' = FALSE /\ record' = D!NoRecord /\ D!Guis' = {},
         \/ gui' = D!NoGui
         \/ gui # D!NoGui /\ gui' = [gui EXCEPT !.state = "interrupted"] /\ operation'.at # "discard"
         \/ UNCHANGED gui /\ operation'.at # "discard"
  PROVE  DatabaseInv'
<1>i. DbTypeOK /\ ReservedInv /\ SessionInv
  BY DEF DatabaseInv
<1>1. gui.state # "starting"
  BY <1>i DEF SessionInv
<1>2. /\ GuiOK' /\ gui'.state # "starting"
      /\ gui' # D!NoGui => gui # D!NoGui /\ gui'.child = gui.child /\ operation'.at # "discard"
  <2>1. CASE gui' = D!NoGui
    BY <2>1, NewOperations DEF GuiOK
  <2>2. CASE UNCHANGED gui /\ operation'.at # "discard"
    BY <1>i, <1>1, <2>2 DEF DbTypeOK, GuiOK
  <2>3. CASE gui # D!NoGui /\ gui' = [gui EXCEPT !.state = "interrupted"] /\ operation'.at # "discard"
    <3>1. PICK new : new = [gui EXCEPT !.state = "interrupted"]
      OBVIOUS
    <3>2. /\ new \in [state : {"starting", "running", "interrupted"}, child : Children]
          /\ new.child = gui.child /\ new.state = "interrupted"
      BY <1>i, <2>3, <3>1 DEF DbTypeOK, GuiOK
    <3>3. gui' = new
      BY <2>3, <3>1
    <3> QED
      BY <2>3, <3>2, <3>3 DEF GuiOK
  <2> QED
    BY <2>1, <2>2, <2>3
<1>3. DbTypeOK'
  BY <1>i, <1>2 DEF DbTypeOK
<1>4. record' # D!NoRecord => Only(record)'
  BY <1>i DEF ReservedInv, Only
<1>5. ReservedInv'
  <2>1. ~reserve' => record' = D!NoRecord /\ D!Guis' = {}
    BY <1>i DEF ReservedInv
  <2> QED
    BY <1>i, <1>4, <2>1 DEF ReservedInv, Spawned
<1>6. SessionInv'
  BY <1>i, <1>2 DEF SessionInv, Spawned
<1> QED
  BY <1>3, <1>5, <1>6 DEF DatabaseInv

\* The record's process, when it is a GUI's, is the one that lives.
LEMMA RecordedIsOnly ==
  ASSUME DatabaseInv, record # D!NoRecord
  PROVE  /\ record.pid \in Pids /\ record.start \in 1..MaxDesigns
         /\ \A pid \in D!Guis : pid = record.pid /\ os[pid] = record.start
         /\ ~D!Alive(record.pid) => D!Guis = {}
<1>1. record.pid \in Pids /\ record.start \in 1..MaxDesigns
  BY DEF DatabaseInv, DbTypeOK, Children
<1>2. \A pid \in D!Guis : pid = record.pid /\ os[pid] = record.start
  BY DEF DatabaseInv, ReservedInv, Only
<1>3. ~D!Alive(record.pid) => D!Guis = {}
  BY <1>1, <1>2 DEF D!Alive, D!None, D!Guis, D!Designs
<1> QED
  BY <1>1, <1>2, <1>3

LEMMA StopStep ==
  ASSUME DatabaseInv, D!StopGui
  PROVE  DatabaseInv'
<1>i. DbTypeOK
  BY DEF DatabaseInv
<1>1. /\ operation.at \in {"stop gui", "terminating"} /\ operation.at = "stop gui"
      /\ UNCHANGED <<session, designs, databases, harmed>>
  BY DEF D!StopGui, D!port
<1>2. OperationOK' /\ operation'.at \in {"idle", "stop gui", "terminating", "discard"}
  BY <1>1, StopGoesOn DEF D!StopGui
<1>3. CASE gui = D!NoGui
  <2>1. D!Stopped /\ UNCHANGED <<reserve, record, os>>
    BY <1>3 DEF D!StopGui, D!disk
  <2>2. operation'.at = "discard" /\ gui' = D!NoGui
    BY <1>1, <2>1, StopGoesOn
  <2>3. os' \in [Pids -> 0..(MaxDesigns + 1)] /\ D!Guis' = D!Guis
    BY <1>i, <2>1 DEF DbTypeOK, D!Guis
  <2> QED
    BY <1>1, <1>2, <2>1, <2>2, <2>3, StopMoves
<1>4. CASE gui # D!NoGui /\ record # D!NoRecord /\ ~D!Alive(record.pid)
  <2>1. D!Forget /\ D!Stopped /\ UNCHANGED os
    BY <1>4 DEF D!StopGui
  <2>2. operation'.at = "discard" /\ gui' = D!NoGui
    BY <1>1, <2>1, StopGoesOn
  <2>3. os' \in [Pids -> 0..(MaxDesigns + 1)] /\ D!Guis' = {}
    BY <1>i, <1>4, <2>1, RecordedIsOnly DEF DbTypeOK, D!Guis
  <2>4. reserve' = FALSE /\ record' = D!NoRecord
    BY <2>1 DEF D!Forget
  <2> QED
    BY <1>1, <1>2, <2>2, <2>3, <2>4, StopMoves
<1>5. CASE gui # D!NoGui /\ ~(record # D!NoRecord /\ ~D!Alive(record.pid))
  <2>1. /\ gui' = [gui EXCEPT !.state = "interrupted"] /\ UNCHANGED <<reserve, record>>
        /\ \/ D!StopFailed /\ UNCHANGED os
           \/ /\ record # D!NoRecord /\ D!Go("terminating")
              /\ os' \in {os, [os EXCEPT ![record.pid] = 0]}
    BY <1>5 DEF D!StopGui, D!disk, D!None
  <2>2. /\ operation'.at # "discard"
        /\ operation'.at = "terminating" => record' # D!NoRecord
    BY <1>1, <2>1, StopGoesOn
  <2>3. \/ os' = os
        \/ record.pid \in Pids /\ os' = [os EXCEPT ![record.pid] = 0]
    BY <2>1, RecordedIsOnly
  <2>4. /\ os' \in [Pids -> 0..(MaxDesigns + 1)]
        /\ \A g \in D!Guis' : g \in D!Guis /\ os'[g] = os[g]
    BY <1>i, <2>3, BoundsAreNumbers DEF DbTypeOK, D!Guis, D!Designs
  <2> QED
    BY <1>1, <1>2, <1>5, <2>1, <2>2, <2>4, StopMoves
<1> QED
  BY <1>3, <1>4, <1>5

LEMMA KillStep ==
  ASSUME DatabaseInv, D!Kill
  PROVE  DatabaseInv'
<1>i. DbTypeOK
  BY DEF DatabaseInv
<1>1. /\ operation.at \in {"stop gui", "terminating"}
      /\ record # D!NoRecord /\ UNCHANGED <<session, designs, databases>>
  BY DEF D!Kill, D!port, DatabaseInv, ReservedInv
<1>r. /\ record.pid \in Pids /\ record.start \in 1..MaxDesigns
      /\ \A pid \in D!Guis : pid = record.pid
      /\ ~D!Alive(record.pid) => D!Guis = {}
  BY <1>1, RecordedIsOnly
<1>2. UNCHANGED harmed
  <2>1. ASSUME D!StillOurs PROVE os[record.pid] # MaxDesigns + 1
    <3>1. os[record.pid] = record.start
      BY <2>1 DEF D!StillOurs, D!Is
    <3> QED
      BY <1>r, <3>1, BoundsAreNumbers
  <2> QED
    BY <1>i, <2>1 DEF D!Kill, D!Foreign, DbTypeOK
<1>3. OperationOK' /\ operation'.at \in {"idle", "stop gui", "discard"}
  BY <1>1, StopGoesOn DEF D!Kill
<1>4. CASE /\ D!Forget /\ D!Stopped
           /\ \/ ~D!Alive(record.pid) /\ UNCHANGED os
              \/ os' = [os EXCEPT ![record.pid] = 0]
  <2>1. operation'.at = "discard" /\ gui' = D!NoGui
    BY <1>1, <1>4, StopGoesOn
  <2>2. os' \in [Pids -> 0..(MaxDesigns + 1)]
    BY <1>i, <1>r, <1>4, BoundsAreNumbers DEF DbTypeOK
  <2>3. D!Guis' = {}
    <3>1. CASE ~D!Alive(record.pid) /\ UNCHANGED os
      BY <1>r, <3>1 DEF D!Guis
    <3>2. CASE os' = [os EXCEPT ![record.pid] = 0]
      BY <1>i, <1>r, <3>2, BoundsAreNumbers DEF DbTypeOK, D!Guis, D!Designs
    <3> QED
      BY <1>4, <3>1, <3>2
  <2>4. reserve' = FALSE /\ record' = D!NoRecord
    BY <1>4 DEF D!Forget
  <2> QED
    BY <1>1, <1>2, <1>3, <2>1, <2>2, <2>3, <2>4, StopMoves
<1>5. CASE D!StopFailed /\ UNCHANGED <<os, reserve, record, gui>>
  <2>1. operation'.at \in {"idle", "stop gui"}
    BY <1>1, <1>5, StopGoesOn
  <2>2. os' \in [Pids -> 0..(MaxDesigns + 1)] /\ D!Guis' = D!Guis
    BY <1>i, <1>5 DEF DbTypeOK, D!Guis
  <2> QED
    BY <1>1, <1>2, <1>3, <1>5, <2>1, <2>2, StopMoves
<1> QED
  BY <1>4, <1>5 DEF D!Kill, D!None, D!disk

\* The host ends: what it remembers goes, processes and files stay.
LEMMA CrashStep ==
  ASSUME DatabaseInv, D!Crash
  PROVE  DatabaseInv'
<1>i. DbTypeOK /\ ReservedInv /\ SessionInv
  BY DEF DatabaseInv
<1>1. /\ UNCHANGED <<os, reserve, record, designs, databases, harmed>>
      /\ gui' = D!NoGui /\ operation' = D!Idle /\ session' = 0
  BY DEF D!Crash, D!disk, D!None
<1>2. operation'.at = "idle" /\ gui'.state = "stopped"
  BY <1>1, NewOperations
<1>3. DbTypeOK'
  <2>1. 0 \in 0..MaxDesigns
    BY BoundsAreNumbers
  <2> QED
    BY <1>i, <1>1, <2>1 DEF DbTypeOK, GuiOK, OperationOK
<1>4. ReservedInv'
  <2>1. D!Guis' = D!Guis /\ (record # D!NoRecord => Only(record)')
    BY <1>i, <1>1 DEF D!Guis, ReservedInv, Only
  <2> QED
    BY <1>i, <1>1, <1>2, <2>1 DEF ReservedInv, Spawned
<1>5. SessionInv'
  BY <1>1, <1>2 DEF SessionInv, Spawned
<1> QED
  BY <1>3, <1>4, <1>5 DEF DatabaseInv

LEMMA DatabaseStep == DatabaseInv /\ [D!Next]_(D!vars) => DatabaseInv'
<1> SUFFICES ASSUME DatabaseInv, [D!Next]_(D!vars) PROVE DatabaseInv'
  OBVIOUS
<1>1. CASE UNCHANGED <<os, reserve, record, gui, operation, session, designs, databases, harmed>>
  BY <1>1 DEF DatabaseInv, DbTypeOK, ReservedInv, SessionInv, GuiOK, OperationOK, Only, D!Guis
<1>2. CASE D!PostmasterExits \/ UNCHANGED D!vars
  BY <1>1, <1>2 DEF D!PostmasterExits, D!vars, D!disk, D!port
<1> QED
  BY <1>2, ClusterStep, SessionStep, ReserveStep, SpawnStep, RecordStep, TerminateStep, WaitStep,
     StopStep, KillStep, CrashStep, MachineStep DEF D!Next

\* What the run checks of the database follows.
LEMMA DatabaseSafe ==
  DatabaseInv => D!KillsOnlyOwn /\ D!LiveIsReserved /\ D!KnownGuiKeepsDesign
<1> SUFFICES ASSUME DatabaseInv PROVE D!KillsOnlyOwn /\ D!LiveIsReserved /\ D!KnownGuiKeepsDesign
  OBVIOUS
<1>1. D!KillsOnlyOwn
  BY DEF DatabaseInv, DbTypeOK, D!KillsOnlyOwn
<1>2. D!KnownGuiKeepsDesign
  BY DEF DatabaseInv, SessionInv, D!KnownGuiKeepsDesign
<1>3. D!Guis # {} => reserve
  BY DEF DatabaseInv, ReservedInv
<1>4. D!Cardinality(D!Guis) <= 1
  <2>1. CASE D!Guis = {}
    <3>1. Cardinality({}) = 0
      BY FS_EmptySet
    <3> QED
      BY <2>1, <3>1 DEF D!Cardinality, Cardinality
  <2>2. CASE D!Guis # {}
    <3>1. PICK g \in D!Guis : D!Guis = {g}
      BY <2>2 DEF DatabaseInv, ReservedInv
    <3>2. Cardinality({g}) = 1
      BY FS_Singleton
    <3> QED
      BY <3>1, <3>2 DEF D!Cardinality, Cardinality
  <2> QED
    BY <2>1, <2>2
<1> QED
  BY <1>1, <1>2, <1>3, <1>4 DEF D!LiveIsReserved

\* Whatever fails or exits, and whenever the host ends: no signal goes to a
\* process of others, a GUI process that lives is reserved and the only one,
\* and the database of a GUI the launcher knows of is not dropped under it
\* (process-supervisor.ts, dbgate-launcher.ts, database-execution-port.ts).
THEOREM DatabaseIsSound ==
  D!Spec => [](D!KillsOnlyOwn /\ D!LiveIsReserved /\ D!KnownGuiKeepsDesign)
<1>1. DatabaseInv => D!KillsOnlyOwn /\ D!LiveIsReserved /\ D!KnownGuiKeepsDesign
  BY DatabaseSafe
<1> QED
  BY <1>1, DatabaseInitially, DatabaseStep, PTL DEF D!Spec

---------------------------------------------------------------------------
(* The migration *)

Known == {0} \cup Schemas
Sqls == Schemas \X Schemas
Revisions == Nat \ {0}
JobPlaces == {"source", "design", "generate", "try", "recheck", "present", "save"}
Underway == {"pending", "approved", "queued", "checked", "synchronized", "backed up", "ran",
             "clearing", "cleared"}
FileKinds == [rev : Revisions, sql : Sqls, session : 1..MaxSessions]
Jobs == [at : JobPlaces, kind : {"prepare", "restore"}, rev : Revisions, session : 1..MaxSessions,
         before : Known, designed : Known, sql : Known \X Known, ormBefore : Known]
Asked == [at : Underway, shown : Sqls, shownOrm : Known, sql : Sqls, rev : Revisions,
          session : 1..MaxSessions, restored : BOOLEAN, before : Known, designed : Known,
          ormBefore : Known, backup : Known]
Booting == [at |-> "boot"]

DatabasesOK == /\ source \in Schemas /\ drafts \in [1..MaxSessions -> Known] /\ orm \in Known
               /\ active \in 0..MaxSessions /\ stored \in 0..MaxSessions /\ drafted \in 0..MaxSessions
MigrationTypeOK == /\ DatabasesOK /\ revision \in Revisions
                   /\ file \in {M!NoRecord} \cup FileKinds
                   /\ job \in {M!Idle, Booting} \cup Jobs
                   /\ pending \in {0} \cup 1..MaxRequests
                   /\ req \in [1..MaxRequests -> {M!NoRequest, M!Over} \cup Asked]

\* Nothing is asked, and nothing held: the host has just started.
Quiet == pending = 0 /\ \A n \in 1..MaxRequests : req[n] \in {M!NoRequest, M!Over}

\* What a preparation has found out where it is; a restoration is of what is
\* on disk, and alone.
JobInv == /\ job = Booting => Quiet
          /\ job \in Jobs => /\ M!HasFresh
                             /\ job.at \in {"try", "recheck", "present", "save"} => job.sql \in Sqls
                             /\ job.at = "save" => M!PortEmpty /\ job.kind = "prepare"
                             /\ job.kind = "restore" => /\ Quiet
                                                        /\ file \in FileKinds /\ file.rev = job.rev

\* A request is of the SQL that was shown, and has a copy of the database
\* when it has said so.
RequestInv == \A n \in 1..MaxRequests : req[n] \in Asked
                => /\ req[n].sql = req[n].shown
                   /\ req[n].at = "backed up" => req[n].backup # 0

MigrationInv == /\ MigrationTypeOK /\ JobInv /\ RequestInv
                /\ M!AppliedIsApproved /\ M!BackupBeforeApply /\ M!PendingIsDurable

\* The kinds of record are not confused.
LEMMA MigrationKinds ==
  /\ M!NoRequest.at = "none" /\ M!Over.at = "over" /\ M!Idle.at = "idle" /\ Booting.at = "boot"
  /\ M!NoRecord.rev = 0
  /\ \A r \in Asked : r.at \in Underway
  /\ M!NoRequest \notin Asked /\ M!Over \notin Asked /\ M!NoRequest # M!Over
  /\ M!Idle \notin Jobs /\ Booting \notin Jobs /\ M!Idle # Booting
  /\ M!NoRecord \notin FileKinds
<1>1. /\ M!NoRequest.at = "none" /\ M!Over.at = "over" /\ M!Idle.at = "idle" /\ Booting.at = "boot"
      /\ M!NoRecord.rev = 0
  BY DEF M!NoRequest, M!Over, M!Idle, Booting, M!NoRecord, M!None
<1>2. \A r \in Asked : r.at \in Underway
  BY DEF Asked
<1>3. \A j \in Jobs : j.at \in JobPlaces
  BY DEF Jobs
<1>4. \A f \in FileKinds : f.rev # 0
  BY DEF FileKinds, Revisions
<1>5. "none" \notin Underway /\ "over" \notin Underway /\ "idle" \notin JobPlaces /\ "boot" \notin JobPlaces
  BY DEF Underway, JobPlaces
<1> QED
  BY <1>1, <1>2, <1>3, <1>4, <1>5

LEMMA MigrationInitially == M!Init => MigrationInv
<1> SUFFICES ASSUME M!Init PROVE MigrationInv
  OBVIOUS
<1>1. /\ source = 1 /\ drafts = [s \in 1..MaxSessions |-> 0] /\ active = 0 /\ stored = 0 /\ drafted = 0
      /\ orm = 1 /\ file = M!NoRecord /\ revision = 1 /\ job = M!Idle /\ pending = 0
      /\ req = [n \in 1..MaxRequests |-> M!NoRequest] /\ applied = {}
  BY DEF M!Init, M!None, M!Requests, M!DesignSessions
<1>2. MigrationTypeOK
  <2>1. 0 \in 0..MaxSessions /\ 1 \in Schemas /\ 1 \in Revisions
    BY BoundsAreNumbers, NothingIsNoValue DEF Revisions
  <2> QED
    BY <1>1, <2>1 DEF MigrationTypeOK, DatabasesOK, Known
<1>3. JobInv
  BY <1>1, MigrationKinds DEF JobInv
<1>4. RequestInv
  BY <1>1, MigrationKinds DEF RequestInv
<1>5. M!AppliedIsApproved /\ M!BackupBeforeApply /\ M!PendingIsDurable
  BY <1>1 DEF M!AppliedIsApproved, M!BackupBeforeApply, M!PendingIsDurable, M!None
<1> QED
  BY <1>2, <1>3, <1>4, <1>5 DEF MigrationInv

\* What a step leaves alone when it does not touch the requests, and the job
\* goes on, if it does, as it should.
LEMMA RequestsStay ==
  ASSUME MigrationInv, UNCHANGED <<file, pending, req, applied>>,
         DatabasesOK', revision' \in Revisions,
         \/ UNCHANGED job
         \/ job' = M!Idle
         \/ /\ job \in Jobs /\ job' \in Jobs /\ job'.kind = job.kind /\ job'.rev = job.rev
            /\ job'.at # "save"
            /\ job'.at \in {"try", "recheck", "present", "save"} => job'.sql \in Sqls
  PROVE  MigrationInv'
<1>1. MigrationTypeOK'
  BY DEF MigrationInv, MigrationTypeOK
<1>2. JobInv'
  <2>1. CASE UNCHANGED job
    BY <2>1 DEF MigrationInv, JobInv, Quiet, M!HasFresh, M!PortEmpty, M!InPort, M!Requests
  <2>2. CASE job' = M!Idle
    BY <2>2, MigrationKinds DEF JobInv
  <2>3. CASE /\ job \in Jobs /\ job' \in Jobs /\ job'.kind = job.kind /\ job'.rev = job.rev
             /\ job'.at # "save"
             /\ job'.at \in {"try", "recheck", "present", "save"} => job'.sql \in Sqls
    BY <2>3, MigrationKinds DEF MigrationInv, JobInv, Quiet, M!HasFresh, M!Requests
  <2> QED
    BY <2>1, <2>2, <2>3
<1>3. RequestInv'
  BY DEF MigrationInv, RequestInv
<1>4. (M!AppliedIsApproved /\ M!BackupBeforeApply /\ M!PendingIsDurable)'
  BY DEF MigrationInv, M!AppliedIsApproved, M!BackupBeforeApply, M!PendingIsDurable, M!InPort
<1> QED
  BY <1>1, <1>2, <1>3, <1>4 DEF MigrationInv

\* The steps of a preparation that read the databases.
LEMMA PreparationStep ==
  ASSUME MigrationInv, M!DumpSource \/ M!DumpDesign \/ M!Generate \/ M!Try \/ M!Recheck
  PROVE  MigrationInv'
<1>i. MigrationTypeOK /\ JobInv
  BY DEF MigrationInv
<1>1. UNCHANGED <<source, drafts, active, stored, drafted, orm, file, pending, req, applied>>
  BY DEF M!DumpSource, M!DumpDesign, M!Generate, M!Try, M!Recheck, M!databases
<1>2. job.at \in {"source", "design", "generate", "try", "recheck"} /\ job \in Jobs
  <2>1. job.at \in {"source", "design", "generate", "try", "recheck"}
    BY DEF M!DumpSource, M!DumpDesign, M!Generate, M!Try, M!Recheck
  <2> QED
    BY <1>i, <2>1, MigrationKinds DEF MigrationTypeOK
<1>3. DatabasesOK'
  BY <1>i, <1>1 DEF MigrationTypeOK, DatabasesOK
<1>4. revision' \in Revisions
  <2>1. revision' \in {revision, revision + 1}
    BY DEF M!DumpSource, M!DumpDesign, M!Generate, M!Try, M!Recheck, M!JobFails
  <2> QED
    BY <1>i, <2>1 DEF MigrationTypeOK, Revisions
<1>5. job.session \in 1..MaxSessions /\ M!Design \in Known /\ source \in Schemas /\ orm \in Known
  BY <1>i, <1>2 DEF MigrationTypeOK, DatabasesOK, Jobs, M!Design
<1>6. CASE job' = M!Idle
  BY <1>1, <1>3, <1>4, <1>6, RequestsStay
<1>7. CASE M!DumpSource
  <2>1. PICK next : next = [job EXCEPT !.at = "design", !.before = source]
    OBVIOUS
  <2>2. "design" \in JobPlaces /\ source \in Known
    BY <1>5 DEF JobPlaces, Known
  <2>3. next \in Jobs /\ next.kind = job.kind /\ next.rev = job.rev /\ next.at = "design"
    BY <1>2, <1>5, <2>1, <2>2 DEF Jobs
  <2>4. job' = next
    BY <1>7, <2>1 DEF M!DumpSource
  <2> QED
    BY <1>1, <1>2, <1>3, <1>4, <2>3, <2>4, RequestsStay
<1>8. CASE M!DumpDesign /\ job' # M!Idle
  <2>1. PICK next : next = [job EXCEPT !.at = "generate", !.designed = M!Design]
    OBVIOUS
  <2>2. "generate" \in JobPlaces
    BY DEF JobPlaces
  <2>3. next \in Jobs /\ next.kind = job.kind /\ next.rev = job.rev /\ next.at = "generate"
    BY <1>2, <1>5, <2>1, <2>2 DEF Jobs
  <2>4. job' = next
    BY <1>8, <2>1 DEF M!DumpDesign, M!JobFails
  <2> QED
    BY <1>1, <1>2, <1>3, <1>4, <2>3, <2>4, RequestsStay
<1>9. CASE M!Generate /\ job' # M!Idle
  <2>1. PICK sql : sql = <<source, M!Design>>
    OBVIOUS
  <2>2. M!Design # 0
    BY <1>9 DEF M!Generate, M!JobFails, M!None
  <2>3. sql \in Sqls /\ sql \in Known \X Known
    BY <1>5, <2>1, <2>2 DEF Known, Sqls
  <2>4. PICK next : next = [job EXCEPT !.at = "try", !.sql = sql]
    OBVIOUS
  <2>5. "try" \in JobPlaces
    BY DEF JobPlaces
  <2>6. next \in Jobs /\ next.kind = job.kind /\ next.rev = job.rev /\ next.at = "try" /\ next.sql = sql
    BY <1>2, <2>3, <2>4, <2>5 DEF Jobs
  <2>7. job' = next
    BY <1>9, <2>1, <2>4 DEF M!Generate, M!JobFails
  <2> QED
    BY <1>1, <1>2, <1>3, <1>4, <2>3, <2>6, <2>7, RequestsStay
<1>10. CASE M!Try /\ job' # M!Idle
  <2>1. PICK next : next = [job EXCEPT !.at = "recheck"]
    OBVIOUS
  <2>2. "recheck" \in JobPlaces
    BY DEF JobPlaces
  <2>3. next \in Jobs /\ next.kind = job.kind /\ next.rev = job.rev /\ next.at = "recheck"
        /\ next.sql = job.sql
    BY <1>2, <1>5, <2>1, <2>2 DEF Jobs
  <2>4. job' = next /\ job.at = "try"
    BY <1>10, <2>1 DEF M!Try, M!JobFails
  <2>5. job.sql \in Sqls
    BY <1>i, <1>2, <2>4 DEF JobInv
  <2> QED
    BY <1>1, <1>2, <1>3, <1>4, <2>3, <2>4, <2>5, RequestsStay
<1>11. CASE M!Recheck /\ job' # M!Idle
  <2>1. PICK next : next = [job EXCEPT !.at = "present", !.ormBefore = orm]
    OBVIOUS
  <2>2. "present" \in JobPlaces
    BY DEF JobPlaces
  <2>3. next \in Jobs /\ next.kind = job.kind /\ next.rev = job.rev /\ next.at = "present"
        /\ next.sql = job.sql
    BY <1>2, <1>5, <2>1, <2>2 DEF Jobs
  <2>4. job' = next /\ job.at = "recheck"
    BY <1>11, <2>1 DEF M!Recheck, M!JobFails
  <2>5. job.sql \in Sqls
    BY <1>i, <1>2, <2>4 DEF JobInv
  <2> QED
    BY <1>1, <1>2, <1>3, <1>4, <2>3, <2>4, <2>5, RequestsStay
<1> QED
  BY <1>6, <1>7, <1>8, <1>9, <1>10, <1>11

\* A preparation or restoration as it begins, and the request it ends with.
LEMMA NewJob ==
  ASSUME NEW kind \in {"prepare", "restore"}, NEW rev \in Revisions, NEW of \in 1..MaxSessions,
         NEW new, new = M!Job(kind, rev, of)
  PROVE  new \in Jobs /\ new.at = "source" /\ new.kind = kind /\ new.rev = rev
<1>1. "source" \in JobPlaces /\ 0 \in Known /\ <<0, 0>> \in Known \X Known
  BY DEF JobPlaces, Known
<1> QED
  BY <1>1 DEF M!Job, M!None, Jobs

LEMMA NewRequest ==
  ASSUME job \in Jobs, job.sql \in Sqls, NEW new, new = M!Request(job.sql)
  PROVE  /\ new \in Asked /\ new.at = "pending" /\ new.sql = job.sql /\ new.shown = job.sql
         /\ new.rev = job.rev
<1>1. "pending" \in Underway /\ 0 \in Known
  BY DEF Underway, Known
<1>2. /\ job.rev \in Revisions /\ job.session \in 1..MaxSessions /\ job.before \in Known
      /\ job.designed \in Known /\ job.ormBefore \in Known
  BY DEF Jobs
<1> QED
  BY <1>1, <1>2 DEF M!Request, M!None, Asked

\* A preparation begins, or a request made at another revision is given up.
LEMMA PrepareStep ==
  ASSUME MigrationInv, M!Prepare
  PROVE  MigrationInv'
<1>i. MigrationTypeOK /\ JobInv /\ RequestInv
  BY DEF MigrationInv
<1>1. /\ UNCHANGED <<source, drafts, active, stored, drafted, orm, file, revision, applied>>
      /\ M!HasFresh
  BY DEF M!Prepare, M!databases
<1>2. \/ req' = req /\ pending' \in {0, pending}
      \/ M!InPort(pending) /\ req' = [req EXCEPT ![pending] = M!Over] /\ pending' = 0
  BY DEF M!Prepare, M!None
<1>3. \A n \in 1..MaxRequests : \/ req'[n] = req[n]
                                \/ req[n].at = "pending" /\ req'[n] = M!Over
  <2>1. CASE req' = req
    BY <2>1
  <2>2. CASE M!InPort(pending) /\ req' = [req EXCEPT ![pending] = M!Over]
    BY <1>i, <2>2 DEF MigrationTypeOK, M!InPort
  <2> QED
    BY <1>2, <2>1, <2>2
<1>4. req' \in [1..MaxRequests -> {M!NoRequest, M!Over} \cup Asked]
  BY <1>i, <1>2 DEF MigrationTypeOK
<1>5. M!HasFresh'
  <2>1. PICK n \in 1..MaxRequests : req[n] = M!NoRequest
    BY <1>1 DEF M!HasFresh, M!Requests
  <2>2. req'[n] = M!NoRequest
    BY <1>3, <2>1, MigrationKinds
  <2> QED
    BY <2>2 DEF M!HasFresh, M!Requests
<1>6. \/ job' = M!Idle
      \/ /\ job' \in Jobs /\ job'.at = "source" /\ job'.kind = "prepare"
  <2>1. CASE active # 0 /\ job' = M!Job("prepare", revision, active)
    <3>1. PICK new : new = M!Job("prepare", revision, active)
      OBVIOUS
    <3>2. revision \in Revisions /\ active \in 1..MaxSessions
      BY <1>i, <2>1, BoundsAreNumbers DEF MigrationTypeOK, DatabasesOK
    <3>3. new \in Jobs /\ new.at = "source" /\ new.kind = "prepare"
      BY <3>1, <3>2, NewJob
    <3> QED
      BY <2>1, <3>1, <3>3
  <2> QED
    BY <2>1 DEF M!Prepare, M!None
<1>7. MigrationTypeOK'
  BY <1>i, <1>1, <1>2, <1>4, <1>6 DEF MigrationTypeOK, DatabasesOK
<1>8. JobInv'
  BY <1>5, <1>6, MigrationKinds DEF JobInv
<1>9. RequestInv'
  BY <1>i, <1>3, MigrationKinds DEF RequestInv
<1>10. (M!AppliedIsApproved /\ M!BackupBeforeApply)'
  BY <1>1 DEF MigrationInv, M!AppliedIsApproved, M!BackupBeforeApply
<1>11. M!PendingIsDurable'
  BY <1>1, <1>2 DEF MigrationInv, M!PendingIsDurable, M!InPort, M!None
<1> QED
  BY <1>7, <1>8, <1>9, <1>10, <1>11 DEF MigrationInv

\* The host starts: what is on disk is restored, or not.
LEMMA BootStep ==
  ASSUME MigrationInv, M!Boot
  PROVE  MigrationInv'
<1>i. MigrationTypeOK /\ JobInv /\ RequestInv
  BY DEF MigrationInv
<1>1. UNCHANGED <<source, drafts, active, stored, drafted, orm, pending, req, applied>>
  BY DEF M!Boot, M!databases
<1>2. job = Booting
  <2>1. job.at = "boot" /\ "boot" \notin JobPlaces
    BY DEF M!Boot, JobPlaces
  <2>2. job \notin Jobs
    BY <2>1 DEF Jobs
  <2> QED
    BY <1>i, <2>1, <2>2, MigrationKinds DEF MigrationTypeOK
<1>3. Quiet /\ pending = 0
  BY <1>i, <1>2 DEF JobInv, Quiet
<1>4. revision' \in Revisions /\ file' \in {file, M!NoRecord}
  <2>1. revision' \in {revision, revision + 1} /\ file' \in {file, M!NoRecord}
    BY DEF M!Boot, M!JobFails
  <2> QED
    BY <1>i, <2>1 DEF MigrationTypeOK, Revisions
<1>5. \/ job' = M!Idle
      \/ /\ job' \in Jobs /\ job'.at = "source" /\ job'.kind = "restore" /\ M!HasFresh
         /\ file' \in FileKinds /\ file'.rev = job'.rev
  <2>1. CASE /\ file # M!NoRecord /\ stored = file.session /\ M!HasFresh
             /\ job' = M!Job("restore", file.rev, stored) /\ UNCHANGED file
    <3>1. PICK new : new = M!Job("restore", file.rev, stored)
      OBVIOUS
    <3>2. file \in FileKinds /\ file.rev \in Revisions /\ stored \in 1..MaxSessions
      BY <1>i, <2>1 DEF MigrationTypeOK, FileKinds
    <3>3. new \in Jobs /\ new.at = "source" /\ new.kind = "restore" /\ new.rev = file.rev
      BY <3>1, <3>2, NewJob
    <3> QED
      BY <2>1, <3>1, <3>2, <3>3
  <2> QED
    BY <2>1 DEF M!Boot, M!JobFails
<1>6. MigrationTypeOK'
  BY <1>i, <1>1, <1>4, <1>5 DEF MigrationTypeOK, DatabasesOK
<1>7. JobInv'
  <2>1. Quiet' /\ (M!HasFresh => M!HasFresh')
    BY <1>1, <1>3 DEF Quiet, M!HasFresh, M!Requests
  <2> QED
    BY <1>5, <2>1, MigrationKinds DEF JobInv
<1>8. RequestInv' /\ (M!AppliedIsApproved /\ M!BackupBeforeApply)'
  BY <1>i, <1>1 DEF RequestInv, MigrationInv, M!AppliedIsApproved, M!BackupBeforeApply
<1>9. M!PendingIsDurable'
  BY <1>1, <1>3 DEF M!PendingIsDurable, M!None
<1> QED
  BY <1>6, <1>7, <1>8, <1>9 DEF MigrationInv

\* The request is held before it is on disk.
LEMMA HoldStep ==
  ASSUME MigrationInv, M!Hold
  PROVE  MigrationInv'
<1>i. MigrationTypeOK /\ JobInv
  BY DEF MigrationInv
<1>1. UNCHANGED <<source, drafts, active, stored, drafted, orm, file, revision, req, applied>>
  BY DEF M!Hold, M!databases
<1>2. DatabasesOK' /\ revision' \in Revisions
  BY <1>i, <1>1 DEF MigrationTypeOK, DatabasesOK
<1>3. CASE job' = M!Idle /\ UNCHANGED pending
  BY <1>1, <1>2, <1>3, RequestsStay
<1>4. CASE M!PortEmpty /\ pending' = M!Fresh /\ job' = [job EXCEPT !.at = "save"]
  <2>1. M!Fresh \in 1..MaxRequests /\ M!HasFresh /\ job.at = "present" /\ job.kind = "prepare"
    BY DEF M!Hold, M!HasFresh, M!Fresh, M!Requests
  <2>2. job \in Jobs
    BY <1>i, <2>1, MigrationKinds DEF MigrationTypeOK
  <2>3. PICK next : next = [job EXCEPT !.at = "save"]
    OBVIOUS
  <2>4. next \in Jobs /\ next.at = "save" /\ next.kind = "prepare" /\ next.sql = job.sql
    BY <2>1, <2>2, <2>3 DEF Jobs, JobPlaces
  <2>5. job' = next /\ job.sql \in Sqls
    BY <1>i, <1>4, <2>1, <2>2, <2>3 DEF JobInv
  <2>6. MigrationTypeOK'
    BY <1>i, <1>1, <1>2, <1>4, <2>1, <2>4, <2>5 DEF MigrationTypeOK
  <2>7. M!HasFresh' /\ M!PortEmpty'
    BY <1>1, <1>4, <2>1 DEF M!HasFresh, M!PortEmpty, M!InPort, M!Requests
  <2>8. JobInv'
    BY <2>4, <2>5, <2>7, MigrationKinds DEF JobInv
  <2>9. RequestInv' /\ (M!AppliedIsApproved /\ M!BackupBeforeApply)'
    BY <1>1 DEF MigrationInv, RequestInv, M!AppliedIsApproved, M!BackupBeforeApply
  <2>10. M!PendingIsDurable'
    BY <1>4, <2>1, <2>7 DEF M!PendingIsDurable, M!PortEmpty, M!Requests
  <2> QED
    BY <2>6, <2>8, <2>9, <2>10 DEF MigrationInv
<1> QED
  BY <1>3, <1>4 DEF M!Hold

\* The request is asked for: what the user is shown is what will run.
LEMMA AskMoves ==
  ASSUME MigrationInv, job \in Jobs, job.sql \in Sqls, M!HasFresh, M!PortEmpty,
         UNCHANGED <<source, drafts, active, stored, drafted, orm, revision, applied>>,
         M!Ask(job.sql), file' \in FileKinds, file'.sql = job.sql, file'.rev = job.rev,
         pending' \in {pending, M!Fresh}
  PROVE  MigrationInv'
<1>i. MigrationTypeOK /\ RequestInv
  BY DEF MigrationInv
<1>1. M!Fresh \in 1..MaxRequests /\ req[M!Fresh] = M!NoRequest
  BY DEF M!HasFresh, M!Fresh, M!Requests
<1>2. PICK fresh \in 1..MaxRequests : fresh = M!Fresh
  BY <1>1
<1>3. PICK new : new = M!Request(job.sql)
  OBVIOUS
<1>4. /\ new \in Asked /\ new.at = "pending" /\ new.sql = job.sql /\ new.shown = job.sql
      /\ new.rev = job.rev
  BY <1>3, NewRequest
<1>5. req' = [req EXCEPT ![fresh] = new] /\ job' = M!Idle
  BY <1>2, <1>3 DEF M!Ask
<1>6. req' \in [1..MaxRequests -> {M!NoRequest, M!Over} \cup Asked]
  BY <1>i, <1>4, <1>5 DEF MigrationTypeOK
<1>7. \A n \in 1..MaxRequests : req'[n] = IF n = fresh THEN new ELSE req[n]
  BY <1>i, <1>5 DEF MigrationTypeOK
<1>8. MigrationTypeOK'
  BY <1>i, <1>1, <1>5, <1>6 DEF MigrationTypeOK, DatabasesOK
<1>9. JobInv'
  BY <1>5, MigrationKinds DEF JobInv
<1>10. RequestInv'
  BY <1>i, <1>4, <1>7 DEF RequestInv
<1>11. (M!AppliedIsApproved /\ M!BackupBeforeApply)'
  BY DEF MigrationInv, M!AppliedIsApproved, M!BackupBeforeApply
<1>12. M!PendingIsDurable'
  <2>1. SUFFICES ASSUME pending' # 0, req'[pending'].at = "pending"
                 PROVE  /\ file' # M!NoRecord /\ file'.sql = req'[pending'].shown
                        /\ file'.rev = req'[pending'].rev
    BY DEF M!PendingIsDurable, M!InPort, M!None
  <2>2. pending' \in 1..MaxRequests
    BY <1>8, <2>1 DEF MigrationTypeOK
  <2>3. pending' = fresh
    BY <1>7, <2>1, <2>2 DEF M!PortEmpty, M!InPort, M!Requests
  <2>4. req'[pending'] = new
    BY <1>7, <2>3
  <2> QED
    BY <1>4, <2>4, MigrationKinds
<1> QED
  BY <1>8, <1>9, <1>10, <1>11, <1>12 DEF MigrationInv

LEMMA SaveStep ==
  ASSUME MigrationInv, M!Save
  PROVE  MigrationInv'
<1>i. MigrationTypeOK /\ JobInv /\ RequestInv
  BY DEF MigrationInv
<1>1. UNCHANGED <<source, drafts, active, stored, drafted, orm, revision, applied>>
  BY DEF M!Save, M!databases
<1>2. job.at = "save" /\ job \in Jobs
  BY <1>i, MigrationKinds DEF M!Save, MigrationTypeOK
<1>3. job.sql \in Sqls /\ M!HasFresh /\ M!PortEmpty
  BY <1>i, <1>2 DEF JobInv
<1>4. PICK new : new = [rev |-> job.rev, sql |-> job.sql, session |-> job.session]
  OBVIOUS
<1>5. new \in FileKinds /\ new.sql = job.sql /\ new.rev = job.rev
  BY <1>2, <1>3, <1>4 DEF Jobs, FileKinds
<1>6. CASE file' = new /\ M!Ask(job.sql) /\ UNCHANGED pending
  BY <1>1, <1>2, <1>3, <1>5, <1>6, AskMoves
<1>7. CASE file' \in {file, new} /\ pending' = 0 /\ job' = M!Idle /\ UNCHANGED req
  <2>1. MigrationTypeOK'
    BY <1>i, <1>1, <1>5, <1>7 DEF MigrationTypeOK, DatabasesOK
  <2>2. JobInv'
    BY <1>7, MigrationKinds DEF JobInv
  <2>3. RequestInv' /\ (M!AppliedIsApproved /\ M!BackupBeforeApply)'
    BY <1>i, <1>1, <1>7 DEF MigrationInv, RequestInv, M!AppliedIsApproved, M!BackupBeforeApply
  <2>4. M!PendingIsDurable'
    BY <1>7 DEF M!PendingIsDurable, M!None
  <2> QED
    BY <2>1, <2>2, <2>3, <2>4 DEF MigrationInv
<1> QED
  BY <1>4, <1>6, <1>7 DEF M!Save, M!None

LEMMA AskAgainStep ==
  ASSUME MigrationInv, M!AskAgain
  PROVE  MigrationInv'
<1>i. MigrationTypeOK /\ JobInv /\ RequestInv
  BY DEF MigrationInv
<1>1. UNCHANGED <<source, drafts, active, stored, drafted, orm, applied>>
  BY DEF M!AskAgain, M!databases
<1>2. job.at = "present" /\ job.kind = "restore" /\ job \in Jobs
  BY <1>i, MigrationKinds DEF M!AskAgain, MigrationTypeOK
<1>3. /\ job.sql \in Sqls /\ M!HasFresh /\ Quiet /\ pending = 0
      /\ file \in FileKinds /\ file.rev = job.rev
  BY <1>i, <1>2 DEF JobInv, Quiet
<1>4. M!PortEmpty
  BY <1>3, MigrationKinds DEF Quiet, M!PortEmpty, M!InPort, M!Requests
<1>5. CASE M!SamePreview(file) /\ pending' = M!Fresh /\ M!Ask(file.sql) /\ UNCHANGED <<file, revision>>
  <2>1. file.sql = job.sql
    BY <1>5 DEF M!SamePreview
  <2>2. M!Ask(job.sql)
    BY <1>5, <2>1
  <2> QED
    BY <1>1, <1>2, <1>3, <1>4, <1>5, <2>1, <2>2, AskMoves
<1>6. CASE file' = M!NoRecord /\ M!JobFails("restore") /\ UNCHANGED <<pending, req>>
  <2>1. job' = M!Idle /\ revision' \in Revisions
    BY <1>i, <1>6 DEF M!JobFails, MigrationTypeOK, Revisions
  <2>2. MigrationTypeOK'
    BY <1>i, <1>1, <1>6, <2>1 DEF MigrationTypeOK, DatabasesOK
  <2>3. JobInv'
    BY <2>1, MigrationKinds DEF JobInv
  <2>4. RequestInv' /\ (M!AppliedIsApproved /\ M!BackupBeforeApply)'
    BY <1>i, <1>1, <1>6 DEF MigrationInv, RequestInv, M!AppliedIsApproved, M!BackupBeforeApply
  <2>5. M!PendingIsDurable'
    BY <1>3, <1>6 DEF M!PendingIsDurable, M!None
  <2> QED
    BY <2>2, <2>3, <2>4, <2>5 DEF MigrationInv
<1> QED
  BY <1>5, <1>6 DEF M!AskAgain

\* A request moves on after the user's decision, or is over.
LEMMA RequestMoves ==
  ASSUME MigrationInv, NEW n \in 1..MaxRequests, req[n] \in Asked,
         NEW next, req' = [req EXCEPT ![n] = next],
         UNCHANGED <<drafts, active, stored, drafted, revision, job>>,
         source' \in Schemas, orm' \in Known, file' \in {file, M!NoRecord},
         \/ next = M!Over /\ pending' = 0
         \/ /\ next \in Asked /\ next.at # "pending" /\ next.sql = next.shown
            /\ next.at = "backed up" => next.backup # 0
            /\ next.at = "cleared" \/ (req[n].at # "cleared" /\ UNCHANGED file)
            /\ UNCHANGED pending,
         \A run \in applied' : run \in applied \/ (run.sql = run.shown /\ run.backup # 0)
  PROVE  MigrationInv'
<1>i. MigrationTypeOK /\ JobInv /\ RequestInv
  BY DEF MigrationInv
<1>1. req' \in [1..MaxRequests -> {M!NoRequest, M!Over} \cup Asked]
  BY <1>i DEF MigrationTypeOK
<1>2. \A m \in 1..MaxRequests : req'[m] = IF m = n THEN next ELSE req[m]
  BY <1>i DEF MigrationTypeOK
<1>3. MigrationTypeOK'
  BY <1>i, <1>1 DEF MigrationTypeOK, DatabasesOK
<1>4. ~Quiet
  BY MigrationKinds DEF Quiet
<1>5. M!HasFresh => M!HasFresh'
  <2>1. SUFFICES ASSUME NEW m \in 1..MaxRequests, req[m] = M!NoRequest PROVE M!HasFresh'
    BY DEF M!HasFresh, M!Requests
  <2>2. req'[m] = M!NoRequest
    BY <1>2, <2>1, MigrationKinds
  <2> QED
    BY <2>2 DEF M!HasFresh, M!Requests
<1>6. M!PortEmpty => M!PortEmpty'
  BY <1>2, MigrationKinds, ZenonT(30) DEF M!PortEmpty, M!InPort, M!Requests
<1>7. JobInv'
  BY <1>i, <1>4, <1>5, <1>6 DEF JobInv
<1>8. RequestInv'
  <2>1. ASSUME NEW m \in 1..MaxRequests, req'[m] \in Asked
        PROVE  /\ req'[m].sql = req'[m].shown
               /\ req'[m].at = "backed up" => req'[m].backup # 0
    <3>1. CASE m = n
      <4>1. req'[m] = next /\ next \in Asked
        BY <1>2, <2>1, <3>1
      <4> QED
        BY <4>1, MigrationKinds
    <3>2. CASE m # n
      BY <1>i, <1>2, <2>1, <3>2 DEF RequestInv
    <3> QED
      BY <3>1, <3>2
  <2> QED
    BY <2>1 DEF RequestInv
<1>9. (M!AppliedIsApproved /\ M!BackupBeforeApply)'
  BY DEF MigrationInv, M!AppliedIsApproved, M!BackupBeforeApply, M!None
<1>10. M!PendingIsDurable'
  <2>1. SUFFICES ASSUME pending' # 0, req'[pending'].at = "pending",
                        \A m \in 1..MaxRequests : req'[m].at # "cleared"
                 PROVE  /\ file' # M!NoRecord /\ file'.sql = req'[pending'].shown
                        /\ file'.rev = req'[pending'].rev
    BY DEF M!PendingIsDurable, M!InPort, M!None, M!Requests
  <2>0. next.at # "cleared" /\ pending' = pending
    BY <1>2, <2>1
  <2>2. /\ pending' = pending /\ file' = file /\ pending \in 1..MaxRequests
        /\ next.at # "pending" /\ req[n].at # "cleared"
    BY <1>i, <2>0, <2>1 DEF MigrationTypeOK
  <2>3. req'[pending] = req[pending]
    BY <1>2, <2>1, <2>2
  <2>4. \A m \in M!Requests : req[m].at # "cleared"
    BY <1>2, <2>1, <2>2 DEF M!Requests
  <2> QED
    BY <2>1, <2>2, <2>3, <2>4 DEF MigrationInv, M!PendingIsDurable, M!InPort, M!None
<1> QED
  BY <1>3, <1>7, <1>8, <1>9, <1>10 DEF MigrationInv

\* What the steps after the decision make of the request.
LEMMA RequestGoes ==
  ASSUME MigrationInv, NEW n \in 1..MaxRequests, req[n] \in Asked,
         UNCHANGED <<drafts, active, stored, drafted, revision, job, file>>,
         source' \in Schemas, orm' \in Known,
         \A run \in applied' : run \in applied \/ (run.sql = run.shown /\ run.backup # 0),
         \/ M!End(n)
         \/ \E step \in Underway \ {"pending", "backed up", "cleared"} :
              req[n].at # "cleared" /\ M!At(n, step) /\ UNCHANGED pending
  PROVE  MigrationInv'
<1>1. CASE M!End(n)
  <2>1. req' = [req EXCEPT ![n] = M!Over] /\ pending' = 0
    BY <1>1 DEF M!End, M!None
  <2> QED
    BY <2>1, RequestMoves
<1>2. ASSUME NEW step \in Underway \ {"pending", "backed up", "cleared"}, req[n].at # "cleared",
             M!At(n, step), UNCHANGED pending
      PROVE  MigrationInv'
  <2>1. PICK next : next = [req[n] EXCEPT !.at = step]
    OBVIOUS
  <2>2. /\ next \in Asked /\ next.at = step /\ next.sql = req[n].sql /\ next.shown = req[n].shown
        /\ req[n].sql = req[n].shown
    BY <1>2, <2>1 DEF Asked, MigrationInv, RequestInv
  <2>3. req' = [req EXCEPT ![n] = next]
    BY <1>2, <2>1 DEF M!At, MigrationInv, MigrationTypeOK
  <2> QED
    BY <1>2, <2>2, <2>3, RequestMoves
<1> QED
  BY <1>1, <1>2

\* From the decision to the SQL.
LEMMA DecisionStep ==
  ASSUME MigrationInv, NEW n \in M!Requests,
         \/ M!Decide(n) \/ M!CompareRevision(n) \/ M!CompareSchemas(n) \/ M!Synchronize(n)
         \/ M!BackUp(n) \/ M!RunSql(n) \/ M!VerifySource(n) \/ M!Clear(n) \/ M!Cleared(n)
  PROVE  MigrationInv'
<1>i. MigrationTypeOK /\ RequestInv /\ n \in 1..MaxRequests
  BY DEF MigrationInv, M!Requests
<1>1. UNCHANGED <<drafts, active, stored, drafted, revision, job>>
  BY DEF M!Decide, M!CompareRevision, M!CompareSchemas, M!Synchronize, M!BackUp, M!RunSql,
         M!VerifySource, M!Clear, M!Cleared, M!databases
<1>2. req[n] \in Asked /\ req[n].at \in Underway
  <2>1. req[n].at \in Underway
    BY DEF M!Decide, M!InPort, M!CompareRevision, M!CompareSchemas, M!Synchronize, M!BackUp,
           M!RunSql, M!VerifySource, M!Clear, M!Cleared, Underway
  <2>2. "none" \notin Underway /\ "over" \notin Underway
    BY DEF Underway
  <2> QED
    BY <1>i, <2>1, <2>2, MigrationKinds DEF MigrationTypeOK
<1>3. /\ req[n].sql \in Sqls /\ req[n].ormBefore \in Known /\ req[n].sql = req[n].shown
      /\ req[n].sql[2] \in Schemas /\ source \in Schemas /\ orm \in Known
      /\ source # 0 /\ source \in Known /\ req[n].sql[2] \in Known
  BY <1>i, <1>2, NothingIsNoValue
     DEF Asked, RequestInv, MigrationTypeOK, DatabasesOK, Sqls, Known
<1>4. "approved" \in Underway /\ "clearing" \in Underway /\ "queued" \in Underway
      /\ "checked" \in Underway /\ "synchronized" \in Underway /\ "ran" \in Underway
  BY DEF Underway
<1>5. CASE M!Decide(n) \/ M!CompareRevision(n) \/ M!CompareSchemas(n)
  <2>1. UNCHANGED <<source, orm, file, applied>> /\ req[n].at # "cleared"
    BY <1>5 DEF M!Decide, M!InPort, M!CompareRevision, M!CompareSchemas, M!databases
  <2>2. \/ M!End(n)
        \/ /\ M!At(n, "approved") \/ M!At(n, "clearing") \/ M!At(n, "queued") \/ M!At(n, "checked")
           /\ UNCHANGED pending
    BY <1>5 DEF M!Decide, M!CompareRevision, M!CompareSchemas
  <2> QED
    BY <1>i, <1>1, <1>2, <1>3, <1>4, <2>1, <2>2, RequestGoes
<1>6. CASE M!Synchronize(n) \/ M!VerifySource(n)
  <2>1. UNCHANGED <<source, file, applied>> /\ req[n].at # "cleared"
    BY <1>6 DEF M!Synchronize, M!VerifySource, M!databases
  <2>2. \/ M!End(n)
        \/ (M!At(n, "synchronized") \/ M!At(n, "clearing")) /\ UNCHANGED pending
    BY <1>6 DEF M!Synchronize, M!VerifySource, M!RollBack
  <2>3. orm' \in Known
    BY <1>3, <1>6 DEF M!Synchronize, M!VerifySource, M!RollBack
  <2> QED
    BY <1>i, <1>1, <1>2, <1>3, <1>4, <2>1, <2>2, <2>3, RequestGoes
<1>7. CASE M!BackUp(n)
  <2>1. UNCHANGED <<source, file, applied>> /\ req[n].at # "cleared"
    BY <1>7 DEF M!BackUp, M!databases
  <2>2. orm' \in Known
    BY <1>3, <1>7 DEF M!BackUp, M!RollBack
  <2>3. CASE M!End(n)
    BY <1>i, <1>1, <1>2, <1>3, <2>1, <2>2, <2>3, RequestGoes
  <2>4. CASE req' = [req EXCEPT ![n].at = "backed up", ![n].backup = source] /\ UNCHANGED pending
    <3>1. PICK next : next = [req[n] EXCEPT !.at = "backed up", !.backup = source]
      OBVIOUS
    <3>2. /\ next \in Asked /\ next.at = "backed up" /\ next.sql = req[n].sql
          /\ next.shown = req[n].shown /\ next.backup = source
      BY <1>2, <1>3, <3>1 DEF Asked, Underway
    <3>3. req' = [req EXCEPT ![n] = next]
      BY <1>i, <1>2, <2>4, <3>1 DEF MigrationTypeOK, Asked
    <3> QED
      BY <1>i, <1>1, <1>2, <1>3, <2>1, <2>2, <2>4, <3>2, <3>3, RequestMoves
  <2> QED
    BY <1>7, <2>3, <2>4 DEF M!BackUp, M!RollBack
<1>8. CASE M!RunSql(n)
  <2>1. /\ UNCHANGED file /\ req[n].at = "backed up"
        /\ \/ M!End(n)
           \/ M!At(n, "ran") /\ UNCHANGED pending
    BY <1>8 DEF M!RunSql, M!RollBack
  <2>2. orm' \in Known
    BY <1>3, <1>8 DEF M!RunSql, M!RollBack
  <2>3. source' \in Schemas
    <3>1. M!Outcomes(req[n].sql, source) \subseteq Schemas
      BY <1>3 DEF M!Outcomes
    <3> QED
      BY <1>3, <1>8, <3>1 DEF M!RunSql
  <2>4. \A run \in applied' : run \in applied \/ (run.sql = run.shown /\ run.backup # 0)
    <3>1. PICK run : run = [n |-> n, sql |-> req[n].sql, shown |-> req[n].shown, backup |-> req[n].backup]
      OBVIOUS
    <3>2. run.sql = run.shown /\ run.backup # 0
      BY <1>i, <1>2, <1>3, <2>1, <3>1 DEF RequestInv
    <3>3. applied' \in {applied, applied \cup {run}}
      BY <1>8, <3>1 DEF M!RunSql
    <3> QED
      BY <3>2, <3>3
  <2> QED
    BY <1>i, <1>1, <1>2, <1>4, <2>1, <2>2, <2>3, <2>4, RequestGoes
<1>9. CASE M!Clear(n)
  <2>1. PICK next : next = [req[n] EXCEPT !.at = "cleared", !.before = 0, !.designed = 0,
                                          !.ormBefore = 0, !.backup = 0]
    OBVIOUS
  <2>2. /\ UNCHANGED <<source, orm, applied, pending>> /\ file' \in {file, M!NoRecord}
        /\ req' = [req EXCEPT ![n] = next]
    BY <1>i, <1>9, <2>1 DEF M!Clear, M!None, M!databases, MigrationTypeOK
  <2>3. 0 \in Known /\ "cleared" \in Underway
    BY DEF Known, Underway
  <2>4. /\ next \in Asked /\ next.at = "cleared" /\ next.sql = next.shown
    BY <1>2, <1>3, <2>1, <2>3 DEF Asked
  <2> QED
    BY <1>i, <1>1, <1>2, <1>3, <2>2, <2>4, RequestMoves
<1>10. CASE M!Cleared(n)
  <2>1. UNCHANGED <<source, orm, file, applied>> /\ M!End(n)
    BY <1>10 DEF M!Cleared, M!databases
  <2> QED
    BY <1>i, <1>1, <1>2, <1>3, <2>1, RequestGoes
<1> QED
  BY <1>5, <1>6, <1>7, <1>8, <1>9, <1>10

\* Everybody else's steps.
LEMMA OthersStep ==
  ASSUME MigrationInv,
         M!OpenSession \/ M!StopDatabase \/ M!Redesign \/ M!Alter \/ M!Edit \/ M!Advance
  PROVE  MigrationInv'
<1>i. MigrationTypeOK /\ DatabasesOK
  BY DEF MigrationInv, MigrationTypeOK
<1>1. UNCHANGED <<file, job, pending, req, applied>>
  BY DEF M!OpenSession, M!StopDatabase, M!Redesign, M!Alter, M!Edit, M!Advance
<1>2. revision' \in Revisions
  <2>1. revision' \in {revision, revision + 1}
    BY DEF M!OpenSession, M!StopDatabase, M!Redesign, M!Alter, M!Edit, M!Advance
  <2> QED
    BY <1>i, <2>1 DEF MigrationTypeOK, Revisions
<1>3. DatabasesOK'
  <2>1. CASE M!OpenSession
    <3>1. drafted + 1 \in 0..MaxSessions
      BY <1>i, <2>1, BoundsAreNumbers DEF M!OpenSession, DatabasesOK
    <3>2. drafts' \in [1..MaxSessions -> Known]
      BY <1>i, <2>1 DEF M!OpenSession, M!DesignSessions, M!None, DatabasesOK, Known
    <3> QED
      BY <1>i, <2>1, <3>1, <3>2 DEF M!OpenSession, DatabasesOK
  <2>2. CASE M!StopDatabase
    <3>1. 0 \in 0..MaxSessions
      BY BoundsAreNumbers
    <3> QED
      BY <1>i, <2>2, <3>1 DEF M!StopDatabase, M!None, DatabasesOK, Known
  <2>3. CASE M!Redesign
    BY <1>i, <2>3 DEF M!Redesign, DatabasesOK, Known
  <2>4. CASE M!Alter \/ M!Edit \/ M!Advance
    BY <1>i, <2>4 DEF M!Alter, M!Edit, M!Advance, M!databases, DatabasesOK, Known
  <2> QED
    BY <2>1, <2>2, <2>3, <2>4
<1> QED
  BY <1>1, <1>2, <1>3, RequestsStay

\* The host ends.
LEMMA HostEnds ==
  ASSUME MigrationInv, M!Crash
  PROVE  MigrationInv'
<1>i. MigrationTypeOK
  BY DEF MigrationInv
<1>1. /\ UNCHANGED <<source, drafts, stored, drafted, orm, file, revision, applied>>
      /\ active' = 0 /\ pending' = 0 /\ job' = Booting
      /\ req' = [n \in 1..MaxRequests |-> IF req[n] = M!NoRequest THEN M!NoRequest ELSE M!Over]
  BY DEF M!Crash, M!None, M!Requests, Booting
<1>2. Quiet'
  BY <1>1 DEF Quiet
<1>3. MigrationTypeOK'
  <2>1. 0 \in 0..MaxSessions
    BY BoundsAreNumbers
  <2> QED
    BY <1>i, <1>1, <2>1 DEF MigrationTypeOK, DatabasesOK
<1>4. JobInv'
  BY <1>1, <1>2, MigrationKinds DEF JobInv
<1>5. RequestInv'
  BY <1>2, MigrationKinds DEF Quiet, RequestInv
<1>6. (M!AppliedIsApproved /\ M!BackupBeforeApply /\ M!PendingIsDurable)'
  BY <1>1 DEF MigrationInv, M!AppliedIsApproved, M!BackupBeforeApply, M!PendingIsDurable, M!None
<1> QED
  BY <1>3, <1>4, <1>5, <1>6 DEF MigrationInv

LEMMA MigrationStep == MigrationInv /\ [M!Next]_(M!vars) => MigrationInv'
<1> SUFFICES ASSUME MigrationInv, [M!Next]_(M!vars) PROVE MigrationInv'
  OBVIOUS
<1>1. CASE UNCHANGED M!vars
  <2>1. /\ UNCHANGED <<file, pending, req, applied, job, revision>>
        /\ UNCHANGED <<source, drafts, active, stored, drafted, orm>>
    BY <1>1 DEF M!vars, M!databases
  <2>2. DatabasesOK' /\ revision' \in Revisions
    BY <2>1 DEF MigrationInv, MigrationTypeOK, DatabasesOK
  <2> QED
    BY <2>1, <2>2, RequestsStay
<1> QED
  BY <1>1, PrepareStep, BootStep, PreparationStep, HoldStep, SaveStep, AskAgainStep, OthersStep,
     HostEnds, DecisionStep DEF M!Next

\* Whatever changes in the databases and the files, and whenever the host
\* ends: the SQL that runs is the SQL that was shown, there is a copy of the
\* source before it, and a request the review holds for the user is on disk
\* (database-migration-review.ts, native-database-migration.ts,
\* migration-review-store.ts).
THEOREM MigrationIsSound ==
  M!Spec => [](M!AppliedIsApproved /\ M!BackupBeforeApply /\ M!PendingIsDurable)
<1>1. MigrationInv => M!AppliedIsApproved /\ M!BackupBeforeApply /\ M!PendingIsDurable
  BY DEF MigrationInv
<1> QED
  BY <1>1, MigrationInitially, MigrationStep, PTL DEF M!Spec

---------------------------------------------------------------------------
(* The tasks *)

ItemRecords == [id : Tasks, session : Sessions, shelved : Nat, queued : BOOLEAN]
TaskPhases == {"DISCOVER", "AWAIT", "BUILD", "VERIFY", "DELIVER"}
Decisions == [task : Tasks, mode : {"shelve", "adopt"}, session : Sessions, shelved : Nat,
            same : BOOLEAN]
CreatePlaces == {"survey", "queue", "create host", "submit", "drain host", "drain submit", "drain write"}
DecidePlaces == {"resolve", "resolve host", "own", "dispose", "write", "drain"}
Ops == {Idle} \cup [at : CreatePlaces, session : Sessions, task : Tasks]
              \cup [at : DecidePlaces, session : Sessions, task : Tasks, choice : Decisions]
Callers == {Idle} \cup [at : {"read"}, task : Tasks]
                  \cup [at : {"host", "recheck", "inside"}, task : Tasks, open : BOOLEAN]

TaskTypeOK == /\ records \in Seq(ItemRecords) /\ phase \in [Tasks -> TaskPhases]
              /\ ticket \in [Sessions -> {NoTicket} \cup Decisions]
              /\ op \in Ops /\ call \in [Sessions -> Callers]
              /\ made \in Nat /\ resolved \in Nat

\* A task is in the registry once, and none is before it is created.
RegistryInv == /\ \A k, l \in DOMAIN records : records[k].id = records[l].id => k = l
               /\ \A i \in Items : i.id <= made

\* The tasks that are held, besides this one, were delivered at some time.
OthersDelivered(t) == \A i \in Items : Holds(i) /\ i.id # t => phase[i.id] \in {"DELIVER", "VERIFY"}

\* What a decision is of is still what was shown.
AsShown(choice) == \E i \in Items : /\ i.id = choice.task /\ ~i.queued
                                    /\ i.session = choice.session /\ i.shelved = choice.shelved
OpInv == /\ op.at \in {"survey", "queue", "create host"} => \A i \in Items : i.id # op.task
         /\ op.at \in {"survey", "queue", "create host"} => op.task <= made
         /\ op.at \in {"create host", "drain host", "drain submit", "drain write"} => OthersDelivered(op.task)
         /\ op.at \in DecidePlaces \ {"drain"} => op.choice.task = op.task /\ AsShown(op.choice)
TicketInv == \A s \in Sessions : ticket[s] # NoTicket
               => \E i \in Items : i.id = ticket[s].task /\ ~i.queued

\* A call that has passed the checks is its task's owner's, until its host is
\* closed; and before the task is given away the host has let the calls out.
Passed(c) == c.at = "inside" \/ (c.at = "recheck" /\ c.open)
OwnedBy(s, t) == \E i \in Items : i.id = t /\ i.session = s /\ Holds(i)
CallInv == /\ \A s \in Sessions : Passed(call[s]) => OwnedBy(s, call[s].task)
           /\ op.at \in {"dispose", "write"}
              => \A s \in Sessions : call[s].at \in {"host", "recheck", "inside"} /\ call[s].task = op.task
                                     => ~call[s].open
           /\ op.at = "write" => Inside(op.task) = {}

TaskInv == TaskTypeOK /\ RegistryInv /\ OpInv /\ TicketInv /\ CallInv

\* The kinds of operation and of call are not confused.
LEMMA TaskKinds ==
  ASSUME NEW o \in Ops, NEW c \in Callers
  PROVE  /\ o.at = "idle" <=> o = Idle
         /\ o.at \in CreatePlaces => o \in [at : CreatePlaces, session : Sessions, task : Tasks]
         /\ o.at \in DecidePlaces
            => o \in [at : DecidePlaces, session : Sessions, task : Tasks, choice : Decisions]
         /\ "choice" \in DOMAIN o <=> o.at \in DecidePlaces
         /\ o.at \in {"idle"} \cup CreatePlaces \cup DecidePlaces
         /\ c.at = "idle" <=> c = Idle
         /\ c.at \in {"idle", "read", "host", "recheck", "inside"}
         /\ c.at = "read" => c \in [at : {"read"}, task : Tasks]
         /\ c.at \in {"host", "recheck", "inside"}
            => c \in [at : {"host", "recheck", "inside"}, task : Tasks, open : BOOLEAN]
         /\ "open" \in DOMAIN c <=> c.at \in {"host", "recheck", "inside"}
<1>1. Idle.at = "idle" /\ DOMAIN Idle = {"at"}
  BY DEF Idle
<1>2. "idle" \notin CreatePlaces /\ "idle" \notin DecidePlaces /\ CreatePlaces \cap DecidePlaces = {}
  BY DEF CreatePlaces, DecidePlaces
<1>3. \A x \in [at : CreatePlaces, session : Sessions, task : Tasks] :
        x.at \in CreatePlaces /\ "choice" \notin DOMAIN x
  OBVIOUS
<1>4. \A x \in [at : DecidePlaces, session : Sessions, task : Tasks, choice : Decisions] :
        x.at \in DecidePlaces /\ "choice" \in DOMAIN x
  OBVIOUS
<1>5. \A x \in [at : {"read"}, task : Tasks] : x.at = "read" /\ "open" \notin DOMAIN x
  OBVIOUS
<1>6. \A x \in [at : {"host", "recheck", "inside"}, task : Tasks, open : BOOLEAN] :
        x.at \in {"host", "recheck", "inside"} /\ "open" \in DOMAIN x
  OBVIOUS
<1>7. /\ o.at = "idle" <=> o = Idle
      /\ o.at \in CreatePlaces => o \in [at : CreatePlaces, session : Sessions, task : Tasks]
      /\ o.at \in DecidePlaces
         => o \in [at : DecidePlaces, session : Sessions, task : Tasks, choice : Decisions]
      /\ "choice" \in DOMAIN o <=> o.at \in DecidePlaces
      /\ o.at \in {"idle"} \cup CreatePlaces \cup DecidePlaces
  BY <1>1, <1>2, <1>3, <1>4 DEF Ops
<1>8. /\ c.at = "idle" <=> c = Idle
      /\ c.at \in {"idle", "read", "host", "recheck", "inside"}
      /\ c.at = "read" => c \in [at : {"read"}, task : Tasks]
      /\ c.at \in {"host", "recheck", "inside"}
         => c \in [at : {"host", "recheck", "inside"}, task : Tasks, open : BOOLEAN]
      /\ "open" \in DOMAIN c <=> c.at \in {"host", "recheck", "inside"}
  BY <1>1, <1>5, <1>6 DEF Callers
<1> QED
  BY <1>7, <1>8

\* An operation goes on to its next place.
LEMMA OperationMoves ==
  ASSUME op \in Ops, NEW step, NEW next, next = [op EXCEPT !.at = step]
  PROVE  /\ op.at \in CreatePlaces /\ step \in CreatePlaces
            => next \in Ops /\ next.at = step /\ next.task = op.task /\ next.session = op.session
         /\ op.at \in DecidePlaces /\ step \in DecidePlaces
            => /\ next \in Ops /\ next.at = step /\ next.task = op.task
               /\ next.session = op.session /\ next.choice = op.choice
<1>0. Idle \in Callers
  BY DEF Callers
<1>1. ASSUME op.at \in CreatePlaces, step \in CreatePlaces
      PROVE  next \in Ops /\ next.at = step /\ next.task = op.task /\ next.session = op.session
  <2>1. op \in [at : CreatePlaces, session : Sessions, task : Tasks]
    BY <1>0, <1>1, TaskKinds
  <2>2. next \in [at : CreatePlaces, session : Sessions, task : Tasks]
        /\ next.at = step /\ next.task = op.task /\ next.session = op.session
    BY <1>1, <2>1
  <2> QED
    BY <2>2 DEF Ops
<1>2. ASSUME op.at \in DecidePlaces, step \in DecidePlaces
      PROVE  /\ next \in Ops /\ next.at = step /\ next.task = op.task
             /\ next.session = op.session /\ next.choice = op.choice
  <2>1. op \in [at : DecidePlaces, session : Sessions, task : Tasks, choice : Decisions]
    BY <1>0, <1>2, TaskKinds
  <2>2. next \in [at : DecidePlaces, session : Sessions, task : Tasks, choice : Decisions]
        /\ next.at = step /\ next.task = op.task /\ next.session = op.session
        /\ next.choice = op.choice
    BY <1>2, <2>1
  <2> QED
    BY <2>2 DEF Ops
<1> QED
  BY <1>1, <1>2

\* The operation and the decisions are of what they were: at most, a
\* decision's revision is no longer the saved one.
OpKept == /\ op' \in Ops /\ op'.at = op.at
          /\ op.at # "idle" => op'.task = op.task
          /\ op.at \in DecidePlaces => /\ op'.choice.task = op.choice.task
                                       /\ op'.choice.session = op.choice.session
                                       /\ op'.choice.shelved = op.choice.shelved
TicketsKept == /\ ticket' \in [Sessions -> {NoTicket} \cup Decisions]
               /\ \A s \in Sessions : ticket'[s] # NoTicket
                    => ticket[s] # NoTicket /\ ticket'[s].task = ticket[s].task
PhasesKept == /\ phase' \in [Tasks -> TaskPhases]
              /\ \A t \in Tasks : phase[t] \in {"DELIVER", "VERIFY"} => phase'[t] \in {"DELIVER", "VERIFY"}

\* A decision marked as stale.
LEMMA MarkedStale ==
  ASSUME NEW d \in Decisions
  PROVE  /\ [d EXCEPT !.same = FALSE] \in Decisions
         /\ [d EXCEPT !.same = FALSE].task = d.task
         /\ [d EXCEPT !.same = FALSE].session = d.session
         /\ [d EXCEPT !.same = FALSE].shelved = d.shelved
         /\ d # NoTicket
<1>1. DOMAIN NoTicket = {"task"} /\ "mode" \in DOMAIN d
  BY DEF NoTicket, Decisions
<1> QED
  BY <1>1 DEF Decisions

LEMMA StaleKeeps ==
  ASSUME TaskTypeOK, NEW t \in Tasks, Stale(t)
  PROVE  OpKept /\ TicketsKept
<1>0. Idle \in Callers
  BY DEF Callers
<1>1. ASSUME "choice" \in DOMAIN op, op.choice.task = t PROVE OpKept
  <2>1. op \in [at : DecidePlaces, session : Sessions, task : Tasks, choice : Decisions]
    BY <1>0, <1>1, TaskKinds DEF TaskTypeOK
  <2>2. PICK d : d = [op.choice EXCEPT !.same = FALSE]
    OBVIOUS
  <2>3. /\ d \in Decisions /\ d.task = op.choice.task /\ d.session = op.choice.session
        /\ d.shelved = op.choice.shelved
    BY <2>1, <2>2, MarkedStale
  <2>4. PICK next : next = [op EXCEPT !.choice = d]
    OBVIOUS
  <2>5. /\ next \in [at : DecidePlaces, session : Sessions, task : Tasks, choice : Decisions]
        /\ next.at = op.at /\ next.task = op.task /\ next.choice = d
    BY <2>1, <2>3, <2>4
  <2>6. op' = next
    BY <1>1, <2>2, <2>4 DEF Stale
  <2> QED
    BY <2>3, <2>5, <2>6 DEF OpKept, Ops
<1>2. ASSUME ~("choice" \in DOMAIN op /\ op.choice.task = t) PROVE OpKept
  BY <1>2 DEF Stale, OpKept, TaskTypeOK
<1>3. TicketsKept
  <2>1. ASSUME NEW s \in Sessions
        PROVE  /\ ticket'[s] \in {NoTicket} \cup Decisions
               /\ ticket'[s] # NoTicket => ticket[s] # NoTicket /\ ticket'[s].task = ticket[s].task
    <3>1. ticket[s] \in {NoTicket} \cup Decisions
      BY DEF TaskTypeOK
    <3>2. ticket'[s] = IF ticket[s].task = t THEN [ticket[s] EXCEPT !.same = FALSE] ELSE ticket[s]
      BY DEF Stale
    <3>3. CASE ticket[s] = NoTicket
      <4>1. NoTicket.task = 0 /\ t # 0
        BY BoundsAreNumbers DEF NoTicket, None, Tasks
      <4> QED
        BY <3>2, <3>3, <4>1
    <3>4. CASE ticket[s] \in Decisions
      BY <3>2, <3>4, MarkedStale
    <3> QED
      BY <3>1, <3>3, <3>4
  <2>2. DOMAIN ticket' = Sessions
    BY DEF Stale
  <2>3. ticket' \in [Sessions -> {NoTicket} \cup Decisions]
    BY <2>1, <2>2 DEF Stale
  <2> QED
    BY <2>1, <2>3 DEF TicketsKept
<1> QED
  BY <1>1, <1>2, <1>3

\* A set of numbers that has a bound has a largest one.
LEMMA LargestExists ==
  ASSUME NEW S \in SUBSET Nat, S # {}, NEW b \in Nat, \A n \in S : n <= b
  PROVE  Max(S) \in S
<1> DEFINE above == {k \in 0..b : \A m \in S : m <= k}
           up == {0..k : k \in above}
<1>1. b \in above /\ \A k \in above : k \in Nat
  OBVIOUS
<1>2. PICK k \in above : \A y \in above : k <= y
  <2>1. IsFiniteSet(0..b) /\ 0..b \in up
    <3>1. IsFiniteSet(0..b)
      BY FS_Interval
    <3>2. 0..b \in up
      BY <1>1
    <3> QED
      BY <3>1, <3>2
  <2>2. up \subseteq FiniteSubsetsOf(0..b)
    BY <2>1, FS_Subset DEF FiniteSubsetsOf
  <2>3. IsWellFoundedOn(StrictSubsetOrdering(0..b), FiniteSubsetsOf(0..b))
    BY <2>1, FS_StrictSubsetOrderingWellFounded
  <2>4. PICK x \in up : \A y \in up : ~(<<y, x>> \in StrictSubsetOrdering(0..b))
    <3> HIDE DEF up
    <3> QED
      BY <2>1, <2>2, <2>3, WFMin
  <2>5. PICK k \in above : x = 0..k
    OBVIOUS
  <2>6. ASSUME NEW y \in above, y < k PROVE FALSE
    <3>1. 0..y \in up /\ 0..y \subseteq x /\ 0..y # x /\ 0..y \subseteq 0..b /\ x \subseteq 0..b
      BY <1>1, <2>5, <2>6
    <3>2. <<0..y, x>> \in StrictSubsetOrdering(0..b)
      BY <3>1 DEF StrictSubsetOrdering
    <3> QED
      BY <2>4, <3>1, <3>2
  <2>7. \A y \in above : y \in Nat /\ k \in Nat
    BY <1>1
  <2>8. \A y \in above : k <= y
    <3> HIDE DEF above
    <3> QED
      BY <2>6, <2>7
  <2> HIDE DEF above
  <2> QED
    BY <2>8
<1>3. k \in S
  <2>1. SUFFICES ASSUME k \notin S PROVE FALSE
    OBVIOUS
  <2>2. k \in Nat /\ \A m \in S : m \in Nat /\ m <= k /\ m # k
    BY <2>1
  <2>3. k > 0 /\ \A m \in S : m <= k - 1
    <3>1. PICK m \in S : TRUE
      OBVIOUS
    <3>2. m \in Nat /\ m <= k /\ m # k /\ k \in Nat
      BY <2>2
    <3>3. \A x \in S : x <= k - 1
      BY <2>2
    <3> QED
      BY <3>2, <3>3
  <2>4. k - 1 \in above
    BY <1>1, <2>3
  <2> QED
    BY <1>2, <2>2, <2>4
<1>4. \A m \in S : k >= m
  OBVIOUS
<1> QED
  BY <1>3, <1>4 DEF Max

\* The tasks of the registry, each found by its identity.
LEMMA ItemIs ==
  ASSUME TaskTypeOK, RegistryInv, NEW i \in Items
  PROVE  i \in ItemRecords /\ Item(i.id) = i
<1>1. PICK k \in DOMAIN records : i = records[k]
  BY DEF Items, ToSet
<1>2. i \in ItemRecords
  BY <1>1 DEF TaskTypeOK
<1>3. \A j \in Items : j.id = i.id => j = i
  BY <1>1 DEF Items, ToSet, RegistryInv
<1> QED
  BY <1>2, <1>3 DEF Item

\* A session's current task is its own, and is held.
LEMMA CurrentIsOwn ==
  ASSUME TaskTypeOK, NEW s \in Sessions, Current(s) # None
  PROVE  Current(s) \in Tasks /\ OwnedBy(s, Current(s))
<1> DEFINE own == {k \in DOMAIN records : records[k].session = s /\ Holds(records[k])}
<1>1. own # {} /\ Current(s) = records[Max(own)].id
  BY DEF Current
<1>2. Len(records) \in Nat /\ DOMAIN records = 1..Len(records)
  BY DEF TaskTypeOK
<1>3. own \in SUBSET Nat /\ \A n \in own : n <= Len(records)
  BY <1>2
<1>4. Max(own) \in own
  <2> HIDE DEF own
  <2> QED
    BY <1>1, <1>2, <1>3, LargestExists
<1>5. PICK k \in DOMAIN records : k = Max(own) /\ records[k].session = s /\ Holds(records[k])
  BY <1>4
<1> HIDE DEF own
<1>6. records[k] \in ItemRecords
  BY <1>2, <1>5 DEF TaskTypeOK
<1>7. records[k] \in Items
  BY <1>5 DEF Items, ToSet
<1>8. Current(s) = records[k].id
  BY <1>1, <1>5
<1> QED
  BY <1>5, <1>6, <1>7, <1>8 DEF OwnedBy, ItemRecords

\* A task is added at the end.
LEMMA Added ==
  ASSUME TaskTypeOK, RegistryInv, NEW new \in ItemRecords, \A i \in Items : i.id # new.id,
         records' = Append(records, new), new.id <= made'
  PROVE  /\ records' \in Seq(ItemRecords)
         /\ \A k, l \in DOMAIN records' : records'[k].id = records'[l].id => k = l
         /\ Items' = Items \cup {new}
<1>1. /\ records' \in Seq(ItemRecords) /\ Len(records) \in Nat
      /\ DOMAIN records = 1..Len(records) /\ DOMAIN records' = 1..(Len(records) + 1)
      /\ \A k \in 1..Len(records) : records'[k] = records[k]
      /\ records'[Len(records) + 1] = new
  BY AppendProperties DEF TaskTypeOK
<1>2. \A k \in 1..Len(records) : records[k].id # new.id
  BY <1>1 DEF Items, ToSet
<1>3. \A k, l \in DOMAIN records' : records'[k].id = records'[l].id => k = l
  BY <1>1, <1>2 DEF RegistryInv
<1>4. Items' = Items \cup {new}
  <2>1. Items' \subseteq Items \cup {new}
    BY <1>1 DEF Items, ToSet
  <2>2. new \in Items' /\ Items \subseteq Items'
    BY <1>1 DEF Items, ToSet
  <2> QED
    BY <2>1, <2>2
<1> QED
  BY <1>1, <1>3, <1>4

\* Every task is made what a function makes of it, with the identity it has.
LEMMA Changed ==
  ASSUME TaskTypeOK, RegistryInv, NEW f, \A i \in Items : f[i] \in ItemRecords /\ f[i].id = i.id,
         records' = [k \in DOMAIN records |-> f[records[k]]]
  PROVE  /\ records' \in Seq(ItemRecords)
         /\ \A k, l \in DOMAIN records' : records'[k].id = records'[l].id => k = l
         /\ Items' = {f[i] : i \in Items}
<1>1. /\ Len(records) \in Nat /\ DOMAIN records = 1..Len(records) /\ DOMAIN records' = DOMAIN records
      /\ \A k \in DOMAIN records : records[k] \in Items /\ records'[k] = f[records[k]]
  BY DEF TaskTypeOK, Items, ToSet
<1>2. records' \in [1..Len(records) -> ItemRecords]
  BY <1>1
<1>3. records' \in Seq(ItemRecords)
  BY <1>1, <1>2, SeqDef
<1>4. \A k, l \in DOMAIN records' : records'[k].id = records'[l].id => k = l
  BY <1>1 DEF RegistryInv
<1>5. Items' = {f[i] : i \in Items}
  BY <1>1, SMTT(20) DEF Items, ToSet
<1> QED
  BY <1>3, <1>4, <1>5

\* A task is changed and moved to the end.
LEMMA MovedToEnd ==
  ASSUME TaskTypeOK, RegistryInv, NEW old \in Items, NEW i \in ItemRecords, i.id = old.id,
         records' = Moved(i)
  PROVE  /\ records' \in Seq(ItemRecords)
         /\ \A k, l \in DOMAIN records' : records'[k].id = records'[l].id => k = l
         /\ Items' = (Items \ {old}) \cup {i}
<1> DEFINE n == Len(records)
<1>1. n \in Nat /\ DOMAIN records = 1..n /\ records \in [1..n -> ItemRecords]
  BY DEF TaskTypeOK
<1>2. PICK m \in 1..n : records[m] = old
  BY <1>1 DEF Items, ToSet
<1>3. (CHOOSE k \in DOMAIN records : records[k].id = i.id) = m
  BY <1>1, <1>2 DEF RegistryInv
<1>4. PICK front : front = SubSeq(records, 1, m - 1)
  OBVIOUS
<1>5. PICK back : back = SubSeq(records, m + 1, n)
  OBVIOUS
<1>6. /\ front \in Seq(ItemRecords) /\ Len(front) = m - 1
      /\ \A k \in 1..(m - 1) : front[k] = records[k]
  <2>1. m - 1 \in Int /\ 1 \in Int /\ \A k \in 1..(m - 1) : records[k] \in ItemRecords
    BY <1>1, <1>2
  <2> QED
    BY <1>1, <1>2, <1>4, <2>1, SubSeqProperties DEF TaskTypeOK
<1>n. n \in Nat
  BY <1>1
<1>7. /\ back \in Seq(ItemRecords) /\ Len(back) = n - m
      /\ \A k \in 1..(n - m) : back[k] = records[m + k]
  <2>1. m + 1 \in Int /\ n \in Int /\ \A k \in (m + 1)..n : records[k] \in ItemRecords
    BY <1>1, <1>2
  <2> HIDE DEF n
  <2>2. /\ back \in Seq(ItemRecords) /\ Len(back) = IF m + 1 <= n THEN n - (m + 1) + 1 ELSE 0
        /\ \A k \in 1..(n - (m + 1) + 1) : back[k] = records[m + 1 + k - 1]
    BY <1>5, <2>1, SubSeqProperties
  <2>3. n - (m + 1) + 1 = n - m /\ \A k \in 1..(n - m) : m + 1 + k - 1 = m + k
    BY <1>n, <1>2
  <2>4. Len(back) = n - m
    BY <1>n, <1>2, <2>2
  <2> QED
    BY <2>2, <2>3, <2>4
<1>8. PICK rest : rest = front \o back
  OBVIOUS
<1>9. /\ rest \in Seq(ItemRecords) /\ Len(rest) = n - 1
      /\ \A k \in 1..(n - 1) : rest[k] = IF k < m THEN records[k] ELSE records[k + 1]
  <2>1. rest \in Seq(ItemRecords) /\ Len(rest) = n - 1
    <3>1. rest \in Seq(ItemRecords) /\ Len(rest) = Len(front) + Len(back)
      BY <1>6, <1>7, <1>8, ConcatProperties
    <3> HIDE DEF n
    <3> QED
      BY <1>n, <1>2, <1>6, <1>7, <3>1
  <2>2. ASSUME NEW k \in 1..(n - 1) PROVE rest[k] = IF k < m THEN records[k] ELSE records[k + 1]
    <3>1. rest[k] = IF k <= m - 1 THEN front[k] ELSE back[k - (m - 1)]
      BY <1>1, <1>2, <1>6, <1>7, <1>8, ConcatProperties
    <3>2. CASE k < m
      BY <1>1, <1>2, <1>6, <3>1, <3>2
    <3>3. CASE ~(k < m)
      <4>1. k - (m - 1) \in 1..(n - m) /\ m + (k - (m - 1)) = k + 1 /\ ~(k <= m - 1)
        BY <1>1, <1>2, <3>3
      <4> QED
        BY <1>7, <3>1, <3>3, <4>1
    <3> QED
      BY <3>2, <3>3
  <2> QED
    BY <2>1, <2>2
<1>10. records' = Append(rest, i)
  BY <1>3, <1>4, <1>5, <1>8 DEF Moved, RemoveAt
<1>11. /\ records' \in Seq(ItemRecords) /\ DOMAIN records' = 1..n
       /\ \A k \in 1..(n - 1) : records'[k] = IF k < m THEN records[k] ELSE records[k + 1]
       /\ records'[n] = i
  <2>1. n - 1 \in Nat /\ n - 1 + 1 = n
    BY <1>1, <1>2
  <2> QED
    BY <1>9, <1>10, <2>1, AppendProperties
<1>12. \A k, l \in 1..n : records'[k].id = records'[l].id => k = l
  <2>1. \A k, l \in 1..n : records[k].id = records[l].id => k = l
    BY <1>1 DEF RegistryInv
  <2>2. ASSUME NEW k \in 1..(n - 1), NEW l \in 1..(n - 1), records'[k].id = records'[l].id PROVE k = l
    BY <1>1, <1>2, <1>11, <2>1, <2>2
  <2>3. ASSUME NEW k \in 1..(n - 1) PROVE records'[k].id # i.id
    BY <1>1, <1>2, <1>11, <2>1
  <2>4. \A k \in 1..n : k \in 1..(n - 1) \/ k = n
    <3> HIDE DEF n
    <3> QED
      BY <1>n
  <2> QED
    BY <1>11, <2>2, <2>3, <2>4
<1>13. Items' = (Items \ {old}) \cup {i}
  <2>1. i \in Items'
    BY <1>1, <1>2, <1>11 DEF Items, ToSet
  <2>2. ASSUME NEW j \in Items, j # old PROVE j \in Items'
    <3>1. PICK k \in 1..n : j = records[k] /\ k # m
      BY <1>1, <1>2, <2>2 DEF Items, ToSet
    <3>2. CASE k < m
      <4>1. k \in 1..(n - 1) /\ k \in 1..n
        BY <1>1, <1>2, <3>2
      <4> QED
        BY <1>11, <3>1, <3>2, <4>1 DEF Items, ToSet
    <3>3. CASE k > m
      <4>1. k - 1 \in 1..(n - 1) /\ k - 1 \in 1..n /\ ~(k - 1 < m) /\ k - 1 + 1 = k
        BY <1>1, <1>2, <3>3
      <4> QED
        BY <1>11, <3>1, <4>1 DEF Items, ToSet
    <3> QED
      BY <1>2, <3>1, <3>2, <3>3
  <2>3. ASSUME NEW j \in Items', j # i PROVE j \in Items \ {old}
    <3>1. PICK k \in 1..(n - 1) : j = records'[k]
      BY <1>1, <1>11, <2>3 DEF Items, ToSet
    <3>2. PICK l \in 1..n : j = records[l] /\ l # m
      BY <1>1, <1>2, <1>11, <3>1
    <3>3. j \in Items
      BY <1>1, <3>2 DEF Items, ToSet
    <3>4. j # old
      BY <1>1, <1>2, <3>2 DEF RegistryInv
    <3> QED
      BY <3>3, <3>4
  <2> QED
    BY <2>1, <2>2, <2>3
<1> QED
  BY <1>11, <1>12, <1>13

\* No task, and nothing under way.
LEMMA TasksInitially == Init => TaskInv
<1> SUFFICES ASSUME Init PROVE TaskInv
  OBVIOUS
<1>1. /\ records = << >> /\ phase = [t \in Tasks |-> "DISCOVER"] /\ op = Idle /\ op.at = "idle"
      /\ ticket = [s \in Sessions |-> NoTicket] /\ call = [s \in Sessions |-> Idle]
      /\ made = 0 /\ resolved = 0 /\ Idle.at = "idle"
  BY DEF Init, Idle
<1>2. TaskTypeOK
  BY <1>1 DEF TaskTypeOK, TaskPhases, Ops, Callers
<1>3. Items = {}
  BY <1>1 DEF Items, ToSet
<1>4. RegistryInv
  BY <1>1, <1>3 DEF RegistryInv
<1>5. OpInv
  BY <1>1 DEF OpInv, DecidePlaces
<1>6. TicketInv
  BY <1>1 DEF TicketInv
<1>7. CallInv
  BY <1>1 DEF CallInv, Passed
<1> QED
  BY <1>2, <1>4, <1>5, <1>6, <1>7 DEF TaskInv

\* The registry stays: what is to be shown of the operation and the calls.
LEMMA RegistryStays ==
  ASSUME TaskInv, UNCHANGED records, phase' \in [Tasks -> TaskPhases], TicketsKept, op' \in Ops,
         made' \in Nat, made <= made', resolved' \in Nat, OpInv',
         call' \in [Sessions -> Callers],
         \A s \in Sessions : Passed(call'[s]) => OwnedBy(s, call'[s].task),
         op'.at \in {"dispose", "write"}
            => \A s \in Sessions : call'[s].at \in {"host", "recheck", "inside"} /\ call'[s].task = op'.task
                                   => ~call'[s].open,
         op'.at = "write" => \A s \in Sessions : ~(call'[s].at = "inside" /\ call'[s].task = op'.task)
  PROVE  TaskInv'
<1>i. TaskTypeOK /\ RegistryInv /\ TicketInv
  BY DEF TaskInv
<1>1. Items' = Items
  BY DEF Items
<1>2. TaskTypeOK'
  BY <1>i DEF TaskTypeOK, TicketsKept
<1>3. RegistryInv'
  <2>1. ASSUME NEW i \in Items PROVE i.id <= made'
    <3>1. i.id \in Nat /\ i.id <= made
      BY <1>i, ItemIs, BoundsAreNumbers DEF RegistryInv, ItemRecords, Tasks
    <3> QED
      BY <1>i, <3>1 DEF TaskTypeOK
  <2> QED
    BY <1>i, <1>1, <2>1 DEF RegistryInv
<1>4. TicketInv'
  BY <1>i, <1>1 DEF TicketInv, TicketsKept
<1>5. CallInv'
  BY <1>1 DEF CallInv, OwnedBy, Passed, Inside
<1> QED
  BY <1>2, <1>3, <1>4, <1>5 DEF TaskInv

\* What is delivered stays so.
LEMMA DeliveredStay ==
  ASSUME TaskInv, UNCHANGED records, PhasesKept, NEW t, OthersDelivered(t)
  PROVE  \A i \in Items' : Holds(i) /\ i.id # t => phase'[i.id] \in {"DELIVER", "VERIFY"}
<1>1. Items' = Items /\ TaskTypeOK /\ RegistryInv
  BY DEF Items, TaskInv
<1>2. \A i \in Items : i.id \in Tasks
  BY <1>1, ItemIs DEF ItemRecords
<1> QED
  BY <1>1, <1>2 DEF OthersDelivered, PhasesKept

\* The operation stays where it is, or is over.
LEMMA OpGoesOn ==
  ASSUME TaskInv, UNCHANGED records, PhasesKept, made' \in Nat, made <= made',
         OpKept \/ op' = Idle
  PROVE  OpInv'
<1>i. TaskTypeOK /\ OpInv
  BY DEF TaskInv
<1>1. Items' = Items
  BY DEF Items
<1>2. CASE op' = Idle
  <2>1. op'.at = "idle"
    BY <1>2 DEF Idle
  <2> QED
    BY <2>1 DEF OpInv, DecidePlaces
<1>3. CASE OpKept
  <2>1. op'.at = op.at /\ (op.at # "idle" => op'.task = op.task)
    BY <1>3 DEF OpKept
  <2>2. PICK t : t = op.task
    OBVIOUS
  <2>3. ASSUME op.at \in {"create host", "drain host", "drain submit", "drain write"}
        PROVE  OthersDelivered(op.task)'
    <3>1. OthersDelivered(t) /\ op'.task = t
      BY <1>i, <2>1, <2>2, <2>3 DEF OpInv
    <3> QED
      BY <3>1, DeliveredStay DEF OthersDelivered
  <2>4. ASSUME op.at \in {"survey", "queue", "create host"}
        PROVE  op'.task <= made' /\ \A i \in Items' : i.id # op'.task
    <3>1. op'.task = t /\ t <= made /\ \A i \in Items : i.id # t
      BY <1>i, <2>1, <2>2, <2>4 DEF OpInv
    <3>2. t \in Nat
      <4>0. Idle \in Callers
        BY DEF Callers
      <4>1. op \in [at : CreatePlaces, session : Sessions, task : Tasks]
        BY <1>i, <2>4, <4>0, TaskKinds DEF TaskTypeOK, CreatePlaces
      <4> QED
        BY <2>2, <4>1, BoundsAreNumbers DEF Tasks
    <3> QED
      BY <1>i, <1>1, <3>1, <3>2 DEF TaskTypeOK
  <2>5. ASSUME op.at \in DecidePlaces \ {"drain"}
        PROVE  op'.choice.task = op'.task /\ AsShown(op.choice)'
    <3>1. op.choice.task = op.task /\ AsShown(op.choice) /\ op.at # "idle"
      BY <1>i, <2>5 DEF OpInv, DecidePlaces
    <3>2. /\ op'.choice.task = op.choice.task /\ op'.choice.session = op.choice.session
          /\ op'.choice.shelved = op.choice.shelved
      BY <1>3, <2>5 DEF OpKept
    <3> QED
      BY <1>1, <2>1, <3>1, <3>2 DEF AsShown
  <2> QED
    BY <2>1, <2>3, <2>4, <2>5 DEF OpInv
<1> QED
  BY <1>2, <1>3

\* The operation stays where it is, or is over; calls stay where they are,
\* come back, or have only been read.
LEMMA TasksGoOn ==
  ASSUME TaskInv, UNCHANGED records, PhasesKept, TicketsKept,
         made' \in Nat, made <= made', resolved' \in Nat, OpKept \/ op' = Idle,
         call' \in [Sessions -> Callers],
         \A s \in Sessions : call'[s] = call[s] \/ call'[s].at \in {"idle", "read"}
  PROVE  TaskInv'
<1>i. TaskTypeOK /\ CallInv
  BY DEF TaskInv
<1>1. OpInv'
  BY OpGoesOn
<1>2. op' \in Ops /\ (op'.at # "idle" => op'.at = op.at /\ op'.task = op.task)
  BY DEF OpKept, Idle, Ops
<1>3. \A s \in Sessions : Passed(call'[s]) => OwnedBy(s, call'[s].task)
  BY <1>i DEF CallInv, Passed
<1>4. op'.at \in {"dispose", "write"}
         => \A s \in Sessions : call'[s].at \in {"host", "recheck", "inside"} /\ call'[s].task = op'.task
                                => ~call'[s].open
  BY <1>i, <1>2 DEF CallInv
<1>5. op'.at = "write" => \A s \in Sessions : ~(call'[s].at = "inside" /\ call'[s].task = op'.task)
  BY <1>i, <1>2 DEF CallInv, Inside
<1> QED
  BY <1>1, <1>2, <1>3, <1>4, <1>5, RegistryStays DEF PhasesKept

\* What stays the same is kept.
LEMMA Unmoved ==
  ASSUME TaskTypeOK
  PROVE  /\ UNCHANGED op => OpKept
         /\ UNCHANGED ticket => TicketsKept
         /\ UNCHANGED phase => PhasesKept
         /\ made \in Nat /\ made <= made /\ resolved \in Nat
         /\ call \in [Sessions -> Callers] /\ Idle \in Callers /\ Idle.at = "idle"
BY DEF TaskTypeOK, OpKept, TicketsKept, PhasesKept, Callers, Idle

\* The phases that follow each other.
LEMMA PhaseGoes ==
  ASSUME TaskTypeOK, NEW t \in Tasks,
         \/ UNCHANGED phase
         \/ phase[t] = "DELIVER" /\ phase' = [phase EXCEPT ![t] = "VERIFY"]
         \/ phase' = [phase EXCEPT ![t] = "DELIVER"]
         \/ phase[t] \in {"DISCOVER", "AWAIT"} /\ phase' = [phase EXCEPT ![t] = "AWAIT"]
         \/ phase[t] = "AWAIT" /\ phase' = [phase EXCEPT ![t] = "BUILD"]
  PROVE  PhasesKept
BY DEF TaskTypeOK, PhasesKept, TaskPhases

\* A session's call comes back.
LEMMA CallReturns ==
  ASSUME TaskTypeOK, NEW s \in Sessions, Quits(s)
  PROVE  /\ call' \in [Sessions -> Callers]
         /\ \A q \in Sessions : call'[q] = call[q] \/ call'[q].at \in {"idle", "read"}
BY Unmoved DEF Quits, TaskTypeOK

\* The hosts' steps, and what is done inside.
LEMMA HostsStep ==
  ASSUME TaskInv, NEW t \in Tasks, HostStarts(t) \/ HostFails(t) \/ Finish(t) \/ Answer(t)
  PROVE  TaskInv'
<1>i. TaskTypeOK
  BY DEF TaskInv
<1>1. UNCHANGED <<records, made, resolved>>
  BY DEF HostStarts, HostFails, Finish, Answer, saved, bounds
<1>2. CASE HostStarts(t)
  <2>1. UNCHANGED call /\ (UNCHANGED <<phase, ticket, op>> \/ Stale(t))
    BY <1>2 DEF HostStarts
  <2>2. PhasesKept
    BY <1>i, <1>2, PhaseGoes DEF HostStarts
  <2>3. OpKept /\ TicketsKept
    BY <1>i, <2>1, Unmoved, StaleKeeps
  <2> QED
    BY <1>i, <1>1, <2>1, <2>2, <2>3, Unmoved, TasksGoOn
<1>3. CASE HostFails(t)
  <2>1. /\ UNCHANGED <<phase, ticket>> /\ op' \in {Idle, op}
        /\ call' = [s \in Sessions |-> IF call[s].at = "host" /\ call[s].task = t THEN Idle ELSE call[s]]
    BY <1>3 DEF HostFails, saved
  <2>2. /\ call' \in [Sessions -> Callers]
        /\ \A s \in Sessions : call'[s] = call[s] \/ call'[s].at \in {"idle", "read"}
    BY <1>i, <2>1, Unmoved DEF TaskTypeOK
  <2>3. PhasesKept /\ TicketsKept /\ (OpKept \/ op' = Idle)
    BY <1>i, <2>1, Unmoved
  <2> QED
    BY <1>i, <1>1, <2>2, <2>3, Unmoved, TasksGoOn
<1>4. CASE Finish(t)
  <2>1. UNCHANGED call /\ Stale(t) /\ phase' \in {phase, [phase EXCEPT ![t] = "DELIVER"]}
    BY <1>4 DEF Finish
  <2>2. PhasesKept
    BY <1>i, <2>1, PhaseGoes
  <2> QED
    BY <1>i, <1>1, <2>1, <2>2, Unmoved, StaleKeeps, TasksGoOn
<1>5. CASE Answer(t)
  <2>1. UNCHANGED call /\ (UNCHANGED <<phase, ticket, op>> \/ Progress(t))
    BY <1>5 DEF Answer
  <2>2. PhasesKept
    BY <1>i, <2>1, PhaseGoes DEF Progress
  <2>3. OpKept /\ TicketsKept
    BY <1>i, <2>1, Unmoved, StaleKeeps DEF Progress
  <2> QED
    BY <1>i, <1>1, <2>1, <2>2, <2>3, Unmoved, TasksGoOn
<1> QED
  BY <1>2, <1>3, <1>4, <1>5

\* The steps of a session's call, and of its panel.
LEMMA CallsStep ==
  ASSUME TaskInv, NEW s \in Sessions,
         View(s) \/ Dispatch(s) \/ Address(s) \/ Recheck(s) \/ Enter(s) \/ Act(s) \/ Leave(s)
  PROVE  TaskInv'
<1>i. TaskTypeOK /\ OpInv /\ CallInv
  BY DEF TaskInv
<1>1. UNCHANGED <<records, made, resolved>>
  BY DEF View, Dispatch, Address, Recheck, Enter, Act, Leave, saved, bounds
<1>k. call[s] \in Callers
  BY <1>i DEF TaskTypeOK
<1>o. op \in Ops
  BY <1>i DEF TaskTypeOK
<1>2. CASE View(s)
  <2>1. UNCHANGED <<phase, ticket, op, call>>
    BY <1>2 DEF View, saved
  <2> QED
    BY <1>i, <1>1, <2>1, Unmoved, TasksGoOn
<1>3. CASE Act(s)
  <2>1. call[s].task \in Tasks
    BY <1>3, <1>k, <1>o, TaskKinds DEF Act
  <2>2. PhasesKept
    BY <1>i, <1>3, <2>1, PhaseGoes DEF Act, Progress
  <2>3. OpKept /\ TicketsKept
    BY <1>i, <1>3, <2>1, StaleKeeps DEF Act, Progress
  <2>4. Quits(s)
    BY <1>3 DEF Act
  <2> QED
    BY <1>i, <1>1, <2>2, <2>3, <2>4, Unmoved, CallReturns, TasksGoOn
<1>4. CASE UNCHANGED <<phase, ticket, op>> /\ Quits(s)
  BY <1>i, <1>1, <1>4, Unmoved, CallReturns, TasksGoOn
<1>5. CASE Dispatch(s)
  <2>1. UNCHANGED <<phase, ticket, op>>
    BY <1>5 DEF Dispatch, saved
  <2>2. Active(s) \in Tasks
    BY <1>i, <1>5, CurrentIsOwn DEF Dispatch, Active
  <2>3. PICK new : new = [at |-> "read", task |-> Active(s)]
    OBVIOUS
  <2>4. new \in Callers /\ new.at = "read"
    BY <2>2, <2>3 DEF Callers
  <2>5. call' = [call EXCEPT ![s] = new]
    BY <1>5, <2>3 DEF Dispatch
  <2>6. /\ call' \in [Sessions -> Callers]
        /\ \A q \in Sessions : call'[q] = call[q] \/ call'[q].at \in {"idle", "read"}
    BY <1>i, <2>4, <2>5 DEF TaskTypeOK
  <2> QED
    BY <1>i, <1>1, <2>1, <2>6, Unmoved, TasksGoOn
<1>6. ASSUME UNCHANGED <<phase, ticket, op>>, NEW new \in Callers, call' = [call EXCEPT ![s] = new],
             Passed(new) => OwnedBy(s, new.task),
             \/ op = Idle
             \/ new.at = "inside" /\ new.task = call[s].task /\ new.open /\ call[s].open
                /\ call[s].at = "recheck"
      PROVE  TaskInv'
  <2>1. OpInv'
    BY <1>i, <1>1, <1>6, Unmoved, OpGoesOn
  <2>2. /\ call' \in [Sessions -> Callers]
        /\ \A q \in Sessions : call'[q] = IF q = s THEN new ELSE call[q]
    BY <1>i, <1>6 DEF TaskTypeOK
  <2>3. \A q \in Sessions : Passed(call'[q]) => OwnedBy(q, call'[q].task)
    BY <1>i, <1>6, <2>2 DEF CallInv
  <2>4. op.at \in {"dispose", "write"} => ~(new.at \in {"host", "recheck", "inside"} /\ new.task = op.task)
    BY <1>i, <1>6 DEF CallInv, Idle
  <2>5. op'.at \in {"dispose", "write"}
           => \A q \in Sessions : call'[q].at \in {"host", "recheck", "inside"} /\ call'[q].task = op'.task
                                  => ~call'[q].open
    BY <1>i, <1>6, <2>2, <2>4 DEF CallInv
  <2>6. op'.at = "write" => \A q \in Sessions : ~(call'[q].at = "inside" /\ call'[q].task = op'.task)
    BY <1>i, <1>6, <2>2, <2>4 DEF CallInv, Inside
  <2>7. PhasesKept /\ TicketsKept /\ op' \in Ops
    BY <1>i, <1>6, <1>o, Unmoved
  <2> QED
    BY <1>i, <1>1, <2>1, <2>2, <2>3, <2>5, <2>6, <2>7, Unmoved, RegistryStays DEF PhasesKept
<1>7. CASE Address(s) /\ op = Idle
  <2>1. UNCHANGED <<phase, ticket, op>>
    BY <1>7 DEF Address, saved
  <2>2. call[s].task \in Tasks
    BY <1>7, <1>k, <1>o, TaskKinds DEF Address
  <2>3. PICK new : new = [at |-> "host", task |-> call[s].task,
                          open |-> hosts[call[s].task].at \in {"none", "starting", "live"}]
    OBVIOUS
  <2>4. new \in Callers /\ new.at = "host"
    BY <2>2, <2>3 DEF Callers
  <2>5. call' = [call EXCEPT ![s] = new]
    BY <1>7, <2>3 DEF Address
  <2> QED
    BY <1>6, <1>7, <2>1, <2>4, <2>5 DEF Passed
<1>8. CASE Recheck(s) /\ ~Quits(s)
  <2>1. /\ UNCHANGED <<phase, ticket, op>> /\ op = Idle /\ Current(s) = call[s].task
        /\ call' = [call EXCEPT ![s].at = "recheck"] /\ call[s].at = "host"
    BY <1>8 DEF Recheck, saved
  <2>2. call[s] \in [at : {"host", "recheck", "inside"}, task : Tasks, open : BOOLEAN]
    BY <1>k, <1>o, <2>1, TaskKinds
  <2>3. PICK new : new = [call[s] EXCEPT !.at = "recheck"]
    OBVIOUS
  <2>4. new \in Callers /\ new.at = "recheck" /\ new.task = call[s].task
    BY <2>2, <2>3 DEF Callers
  <2>5. call' = [call EXCEPT ![s] = new]
    BY <1>i, <2>1, <2>3 DEF TaskTypeOK
  <2>6. Current(s) # None
    BY <2>1, <2>2, BoundsAreNumbers DEF Tasks, None
  <2>7. OwnedBy(s, new.task)
    BY <1>i, <2>1, <2>4, <2>6, CurrentIsOwn
  <2> QED
    BY <1>6, <2>1, <2>4, <2>5, <2>7
<1>9. CASE Enter(s) /\ ~Quits(s)
  <2>1. /\ UNCHANGED <<phase, ticket, op>> /\ call[s].open
        /\ call' = [call EXCEPT ![s].at = "inside"] /\ call[s].at = "recheck"
    BY <1>9 DEF Enter, saved
  <2>2. call[s] \in [at : {"host", "recheck", "inside"}, task : Tasks, open : BOOLEAN]
    BY <1>k, <1>o, <2>1, TaskKinds
  <2>3. PICK new : new = [call[s] EXCEPT !.at = "inside"]
    OBVIOUS
  <2>4. new \in Callers /\ new.at = "inside" /\ new.task = call[s].task /\ new.open
    BY <2>1, <2>2, <2>3 DEF Callers
  <2>5. call' = [call EXCEPT ![s] = new]
    BY <1>i, <2>1, <2>3 DEF TaskTypeOK
  <2>6. OwnedBy(s, new.task)
    BY <1>i, <2>1, <2>4 DEF CallInv, Passed
  <2> QED
    BY <1>6, <2>1, <2>4, <2>5, <2>6
<1> QED
  BY <1>2, <1>3, <1>4, <1>5, <1>7, <1>8, <1>9 DEF Address, Recheck, Enter, Leave, saved

\* An operation that is not about to give a task away.
LEMMA OperationIs ==
  ASSUME TaskInv, UNCHANGED <<records, call>>, phase' \in [Tasks -> TaskPhases], TicketsKept,
         made' \in Nat, made <= made', resolved' \in Nat, op' \in Ops, OpInv',
         op'.at \notin {"dispose", "write"}
  PROVE  TaskInv'
<1>1. call \in [Sessions -> Callers] /\ \A s \in Sessions : Passed(call[s]) => OwnedBy(s, call[s].task)
  BY DEF TaskInv, TaskTypeOK, CallInv
<1> QED
  BY <1>1, RegistryStays

\* Nothing unfinished in the workspace is nothing unfinished besides a task.
LEMMA NoBlockers ==
  ASSUME NEW s, NEW t, Blockers(s) = {}
  PROVE  OthersDelivered(t)
BY DEF Blockers, OthersDelivered

\* Creating a task, up to its registration.
LEMMA CreateStep ==
  ASSUME TaskInv, (\E s \in Sessions : CreateTask(s)) \/ Survey
  PROVE  TaskInv'
<1>i. TaskTypeOK /\ RegistryInv /\ OpInv /\ op \in Ops /\ Idle \in Callers
  BY Unmoved DEF TaskInv, TaskTypeOK
<1>1. UNCHANGED <<records, phase, ticket, call, resolved>>
  BY DEF CreateTask, Survey, saved
<1>2. /\ phase' \in [Tasks -> TaskPhases] /\ TicketsKept /\ resolved' \in Nat /\ Items' = Items
      /\ Idle \in Ops /\ Idle.at = "idle"
  BY <1>i, <1>1, Unmoved DEF TaskTypeOK, Items, Ops
<1>3. ASSUME NEW s \in Sessions, CreateTask(s) PROVE TaskInv'
  <2>1. made' = made + 1 /\ made < MaxTasks /\ op' = [at |-> "survey", session |-> s, task |-> made + 1]
    BY <1>3 DEF CreateTask
  <2>2. made + 1 \in Tasks /\ made' \in Nat /\ made <= made'
    BY <1>i, <2>1, BoundsAreNumbers DEF TaskTypeOK, Tasks
  <2>3. PICK new : new = [at |-> "survey", session |-> s, task |-> made + 1]
    OBVIOUS
  <2>4. new \in Ops /\ new.at = "survey" /\ new.task = made + 1
    BY <2>2, <2>3 DEF Ops, CreatePlaces
  <2>5. op' = new
    BY <2>1, <2>3
  <2>6. \A i \in Items : i.id # made + 1
    <3>1. \A i \in Items : i.id \in Nat /\ i.id <= made
      BY <1>i, ItemIs, BoundsAreNumbers DEF RegistryInv, ItemRecords, Tasks
    <3> QED
      BY <1>i, <3>1 DEF TaskTypeOK
  <2>7. OpInv'
    <3>1. made + 1 <= made'
      BY <1>i, <2>1 DEF TaskTypeOK
    <3> QED
      BY <1>2, <2>4, <2>5, <2>6, <3>1 DEF OpInv, DecidePlaces
  <2> QED
    BY <1>1, <1>2, <2>2, <2>4, <2>5, <2>7, OperationIs
<1>4. CASE Survey
  <2>1. made' = made /\ made \in Nat /\ made <= made' /\ op.at = "survey" /\ op.at \in CreatePlaces
    <3>1. UNCHANGED made /\ op.at = "survey"
      BY <1>4 DEF Survey
    <3>2. made \in Nat /\ made <= made
      BY <1>i, Unmoved
    <3> QED
      BY <3>1, <3>2 DEF CreatePlaces
  <2>2. CASE op' = Idle
    <3>1. OpInv'
      BY <1>2, <2>2 DEF OpInv, DecidePlaces
    <3> QED
      BY <1>1, <1>2, <2>1, <2>2, <3>1, OperationIs
  <2>3. ASSUME NEW step \in {"queue", "create host"}, op' = [op EXCEPT !.at = step],
               step = "create host" => OthersDelivered(op.task)
        PROVE  TaskInv'
    <3>1. PICK new : new = [op EXCEPT !.at = step]
      OBVIOUS
    <3>2. new \in Ops /\ new.at = step /\ new.task = op.task
      BY <1>i, <2>1, <2>3, <3>1, OperationMoves DEF CreatePlaces
    <3>3. op' = new
      BY <2>3, <3>1
    <3>4. OpInv'
      BY <1>i, <1>1, <1>2, <2>1, <2>3, <3>2, <3>3 DEF OpInv, DecidePlaces, OthersDelivered
    <3> QED
      BY <1>1, <1>2, <2>1, <2>3, <3>2, <3>3, <3>4, OperationIs
  <2>4. \/ op' = Idle \/ op' = [op EXCEPT !.at = "queue"]
        \/ Blockers(op.session) = {} /\ op' = [op EXCEPT !.at = "create host"]
    BY <1>4 DEF Survey
  <2> QED
    BY <2>2, <2>3, <2>4, NoBlockers
<1> QED
  BY <1>3, <1>4

\* The clarification that was submitted; the task taken from the queue.
LEMMA DrainStep ==
  ASSUME TaskInv, Submit \/ Drain \/ DrainHost
  PROVE  TaskInv'
<1>i. TaskTypeOK /\ RegistryInv /\ OpInv /\ op \in Ops /\ Idle \in Callers
  BY Unmoved DEF TaskInv, TaskTypeOK
<1>1. UNCHANGED <<records, call, made, resolved>>
  BY DEF Submit, Drain, DrainHost, saved, bounds
<1>2. /\ made' \in Nat /\ made <= made' /\ resolved' \in Nat /\ Items' = Items
      /\ Idle \in Ops /\ Idle.at = "idle"
  BY <1>i, <1>1, Unmoved DEF TaskTypeOK, Items, Ops
<1>3. ASSUME op' = Idle, phase' \in [Tasks -> TaskPhases], TicketsKept PROVE TaskInv'
  <2>1. OpInv'
    BY <1>2, <1>3 DEF OpInv, DecidePlaces
  <2> QED
    BY <1>1, <1>2, <1>3, <2>1, OperationIs
<1>4. ASSUME NEW new \in Ops, op' = new, new.at \in {"drain host", "drain submit", "drain write"},
             phase' \in [Tasks -> TaskPhases], TicketsKept,
             \A i \in Items : Holds(i) /\ i.id # new.task => phase'[i.id] \in {"DELIVER", "VERIFY"}
      PROVE  TaskInv'
  <2>1. OpInv'
    BY <1>2, <1>4 DEF OpInv, DecidePlaces, OthersDelivered
  <2> QED
    BY <1>1, <1>2, <1>4, <2>1, OperationIs
<1>5. CASE Submit
  <2>1. op.at \in {"submit", "drain submit"} /\ op.at \in CreatePlaces
    BY <1>5 DEF Submit, CreatePlaces
  <2>2. op.task \in Tasks
    BY <1>i, <2>1, TaskKinds
  <2>3. CASE op' = Idle /\ UNCHANGED <<phase, ticket>>
    BY <1>i, <1>3, <2>3, Unmoved DEF TaskTypeOK
  <2>4. CASE /\ phase' = [phase EXCEPT ![op.task] = "AWAIT"]
             /\ ticket' = [s \in Sessions |-> IF ticket[s].task = op.task
                                              THEN [ticket[s] EXCEPT !.same = FALSE] ELSE ticket[s]]
             /\ op' = IF op.at = "submit" THEN Idle ELSE [op EXCEPT !.at = "drain write"]
    <3>1. phase' \in [Tasks -> TaskPhases]
      BY <1>i, <2>4 DEF TaskTypeOK, TaskPhases
    <3>2. TicketsKept
      <4>1. ASSUME NEW s \in Sessions
            PROVE  /\ ticket'[s] \in {NoTicket} \cup Decisions
                   /\ ticket'[s] # NoTicket => ticket[s] # NoTicket /\ ticket'[s].task = ticket[s].task
        <5>1. ticket[s] \in {NoTicket} \cup Decisions
          BY <1>i DEF TaskTypeOK
        <5>2. ticket'[s] = IF ticket[s].task = op.task THEN [ticket[s] EXCEPT !.same = FALSE] ELSE ticket[s]
          BY <2>4
        <5>3. CASE ticket[s] = NoTicket
          <6>1. NoTicket.task = 0 /\ op.task # 0
            BY <2>2, BoundsAreNumbers DEF NoTicket, None, Tasks
          <6> QED
            BY <5>2, <5>3, <6>1
        <5>4. CASE ticket[s] \in Decisions
          BY <5>2, <5>4, MarkedStale
        <5> QED
          BY <5>1, <5>3, <5>4
      <4>2. ticket' \in [Sessions -> {NoTicket} \cup Decisions]
        BY <2>4, <4>1
      <4> QED
        BY <4>1, <4>2 DEF TicketsKept
    <3>3. CASE op.at = "submit"
      BY <1>3, <2>4, <3>1, <3>2, <3>3
    <3>4. CASE op.at = "drain submit"
      <4>1. PICK new : new = [op EXCEPT !.at = "drain write"]
        OBVIOUS
      <4>2. new \in Ops /\ new.at = "drain write" /\ new.task = op.task
        BY <1>i, <2>1, <4>1, OperationMoves, ZenonT(30) DEF CreatePlaces
      <4>3. op' = new
        BY <2>4, <3>4, <4>1
      <4>4. \A i \in Items : Holds(i) /\ i.id # op.task => phase'[i.id] \in {"DELIVER", "VERIFY"}
        <5>1. \A i \in Items : i.id \in Tasks
          BY <1>i, ItemIs DEF ItemRecords
        <5>2. OthersDelivered(op.task)
          BY <1>i, <3>4 DEF OpInv
        <5> QED
          BY <1>i, <2>4, <5>1, <5>2 DEF OthersDelivered, TaskTypeOK
      <4> QED
        BY <1>4, <3>1, <3>2, <4>2, <4>3, <4>4
    <3> QED
      BY <2>1, <3>3, <3>4
  <2> QED
    BY <1>5, <2>3, <2>4 DEF Submit, Gives
<1>6. ASSUME UNCHANGED <<phase, ticket>>
      PROVE  phase' \in [Tasks -> TaskPhases] /\ TicketsKept
  BY <1>i, <1>6, Unmoved DEF TaskTypeOK
<1>7. CASE Drain
  <2>1. UNCHANGED <<phase, ticket>> /\ op.at = "drain" /\ op.at \in DecidePlaces
    BY <1>7 DEF Drain, saved, DecidePlaces
  <2>2. CASE op' = Idle
    BY <1>3, <1>6, <2>1, <2>2
  <2>3. ASSUME NEW t \in Oldest(op.session), Blockers(op.session) = {},
               op' = [at |-> "drain host", session |-> op.session, task |-> t]
        PROVE  TaskInv'
    <3>1. t \in Tasks /\ op.session \in Sessions
      <4>1. PICK i \in Items : t = i.id
        BY <2>3 DEF Oldest
      <4>2. i \in ItemRecords
        BY <1>i, ItemIs
      <4>3. op.session \in Sessions
        BY <1>i, <2>1, TaskKinds
      <4> QED
        BY <4>1, <4>2, <4>3 DEF ItemRecords
    <3>2. PICK new : new = [at |-> "drain host", session |-> op.session, task |-> t]
      OBVIOUS
    <3>3. new \in Ops /\ new.at = "drain host" /\ new.task = t
      BY <3>1, <3>2 DEF Ops, CreatePlaces
    <3>4. \A i \in Items : Holds(i) /\ i.id # t => phase'[i.id] \in {"DELIVER", "VERIFY"}
      BY <2>1, <2>3, NoBlockers DEF OthersDelivered
    <3> QED
      BY <1>4, <1>6, <2>1, <2>3, <3>2, <3>3, <3>4
  <2> QED
    BY <1>7, <2>2, <2>3 DEF Drain, Gives
<1>8. CASE DrainHost
  <2>1. UNCHANGED <<phase, ticket>> /\ op.at = "drain host" /\ op.at \in CreatePlaces
    BY <1>8 DEF DrainHost, saved, CreatePlaces
  <2>2. CASE op' = Idle
    BY <1>3, <1>6, <2>1, <2>2
  <2>3. ASSUME NEW step \in {"drain write", "drain submit"}, op' = [op EXCEPT !.at = step]
        PROVE  TaskInv'
    <3>1. PICK new : new = [op EXCEPT !.at = step]
      OBVIOUS
    <3>2. new \in Ops /\ new.at = step /\ new.task = op.task
      BY <1>i, <2>1, <2>3, <3>1, OperationMoves DEF CreatePlaces
    <3>3. \A i \in Items : Holds(i) /\ i.id # op.task => phase'[i.id] \in {"DELIVER", "VERIFY"}
      BY <1>i, <2>1 DEF OpInv, OthersDelivered
    <3> QED
      BY <1>4, <1>6, <2>1, <2>3, <3>1, <3>2, <3>3
  <2> QED
    BY <1>8, <2>2, <2>3 DEF DrainHost, Gives
<1> QED
  BY <1>5, <1>7, <1>8

\* A decision is previewed.
LEMMA PreviewStep ==
  ASSUME TaskInv, NEW s \in Sessions, Preview(s)
  PROVE  TaskInv'
<1>i. TaskTypeOK /\ RegistryInv /\ OpInv /\ TicketInv /\ CallInv
  BY DEF TaskInv
<1>1. UNCHANGED <<records, phase, op, call, made, resolved>>
  BY DEF Preview, saved, bounds
<1>2. PICK i \in Items, mode \in {"shelve", "adopt"} :
        /\ ~i.queued
        /\ ticket' = [ticket EXCEPT ![s] = [task |-> i.id, mode |-> mode, session |-> i.session,
                                            shelved |-> i.shelved, same |-> TRUE]]
  BY DEF Preview
<1>3. i \in ItemRecords
  BY <1>i, ItemIs
<1>4. PICK new : new = [task |-> i.id, mode |-> mode, session |-> i.session,
                        shelved |-> i.shelved, same |-> TRUE]
  OBVIOUS
<1>5. new \in Decisions /\ new.task = i.id
  BY <1>3, <1>4 DEF Decisions, ItemRecords
<1>6. ticket' = [ticket EXCEPT ![s] = new]
  BY <1>2, <1>4
<1>7. TaskTypeOK'
  BY <1>i, <1>1, <1>5, <1>6 DEF TaskTypeOK
<1>8. Items' = Items
  BY <1>1 DEF Items
<1>9. RegistryInv' /\ CallInv'
  BY <1>i, <1>1, <1>8 DEF RegistryInv, CallInv, OwnedBy, Inside, Passed
<1>10. OpInv'
  BY <1>i, <1>1, Unmoved, OpGoesOn DEF TaskTypeOK
<1>11. TicketInv'
  BY <1>i, <1>2, <1>5, <1>6, <1>8 DEF TicketInv, TaskTypeOK
<1> QED
  BY <1>7, <1>9, <1>10, <1>11 DEF TaskInv

\* A decision is confirmed and carried out, up to the write.
LEMMA ConfirmStep ==
  ASSUME TaskInv, NEW s \in Sessions, Confirm(s)
  PROVE  TaskInv'
<1>i. TaskTypeOK /\ RegistryInv /\ OpInv /\ TicketInv
  BY DEF TaskInv
<1>1. /\ UNCHANGED <<records, phase, call, made>> /\ resolved' = resolved + 1
      /\ ticket[s] # NoTicket /\ ticket' = [ticket EXCEPT ![s] = NoTicket]
  BY DEF Confirm, saved
<1>2. /\ TicketsKept /\ PhasesKept /\ made' \in Nat /\ made <= made' /\ resolved' \in Nat
      /\ phase' \in [Tasks -> TaskPhases] /\ Items' = Items
  BY <1>i, <1>1, Unmoved DEF TaskTypeOK, TicketsKept, Items
<1>3. CASE UNCHANGED op
  BY <1>i, <1>1, <1>2, <1>3, Unmoved, TasksGoOn
<1>4. CASE /\ SameItem(ticket[s])
           /\ op' = [at |-> "resolve", session |-> s, task |-> ticket[s].task, choice |-> ticket[s]]
  <2>1. ticket[s] \in Decisions
    BY <1>i, <1>1 DEF TaskTypeOK
  <2>2. PICK new : new = [at |-> "resolve", session |-> s, task |-> ticket[s].task, choice |-> ticket[s]]
    OBVIOUS
  <2>3. /\ new \in Ops /\ new.at = "resolve" /\ new.task = ticket[s].task /\ new.choice = ticket[s]
    BY <2>1, <2>2 DEF Ops, DecidePlaces, Decisions
  <2>4. op' = new
    BY <1>4, <2>2
  <2>5. PICK i \in Items : i.id = ticket[s].task /\ ~i.queued
    BY <1>i, <1>1 DEF TicketInv
  <2>6. Item(ticket[s].task) = i
    BY <1>i, <2>5, ItemIs
  <2>7. i.session = ticket[s].session /\ i.shelved = ticket[s].shelved
    BY <1>4, <2>6 DEF SameItem
  <2>8. OpInv'
    BY <1>2, <2>3, <2>4, <2>5, <2>7 DEF OpInv, AsShown
  <2> QED
    BY <1>1, <1>2, <2>3, <2>4, <2>8, OperationIs
<1> QED
  BY <1>3, <1>4 DEF Confirm

LEMMA ResolveStep ==
  ASSUME TaskInv, Resolve \/ CheckIdle \/ Close \/ Dispose
  PROVE  TaskInv'
<1>i. TaskTypeOK /\ RegistryInv /\ OpInv /\ CallInv /\ op \in Ops /\ Idle \in Callers
  BY Unmoved DEF TaskInv, TaskTypeOK
<1>1. UNCHANGED <<records, phase, ticket, made, resolved>>
  BY DEF Resolve, CheckIdle, Close, Dispose, saved, bounds
<1>2. /\ TicketsKept /\ PhasesKept /\ phase' \in [Tasks -> TaskPhases] /\ Items' = Items
      /\ made' \in Nat /\ made <= made' /\ resolved' \in Nat
  BY <1>i, <1>1, Unmoved DEF TaskTypeOK, Items
<1>3. op.at \in {"resolve", "resolve host", "own", "dispose"} /\ op.at \in DecidePlaces
  BY DEF Resolve, CheckIdle, Close, Dispose, DecidePlaces
<1>4. CASE op' = Idle /\ UNCHANGED call
  BY <1>i, <1>1, <1>2, <1>4, Unmoved, TasksGoOn
<1>5. ASSUME NEW step \in {"resolve host", "own", "dispose", "write"}, op' = [op EXCEPT !.at = step]
      PROVE  op' \in Ops /\ op'.at = step /\ op'.task = op.task /\ OpInv'
  <2>1. PICK new : new = [op EXCEPT !.at = step]
    OBVIOUS
  <2>2. new \in Ops /\ new.at = step /\ new.task = op.task /\ new.choice = op.choice
    BY <1>i, <1>3, <1>5, <2>1, OperationMoves, ZenonT(30) DEF DecidePlaces
  <2>3. op' = new
    BY <1>5, <2>1
  <2>4. op.choice.task = op.task /\ AsShown(op.choice)
    BY <1>i, <1>3 DEF OpInv
  <2>5. OpInv'
    BY <1>2, <2>2, <2>3, <2>4 DEF OpInv, AsShown
  <2> QED
    BY <2>2, <2>3, <2>5
<1>6. CASE Resolve \/ (CheckIdle /\ op' # Idle)
  <2>1. UNCHANGED call /\ (op' = [op EXCEPT !.at = "resolve host"] \/ op' = [op EXCEPT !.at = "own"])
    BY <1>6 DEF Resolve, CheckIdle, Gives
  <2>2. op' \in Ops /\ op'.at \in {"resolve host", "own"} /\ OpInv'
    BY <1>5, <2>1
  <2> QED
    BY <1>1, <1>2, <2>1, <2>2, OperationIs
<1>7. CASE /\ op' = [op EXCEPT !.at = "dispose"]
           /\ call' = [q \in Sessions |-> IF "open" \in DOMAIN call[q] /\ call[q].task = op.task
                                          THEN [call[q] EXCEPT !.open = FALSE] ELSE call[q]]
  <2>1. op' \in Ops /\ op'.at = "dispose" /\ op'.task = op.task /\ OpInv'
    BY <1>5, <1>7
  <2>2. ASSUME NEW q \in Sessions
        PROVE  /\ call'[q] \in Callers
               /\ call'[q].at = call[q].at
               /\ call'[q] = call[q]
                  \/ (call[q].at \in {"host", "recheck", "inside"} /\ call[q].task = op.task
                      /\ call'[q].task = op.task /\ ~call'[q].open)
               /\ call[q].at \in {"host", "recheck", "inside"} /\ call[q].task = op.task => ~call'[q].open
    <3>1. call[q] \in Callers
      BY <1>i DEF TaskTypeOK
    <3>2. CASE call[q].at \in {"host", "recheck", "inside"} /\ call[q].task = op.task
      <4>1. call[q] \in [at : {"host", "recheck", "inside"}, task : Tasks, open : BOOLEAN]
            /\ "open" \in DOMAIN call[q]
        BY <1>i, <3>1, <3>2, TaskKinds
      <4>2. PICK new : new = [call[q] EXCEPT !.open = FALSE]
        OBVIOUS
      <4>3. new \in Callers /\ new.at = call[q].at /\ new.task = call[q].task /\ ~new.open
        BY <4>1, <4>2 DEF Callers
      <4>4. call'[q] = new
        BY <1>7, <3>2, <4>1, <4>2
      <4> QED
        BY <3>2, <4>3, <4>4
    <3>3. CASE ~(call[q].at \in {"host", "recheck", "inside"} /\ call[q].task = op.task)
      <4>1. ~("open" \in DOMAIN call[q] /\ call[q].task = op.task)
        BY <1>i, <3>1, <3>3, TaskKinds
      <4>2. call'[q] = call[q]
        BY <1>7, <4>1
      <4> QED
        BY <3>1, <3>3, <4>2
    <3> QED
      BY <3>2, <3>3
  <2>3. call' \in [Sessions -> Callers]
    BY <1>7, <2>2
  <2>4. \A q \in Sessions : Passed(call'[q]) => OwnedBy(q, call'[q].task)
    <3>1. ASSUME NEW q \in Sessions, Passed(call'[q]) PROVE OwnedBy(q, call'[q].task)
      <4>1. Passed(call[q]) /\ call'[q].task = call[q].task
        BY <2>2, <3>1 DEF Passed
      <4> QED
        BY <1>i, <4>1 DEF CallInv
    <3> QED
      BY <3>1
  <2>5. \A q \in Sessions : call'[q].at \in {"host", "recheck", "inside"} /\ call'[q].task = op'.task
                            => ~call'[q].open
    <3>1. ASSUME NEW q \in Sessions, call'[q].at \in {"host", "recheck", "inside"},
                 call'[q].task = op'.task
          PROVE  ~call'[q].open
      BY <2>1, <2>2, <3>1
    <3> QED
      BY <3>1
  <2> QED
    BY <1>1, <1>2, <2>1, <2>3, <2>4, <2>5, RegistryStays
<1>8. CASE /\ op' = [op EXCEPT !.at = "write"] /\ op.at = "dispose"
           /\ Drained(op.task) /\ UNCHANGED call
  <2>1. op' \in Ops /\ op'.at = "write" /\ op'.task = op.task /\ OpInv'
    BY <1>5, <1>8
  <2>2. \A q \in Sessions : Passed(call[q]) => OwnedBy(q, call[q].task)
    BY <1>i DEF CallInv
  <2>3. \A q \in Sessions : call[q].at \in {"host", "recheck", "inside"} /\ call[q].task = op'.task
                            => ~call[q].open
    BY <1>i, <1>8, <2>1 DEF CallInv
  <2>4. \A q \in Sessions : ~(call[q].at = "inside" /\ call[q].task = op'.task)
    BY <1>8, <2>1 DEF Drained, Inside
  <2>5. call' = call /\ call \in [Sessions -> Callers]
    BY <1>i, <1>8 DEF TaskTypeOK
  <2> QED
    BY <1>1, <1>2, <2>1, <2>2, <2>3, <2>4, <2>5, RegistryStays
<1> QED
  BY <1>4, <1>6, <1>7, <1>8 DEF CheckIdle, Close, Dispose, Gives

\* The registry is written: what is to be shown of it.
LEMMA RegistryMoves ==
  ASSUME TaskInv, UNCHANGED <<phase, ticket, call, made, resolved>>,
         records' \in Seq(ItemRecords),
         \A k, l \in DOMAIN records' : records'[k].id = records'[l].id => k = l,
         \A i \in Items' : i.id <= made,
         \A i \in Items : \E j \in Items' : j.id = i.id /\ (~i.queued => ~j.queued),
         \A s \in Sessions : Passed(call[s])
            => \E i \in Items' : i.id = call[s].task /\ i.session = s /\ Holds(i),
         op' \in Ops, op'.at \in {"idle", "submit", "drain"}
  PROVE  TaskInv'
<1>i. TaskTypeOK /\ RegistryInv /\ TicketInv /\ CallInv
  BY DEF TaskInv
<1>1. TaskTypeOK'
  BY <1>i DEF TaskTypeOK
<1>2. RegistryInv'
  BY DEF RegistryInv
<1>3. OpInv'
  BY DEF OpInv, DecidePlaces
<1>4. TicketInv'
  <2>1. ASSUME NEW s \in Sessions, ticket[s] # NoTicket
        PROVE  \E j \in Items' : j.id = ticket[s].task /\ ~j.queued
    <3>1. PICK i \in Items : i.id = ticket[s].task /\ ~i.queued
      BY <1>i, <2>1 DEF TicketInv
    <3> QED
      BY <3>1
  <2> QED
    BY <2>1 DEF TicketInv
<1>5. CallInv'
  BY DEF CallInv, OwnedBy
<1> QED
  BY <1>1, <1>2, <1>3, <1>4, <1>5 DEF TaskInv

\* A new task is registered, or queued.
LEMMA RegisterStep ==
  ASSUME TaskInv, Register \/ Queue
  PROVE  TaskInv' /\ NoneUnfinished
<1>i. TaskTypeOK /\ RegistryInv /\ OpInv /\ TicketInv /\ CallInv /\ op \in Ops /\ Idle \in Callers
  BY Unmoved DEF TaskInv, TaskTypeOK
<1>1. /\ UNCHANGED <<phase, ticket, call, made, resolved>>
      /\ op.at \in {"create host", "queue"} /\ op.at \in CreatePlaces
  BY DEF Register, Queue, bounds, CreatePlaces
<1>2. op \in [at : CreatePlaces, session : Sessions, task : Tasks]
  BY <1>i, <1>1, TaskKinds
<1>3. op.task <= made /\ \A i \in Items : i.id # op.task
  BY <1>i, <1>1 DEF OpInv
<1>4. CASE UNCHANGED records /\ op' = Idle
  <2>1. PhasesKept /\ TicketsKept /\ made' \in Nat /\ made <= made' /\ resolved' \in Nat
        /\ call' \in [Sessions -> Callers] /\ Items' = Items
    BY <1>i, <1>1, <1>4, Unmoved DEF Items
  <2>2. NoneUnfinished
    BY <2>1 DEF NoneUnfinished, Started, Holds, Items
  <2>3. TaskInv'
    BY <1>1, <1>4, <2>1, TasksGoOn
  <2> QED
    BY <2>2, <2>3
<1>5. ASSUME NEW queued \in BOOLEAN, records' = Append(records, New(queued)),
             op' \in Ops, op'.at \in {"idle", "submit"},
             ~queued => op.at = "create host"
      PROVE  TaskInv' /\ NoneUnfinished
  <2>1. PICK new : new = New(queued)
    OBVIOUS
  <2>2. /\ new \in ItemRecords /\ new.id = op.task /\ new.session = op.session /\ new.shelved = 0
        /\ new.queued = queued
    BY <1>2, <2>1 DEF New, ItemRecords
  <2>3. /\ records' \in Seq(ItemRecords)
        /\ \A k, l \in DOMAIN records' : records'[k].id = records'[l].id => k = l
        /\ Items' = Items \cup {new}
    BY <1>i, <1>1, <1>3, <1>5, <2>1, <2>2, Added
  <2>4. \A i \in Items' : i.id <= made
    BY <1>i, <1>3, <2>2, <2>3 DEF RegistryInv
  <2>5. \A i \in Items : \E j \in Items' : j.id = i.id /\ (~i.queued => ~j.queued)
    BY <2>3
  <2>6. \A s \in Sessions : Passed(call[s])
           => \E i \in Items' : i.id = call[s].task /\ i.session = s /\ Holds(i)
    BY <1>i, <2>3 DEF CallInv, OwnedBy
  <2>7. TaskInv'
    BY <1>1, <1>5, <2>3, <2>4, <2>5, <2>6, RegistryMoves
  <2>8. NoneUnfinished
    <3>1. ASSUME NEW t \in Started(Items) PROVE t = op.task /\ op.at = "create host"
      <4>1. PICK i \in Items' : t = i.id /\ Holds(i)
        BY <3>1 DEF Started, Items
      <4>2. i \notin Items
        BY <3>1, <4>1 DEF Started, Holds
      <4>3. i = new
        BY <2>3, <4>1, <4>2
      <4> QED
        BY <1>5, <2>2, <4>1, <4>3 DEF Holds
    <3>2. op.at = "create host" => OthersDelivered(op.task)
      BY <1>i DEF OpInv
    <3> QED
      BY <3>1, <3>2 DEF NoneUnfinished, OthersDelivered
  <2> QED
    BY <2>7, <2>8
<1>6. CASE Queue
  <2>1. op' = Idle /\ records' \in {records, Append(records, New(TRUE))}
    BY <1>6 DEF Queue, Gives
  <2>2. op' \in Ops /\ op'.at = "idle"
    BY <2>1 DEF Ops, Idle
  <2> QED
    BY <1>4, <1>5, <2>1, <2>2
<1>7. CASE Register
  <2>1. \/ op' = Idle /\ UNCHANGED records
        \/ records' = Append(records, New(FALSE)) /\ op' = [op EXCEPT !.at = "submit"]
    BY <1>7 DEF Register, Gives
  <2>2. op.at = "create host"
    BY <1>7 DEF Register
  <2>3. CASE records' = Append(records, New(FALSE)) /\ op' = [op EXCEPT !.at = "submit"]
    <3>1. op' \in Ops /\ op'.at = "submit"
      BY <1>i, <1>1, <2>3, OperationMoves DEF CreatePlaces
    <3> QED
      BY <1>5, <2>2, <2>3, <3>1
  <2> QED
    BY <1>4, <2>1, <2>3
<1> QED
  BY <1>6, <1>7

\* The task that waited is no longer queued.
LEMMA UnqueueStep ==
  ASSUME TaskInv, Unqueue
  PROVE  TaskInv' /\ NoneUnfinished
<1>i. TaskTypeOK /\ RegistryInv /\ OpInv /\ TicketInv /\ CallInv
  BY DEF TaskInv
<1>1. /\ UNCHANGED <<phase, ticket, call, made, resolved>> /\ op.at = "drain write" /\ op' = Idle
      /\ records' = [k \in DOMAIN records |-> IF records[k].id = op.task
                                              THEN [records[k] EXCEPT !.queued = FALSE] ELSE records[k]]
  BY DEF Unqueue, bounds, Gives
<1>2. PICK f : f = [i \in Items |-> IF i.id = op.task THEN [i EXCEPT !.queued = FALSE] ELSE i]
  OBVIOUS
<1>3. \A i \in Items : /\ f[i] \in ItemRecords /\ f[i].id = i.id /\ f[i].session = i.session
                       /\ f[i].shelved = i.shelved /\ (~i.queued => ~f[i].queued)
                       /\ i.id # op.task => f[i] = i
  <2>1. ASSUME NEW i \in Items
        PROVE  /\ f[i] \in ItemRecords /\ f[i].id = i.id /\ f[i].session = i.session
               /\ f[i].shelved = i.shelved /\ (~i.queued => ~f[i].queued)
               /\ i.id # op.task => f[i] = i
    <3>1. i \in ItemRecords
      BY <1>i, ItemIs
    <3>2. f[i] = IF i.id = op.task THEN [i EXCEPT !.queued = FALSE] ELSE i
      BY <1>2
    <3> QED
      BY <3>1, <3>2 DEF ItemRecords
  <2> QED
    BY <2>1
<1>4. records' = [k \in DOMAIN records |-> f[records[k]]]
  <2>1. \A k \in DOMAIN records : records[k] \in Items
    BY DEF Items, ToSet
  <2> QED
    BY <1>1, <1>2, <2>1
<1>5. /\ records' \in Seq(ItemRecords)
      /\ \A k, l \in DOMAIN records' : records'[k].id = records'[l].id => k = l
      /\ Items' = {f[i] : i \in Items}
  BY <1>i, <1>3, <1>4, Changed
<1>6. TaskInv'
  <2>1. \A i \in Items' : i.id <= made
    BY <1>i, <1>3, <1>5 DEF RegistryInv
  <2>2. \A i \in Items : \E j \in Items' : j.id = i.id /\ (~i.queued => ~j.queued)
    BY <1>3, <1>5
  <2>3. ASSUME NEW s \in Sessions, Passed(call[s])
        PROVE  \E i \in Items' : i.id = call[s].task /\ i.session = s /\ Holds(i)
    <3>1. PICK i \in Items : i.id = call[s].task /\ i.session = s /\ Holds(i)
      BY <1>i, <2>3 DEF CallInv, OwnedBy
    <3>2. f[i] \in Items' /\ f[i].id = call[s].task /\ f[i].session = s /\ Holds(f[i])
      BY <1>3, <1>5, <3>1 DEF Holds
    <3> QED
      BY <3>2
  <2>4. op' \in Ops /\ op'.at = "idle"
    BY <1>1 DEF Ops, Idle
  <2> QED
    BY <1>1, <1>5, <2>1, <2>2, <2>3, <2>4, RegistryMoves
<1>7. NoneUnfinished
  <2>1. ASSUME NEW t \in Started(Items) PROVE t = op.task
    <3>1. PICK j \in Items' : t = j.id /\ Holds(j)
      BY <2>1 DEF Started, Items
    <3>2. PICK i \in Items : j = f[i]
      BY <1>5, <3>1
    <3>3. SUFFICES ASSUME t # op.task PROVE FALSE
      OBVIOUS
    <3>4. i = j
      BY <1>3, <3>1, <3>2, <3>3
    <3> QED
      BY <2>1, <3>1, <3>2, <3>4 DEF Started, Holds
  <2>2. OthersDelivered(op.task)
    BY <1>i, <1>1 DEF OpInv
  <2> QED
    BY <2>1, <2>2 DEF NoneUnfinished, OthersDelivered
<1> QED
  BY <1>6, <1>7

\* The task is given to its session, or shelved.
LEMMA WriteStep ==
  ASSUME TaskInv, WriteMove
  PROVE  TaskInv' /\ NoneUnfinished
<1>i. TaskTypeOK /\ RegistryInv /\ OpInv /\ TicketInv /\ CallInv /\ op \in Ops /\ Idle \in Callers
  BY Unmoved DEF TaskInv, TaskTypeOK
<1>1. /\ UNCHANGED <<phase, ticket, call, made, resolved>> /\ op.at = "write" /\ op.at \in DecidePlaces
  BY DEF WriteMove, bounds, DecidePlaces
<1>2. op \in [at : DecidePlaces, session : Sessions, task : Tasks, choice : Decisions]
  BY <1>i, <1>1, TaskKinds
<1>3. PICK old \in Items : old.id = op.task /\ ~old.queued
  <2>1. op.choice.task = op.task /\ AsShown(op.choice)
    BY <1>i, <1>1 DEF OpInv
  <2> QED
    BY <2>1 DEF AsShown
<1>4. old \in ItemRecords /\ Item(op.task) = old
  BY <1>i, <1>3, ItemIs
<1>5. PICK new : /\ records' = Moved(new)
                 /\ \/ new = [old EXCEPT !.shelved = resolved] /\ op' = [op EXCEPT !.at = "drain"]
                    \/ new = [old EXCEPT !.shelved = 0, !.session = op.session] /\ op' = Idle
  BY <1>4 DEF WriteMove, Gives
<1>6. new \in ItemRecords /\ new.id = old.id /\ ~new.queued
  <2>1. op.session \in Sessions
    BY <1>2
  <2>2. resolved \in Nat
    BY <1>i DEF TaskTypeOK
  <2>3. CASE new = [old EXCEPT !.shelved = resolved]
    BY <1>3, <1>4, <2>2, <2>3 DEF ItemRecords
  <2>4. CASE new = [old EXCEPT !.shelved = 0, !.session = op.session]
    BY <1>3, <1>4, <2>1, <2>4 DEF ItemRecords
  <2> QED
    BY <1>5, <2>3, <2>4
<1>7. op' \in Ops /\ op'.at \in {"idle", "drain"}
  <2>1. CASE op' = Idle
    BY <2>1 DEF Ops, Idle
  <2>2. CASE op' = [op EXCEPT !.at = "drain"]
    BY <1>i, <1>1, <2>2, OperationMoves DEF DecidePlaces
  <2> QED
    BY <1>5, <2>1, <2>2
<1>8. /\ records' \in Seq(ItemRecords)
      /\ \A k, l \in DOMAIN records' : records'[k].id = records'[l].id => k = l
      /\ Items' = (Items \ {old}) \cup {new}
  BY <1>i, <1>5, <1>6, MovedToEnd
<1>9. TaskInv'
  <2>1. \A i \in Items' : i.id <= made
    BY <1>i, <1>6, <1>8 DEF RegistryInv
  <2>2. \A i \in Items : \E j \in Items' : j.id = i.id /\ (~i.queued => ~j.queued)
    BY <1>6, <1>8
  <2>3. ASSUME NEW s \in Sessions, Passed(call[s])
        PROVE  \E i \in Items' : i.id = call[s].task /\ i.session = s /\ Holds(i)
    <3>1. PICK i \in Items : i.id = call[s].task /\ i.session = s /\ Holds(i)
      BY <1>i, <2>3 DEF CallInv, OwnedBy
    <3>2. call[s].task # op.task
      BY <1>i, <1>1, <2>3 DEF CallInv, Passed, Inside
    <3>3. i \in Items'
      BY <1>3, <1>8, <3>1, <3>2
    <3> QED
      BY <3>1, <3>3
  <2> QED
    BY <1>1, <1>7, <1>8, <2>1, <2>2, <2>3, RegistryMoves
<1>10. NoneUnfinished
  <2>1. ASSUME NEW t \in Started(Items) PROVE FALSE
    <3>1. PICK j \in Items' : t = j.id /\ Holds(j)
      BY <2>1 DEF Started, Items
    <3>2. \A i \in Items : ~i.queued => i.id # t
      BY <2>1 DEF Started
    <3>3. j \notin Items /\ old.id # t
      BY <1>3, <3>1, <3>2 DEF Holds
    <3> QED
      BY <1>6, <1>8, <3>1, <3>3
  <2> QED
    BY <2>1 DEF NoneUnfinished
<1> QED
  BY <1>9, <1>10

\* The process ends, or the write fails.
LEMMA EndStep ==
  ASSUME TaskInv, Restart \/ WriteFails
  PROVE  TaskInv'
<1>i. TaskTypeOK
  BY DEF TaskInv
<1>1. CASE WriteFails
  <2>1. UNCHANGED <<records, phase, ticket, call, made, resolved>> /\ op' = Idle
    BY <1>1 DEF WriteFails, Gives, saved, bounds
  <2> QED
    BY <1>i, <2>1, Unmoved, TasksGoOn
<1>2. CASE Restart
  <2>1. /\ UNCHANGED <<records, phase, made, resolved>> /\ op' = Idle
        /\ ticket' = [s \in Sessions |-> NoTicket] /\ call' = [s \in Sessions |-> Idle]
    BY <1>2 DEF Restart, saved
  <2>2. PhasesKept /\ TicketsKept /\ made' \in Nat /\ made <= made' /\ resolved' \in Nat
    BY <1>i, <2>1, Unmoved DEF TicketsKept
  <2>3. /\ call' \in [Sessions -> Callers]
        /\ \A s \in Sessions : call'[s] = call[s] \/ call'[s].at \in {"idle", "read"}
    BY <1>i, <2>1, Unmoved
  <2> QED
    BY <2>1, <2>2, <2>3, TasksGoOn
<1> QED
  BY <1>1, <1>2

\* Every step keeps the invariant; and if a task starts in it, nothing else
\* is unfinished.
LEMMA TasksStep == TaskInv /\ [Next]_vars => TaskInv' /\ NoneUnfinished
<1> SUFFICES ASSUME TaskInv, [Next]_vars PROVE TaskInv' /\ NoneUnfinished
  OBVIOUS
<1>1. UNCHANGED records => NoneUnfinished
  BY DEF NoneUnfinished, Started, Holds, Items
<1>2. CASE UNCHANGED vars
  <2>1. UNCHANGED <<records, phase, ticket, op, call, made, resolved>>
    BY <1>2 DEF vars, saved, bounds
  <2> QED
    BY <1>1, <2>1, Unmoved, TasksGoOn DEF TaskInv
<1>3. ASSUME NEW t \in Tasks, HostStarts(t) \/ HostFails(t) \/ Finish(t) \/ Answer(t)
      PROVE  TaskInv' /\ NoneUnfinished
  <2>1. UNCHANGED records
    BY <1>3 DEF HostStarts, HostFails, Finish, Answer, saved
  <2> QED
    BY <1>1, <1>3, <2>1, HostsStep
<1>4. ASSUME NEW s \in Sessions,
             \/ View(s) \/ CreateTask(s) \/ Preview(s) \/ Confirm(s)
             \/ Dispatch(s) \/ Address(s) \/ Recheck(s) \/ Enter(s) \/ Act(s) \/ Leave(s)
      PROVE  TaskInv' /\ NoneUnfinished
  <2>1. UNCHANGED records
    BY <1>4 DEF View, CreateTask, Preview, Confirm, Dispatch, Address, Recheck, Enter, Act, Leave, saved
  <2>2. TaskInv'
    BY <1>4, CallsStep, CreateStep, PreviewStep, ConfirmStep
  <2> QED
    BY <1>1, <2>1, <2>2
<1>5. CASE Survey \/ Submit \/ Resolve \/ CheckIdle \/ Close \/ Dispose \/ WriteFails
           \/ Drain \/ DrainHost \/ Restart
  <2>1. UNCHANGED records
    BY <1>5 DEF Survey, Submit, Resolve, CheckIdle, Close, Dispose, WriteFails, Drain, DrainHost,
                Restart, saved
  <2>2. TaskInv'
    BY <1>5, CreateStep, DrainStep, ResolveStep, EndStep
  <2> QED
    BY <1>1, <2>1, <2>2
<1>6. CASE Queue \/ Register \/ WriteMove \/ Unqueue
  BY <1>6, RegisterStep, WriteStep, UnqueueStep
<1> QED
  BY <1>2, <1>3, <1>4, <1>5, <1>6 DEF Next

\* What the run checks of the tasks follows.
LEMMA TasksSafe == TaskInv => OwnerActs /\ MovesWhatWasShown
<1> SUFFICES ASSUME TaskInv PROVE OwnerActs /\ MovesWhatWasShown
  OBVIOUS
<1>i. TaskTypeOK /\ RegistryInv /\ OpInv /\ CallInv
  BY DEF TaskInv
<1>1. OwnerActs
  <2>1. ASSUME NEW s \in Sessions, call[s].at = "inside"
        PROVE  Item(call[s].task).session = s /\ Holds(Item(call[s].task))
    <3>1. PICK i \in Items : i.id = call[s].task /\ i.session = s /\ Holds(i)
      BY <1>i, <2>1 DEF CallInv, Passed, OwnedBy
    <3>2. Item(call[s].task) = i
      BY <1>i, <3>1, ItemIs
    <3> QED
      BY <3>1, <3>2
  <2> QED
    BY <2>1 DEF OwnerActs
<1>2. MovesWhatWasShown
  <2>1. ASSUME op.at \in {"resolve", "resolve host", "own", "dispose", "write"}
        PROVE  /\ Item(op.task).session = op.choice.session
               /\ Item(op.task).shelved = op.choice.shelved
    <3>1. op.choice.task = op.task /\ AsShown(op.choice)
      BY <1>i, <2>1 DEF OpInv, DecidePlaces
    <3>2. PICK i \in Items : i.id = op.task /\ i.session = op.choice.session /\ i.shelved = op.choice.shelved
      BY <3>1 DEF AsShown
    <3>3. Item(op.task) = i
      BY <1>i, <3>2, ItemIs
    <3> QED
      BY <3>2, <3>3
  <2> QED
    BY <2>1 DEF MovesWhatWasShown
<1> QED
  BY <1>1, <1>2

\* The conversations' tasks are sound: who is inside a task's host is its owner, a
\* task moves from where the user saw it, and one that starts finds no other that
\* was never delivered (conversation-task-host.ts dispatch, resolveTask, createTask).
THEOREM TasksAreSound == Spec => [](OwnerActs /\ MovesWhatWasShown) /\ [][NoneUnfinished]_vars
<1>1. TaskInv /\ [Next]_vars => TaskInv' /\ NoneUnfinished
  BY TasksStep
<1> QED
  BY <1>1, TasksInitially, TasksSafe, PTL DEF Spec

---------------------------------------------------------------------------
(* The whole *)

RuntimeInv == /\ part = "installation" => InstallInv
              /\ part = "database" => DatabaseInv
              /\ part = "migration" => MigrationInv
              /\ part = "tasks" => TaskInv

LEMMA RuntimeInitially == RuntimeInit => RuntimeInv
<1> SUFFICES ASSUME RuntimeInit PROVE RuntimeInv
  OBVIOUS
<1>1. part = "installation" => InstallInv
  BY InstallInitially DEF RuntimeInit
<1>2. part = "database" => DatabaseInv
  BY DatabaseInitially DEF RuntimeInit
<1>3. part = "migration" => MigrationInv
  BY MigrationInitially DEF RuntimeInit
<1>4. part = "tasks" => TaskInv
  BY TasksInitially DEF RuntimeInit
<1> QED
  BY <1>1, <1>2, <1>3, <1>4 DEF RuntimeInv

\* A step of the whole is a step of the part in play.
LEMMA RuntimeStep ==
  RuntimeInv /\ [RuntimeNext]_runtime
    => RuntimeInv' /\ [part = "tasks" => NoneUnfinished]_runtime
<1> SUFFICES ASSUME RuntimeInv, [RuntimeNext]_runtime
             PROVE  RuntimeInv' /\ [part = "tasks" => NoneUnfinished]_runtime
  OBVIOUS
<1>u. part' = part
  BY DEF RuntimeNext, runtime
<1>1. ASSUME part = "installation" PROVE InstallInv'
  <2>1. [I!Next]_(I!vars)
    BY <1>1 DEF RuntimeNext, runtime, installation, I!vars
  <2> QED
    BY <1>1, <2>1, InstallStep DEF RuntimeInv
<1>2. ASSUME part = "database" PROVE DatabaseInv'
  <2>1. [D!Next]_(D!vars)
    BY <1>2 DEF RuntimeNext, runtime, database, D!vars, D!disk, D!port, D!postgres
  <2> QED
    BY <1>2, <2>1, DatabaseStep DEF RuntimeInv
<1>3. ASSUME part = "migration" PROVE MigrationInv'
  <2>1. [M!Next]_(M!vars)
    BY <1>3 DEF RuntimeNext, runtime, migration, M!vars, M!databases
  <2> QED
    BY <1>3, <2>1, MigrationStep DEF RuntimeInv
<1>4. ASSUME part = "tasks" PROVE TaskInv' /\ NoneUnfinished
  <2>1. [Next]_vars
    BY <1>4 DEF RuntimeNext, runtime
  <2> QED
    BY <1>4, <2>1, TasksStep DEF RuntimeInv
<1> QED
  BY <1>u, <1>1, <1>2, <1>3, <1>4 DEF RuntimeInv

\* The invariant of the whole holds of every behavior.
THEOREM RuntimeIsSound == RuntimeSpec => []RuntimeInv
<1>1. RuntimeInv /\ [RuntimeNext]_runtime => RuntimeInv'
  BY RuntimeStep
<1> QED
  BY <1>1, RuntimeInitially, PTL DEF RuntimeSpec

\* A run has a token the policy does not forbid, and a token runs once
\* (approval-token.ts consumePrepared, rules.ts evaluateRules).
THEOREM RunIsApprovedHolds == RuntimeSpec => []RunIsApproved
<1>1. RuntimeInv => RunIsApproved
  BY InstallSafe DEF RuntimeInv, RunIsApproved
<1> QED
  BY <1>1, RuntimeIsSound, PTL

\* A session that has returned leaves nothing running (install-session.ts execute).
THEOREM SessionsEndCleanHolds == RuntimeSpec => []SessionsEndClean
<1>1. RuntimeInv => SessionsEndClean
  BY InstallSafe DEF RuntimeInv, SessionsEndClean
<1> QED
  BY <1>1, RuntimeIsSound, PTL

\* Evidence of an installation is of a whole one, across deaths (uv-installer.ts
\* ensureInstalled, artifact-downloader.ts fetch).
THEOREM EvidenceIsWholeHolds == RuntimeSpec => []EvidenceIsWhole
<1>1. RuntimeInv => EvidenceIsWhole
  BY InstallSafe DEF RuntimeInv, EvidenceIsWhole
<1> QED
  BY <1>1, RuntimeIsSound, PTL

\* No signal goes to others' processes, one GUI process lives at most, and the
\* database of a known one stays (process-supervisor.ts, database-execution-port.ts).
THEOREM OneOwnGuiHolds == RuntimeSpec => []OneOwnGui
<1>1. RuntimeInv => OneOwnGui
  BY DatabaseSafe DEF RuntimeInv, OneOwnGui
<1> QED
  BY <1>1, RuntimeIsSound, PTL

\* The SQL that runs was approved, a backup precedes it, and a request held for the
\* user is on disk (database-migration-review.ts, native-database-migration.ts).
THEOREM AppliedIsApprovedHolds == RuntimeSpec => []AppliedIsApproved
<1>1. RuntimeInv => AppliedIsApproved
  BY DEF RuntimeInv, MigrationInv, AppliedIsApproved
<1> QED
  BY <1>1, RuntimeIsSound, PTL

\* Inside a task's host is the task's owner, and a task moves from where the user
\* saw it (conversation-task-host.ts dispatch, resolveTask).
THEOREM CallerOwnsTaskHolds == RuntimeSpec => []CallerOwnsTask
<1>1. RuntimeInv => CallerOwnsTask
  BY TasksSafe DEF RuntimeInv, CallerOwnsTask
<1> QED
  BY <1>1, RuntimeIsSound, PTL

\* A task that starts finds no other that was never delivered
\* (conversation-task-host.ts createTask, drainQueuedTasks).
THEOREM TaskStartsAloneHolds == RuntimeSpec => TaskStartsAlone
<1>1. RuntimeInv /\ [RuntimeNext]_runtime => [part = "tasks" => NoneUnfinished]_runtime
  BY RuntimeStep
<1> QED
  BY <1>1, RuntimeIsSound, PTL DEF RuntimeSpec, TaskStartsAlone
============================================================================

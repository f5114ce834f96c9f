--------------------------- MODULE Installation ---------------------------
(* Approved installation of the runtime: one-time tokens                   *)
(* (policy-engine/src/approval-token.ts), the session a token opens        *)
(* (install-session.ts), the download of an artifact                       *)
(* (platform-macos/src/artifact-downloader.ts) and the installers that     *)
(* work inside the session (spec-workflow/src/uv-installer.ts,             *)
(* spec-kit-installer.ts).  Several processes install in one workspace and *)
(* may die at every step; the files they leave stay.                       *)
(*                                                                         *)
(* A file is who made it (its inode), its content and its links; "good" is *)
(* the content the plan approves.  One artifact stands for the plan's.     *)
(* Nobody else writes here: the code compares the identity of a file       *)
(* before it uses or removes it, and Own is what those comparisons find.   *)
EXTENDS Naturals, Sequences, FiniteSets

---------------------------------------------------------------------------
(* The policy rules (policy-engine/src/rules.ts): what the host may do by  *)
(* itself, what it has to ask a person for, and what it never does.  An    *)
(* action is [kind, program, words]: the program is what a command runs    *)
(* ("none" for the other kinds), the words are what the rules look for in  *)
(* its arguments, environment, path or connection string: an argument, or  *)
(* the name of what it is ("remote host", "lock file", ...).               *)
Kinds == {"read", "write", "delete", "install", "migration", "shared-config", "database",
          "command"}

Says(a, words) == a.words \cap words # {}
Is(a, kind) == a.kind = kind
Runs(a, programs) == Is(a, "command") /\ a.program \in programs

Wrappers == {"sudo", "su", "doas", "pkexec", "sh", "bash", "zsh", "fish", "cmd", "powershell", "pwsh",
             "env", "command", "xargs", "nohup"}
SystemInstallers == {"brew", "apt", "apt-get", "yum", "dnf", "pacman"}
NodeInstallers == {"npm", "pnpm", "yarn", "bun"}
GlobalFlags == {"-g", "--global", "--global=true", "--system", "--location=global", "global=", "prefix="}

(* The Git commands that lose work: a subcommand and one of the arguments. *)
Destructive == [reset |-> {"--hard"}, clean |-> {"-f", "--force"},
                checkout |-> {".", "--", "-f", "--force"}, restore |-> {"path"},
                push |-> {"--force", "-f", "+ref"}, branch |-> {"-D", "-d", "--delete"},
                worktree |-> {"remove --force", "remove -f"}, tag |-> {"-d", "--delete"},
                stash |-> {"clear", "drop"}]
IsDestructiveGit(a) == \E sub \in DOMAIN Destructive : sub \in a.words /\ Says(a, Destructive[sub])

(* A prefix, or a configured one, that is not below the workspace root. *)
ForbiddenGlobalInstall(a) ==
  \/ Says(a, GlobalFlags \cup {"outside prefix", "global=1", "--location global"})
  \/ a.program = "npm" /\ {"config", "set", "prefix"} \subseteq a.words
  \/ a.program = "yarn" /\ Says(a, {"global"})

RemoteDatabase(a) == a.kind \in {"database", "command"} /\ Says(a, {"remote database"})
RemoteService(a) == Is(a, "command") /\ Says(a, {"remote host"})
GlobalInstall(a) == \/ Is(a, "install") /\ Says(a, GlobalFlags)
                    \/ Runs(a, Wrappers \cup SystemInstallers)
                    \/ Is(a, "command") /\ ForbiddenGlobalInstall(a)
DestructiveGit(a) == \/ Runs(a, {"rm"}) /\ Says(a, {"--recursive", "-r", "-R"})
                     \/ Runs(a, {"git"}) /\ IsDestructiveGit(a)
GenericDelete(a) == \/ Runs(a, {"rm", "unlink", "rmdir"})
                    \/ Runs(a, {"find"}) /\ Says(a, {"-delete", "-exec", "-execdir"})
UnownedDelete(a) == Is(a, "delete") \/ GenericDelete(a)

HasTarget(a) == a.kind \in {"write", "delete", "migration", "shared-config"}
InstallPath(a) == HasTarget(a) /\ Says(a, {"node_modules", "lock file"})
InstallCommand(a) == Runs(a, NodeInstallers) /\ Says(a, {"install", "add", "i"})
MigrationPath(a) == HasTarget(a) /\ Says(a, {"migrations", "drizzle", ".sql"})
MigrationCommand(a) == Is(a, "command") /\ Says(a, {"migrat", "drizzle"})
SharedConfigFile(a) == (HasTarget(a) \/ Is(a, "command"))
                       /\ Says(a, {"package.json", "tsconfig", "tool config"})

Installs(a) == Is(a, "install") \/ InstallCommand(a) \/ InstallPath(a)
Migrates(a) == Is(a, "migration") \/ MigrationPath(a) \/ MigrationCommand(a)
SharedConfig(a) == Is(a, "shared-config") \/ SharedConfigFile(a)
KnownRead(a) == Is(a, "read")

Rule(applies, effect, approval) == [applies |-> applies, effect |-> effect, approval |-> approval]

(* RULES: the first rule that applies decides.  The rules about escaping   *)
(* paths and owned writes decide nothing here.                           *)
Rules(a) == << Rule(RemoteDatabase(a), "deny", "none"),
               Rule(RemoteService(a), "deny", "none"),
               Rule(GlobalInstall(a), "deny", "none"),
               Rule(DestructiveGit(a), "deny", "none"),
               Rule(UnownedDelete(a), "deny", "none"),
               Rule(Installs(a), "ask", "install"),
               Rule(Migrates(a), "ask", "migration"),
               Rule(SharedConfig(a), "ask", "shared-config"),
               Rule(KnownRead(a), "allow", "none"),
               Rule(TRUE, "deny", "unknown") >>

FirstOf(rules) == rules[CHOOSE i \in DOMAIN rules : /\ rules[i].applies
                                                    /\ \A j \in 1..(i - 1) : ~rules[j].applies]

(* A bug: the questions come before the refusals. *)
DecideAsking(a) == FirstOf(SubSeq(Rules(a), 6, 9) \o SubSeq(Rules(a), 1, 5) \o SubSeq(Rules(a), 10, 10))

(* evaluateRules. *)
Decide(a) == FirstOf(Rules(a))

Forbidden(a) == RemoteDatabase(a) \/ RemoteService(a) \/ GlobalInstall(a) \/ DestructiveGit(a)
                \/ UnownedDelete(a)
---------------------------------------------------------------------------
CONSTANTS Procs, Tokens,
          Actions,   \* the actions tokens are asked for
          Install,   \* the one of Actions that approves the plan
          NoFile, NoToken, NoAction

VARIABLES tokens,    \* the persisted tokens
          opened,    \* history variable: how often each token was accepted
          ran,       \* history variable: the action that last ran with a token
          files,     \* "archive", "partial", "uv", "uvx"
          tree,      \* the Python environment: who made it, how far it is
          receipt,   \* the provenance: the tree it describes
          at,        \* where each process is in its session and its callback
          op,        \* the download that runs in the session of each process
          evidence   \* what each process has been told is installed
vars == <<tokens, opened, ran, files, tree, receipt, at, op, evidence>>

Paths == {"archive", "partial", "uv", "uvx"}
Contents == {"empty", "good", "bad"}
File(p, content, links) == [by |-> p, content |-> content, links |-> links]
Exists(path) == files[path] # NoFile
Exact(path) == Exists(path) /\ files[path].content = "good" /\ files[path].links = 1
Own(p, path) == Exists(path) /\ files[path].by = p

Init == /\ tokens = [t \in Tokens |-> NoToken]
        /\ opened = [t \in Tokens |-> 0]
        /\ ran = NoAction
        /\ files = [path \in Paths |-> NoFile]
        /\ tree = NoFile /\ receipt = NoFile
        /\ at = [p \in Procs |-> "idle"]
        /\ op = [p \in Procs |-> "none"]
        /\ evidence = [p \in Procs |-> {}]

(***************************************************************************)
(* Tokens.                                                                 *)
(***************************************************************************)

(* issue: the policy must ask for this kind of approval. *)
Issue(t) ==
  /\ tokens[t] = NoToken
  /\ \E a \in Actions, kind \in {"install", "migration"} :
       /\ Decide(a).effect = "ask" /\ Decide(a).approval = kind
       /\ tokens' = [tokens EXCEPT ![t] =
                       [action |-> a, kind |-> kind, used |-> FALSE, expired |-> FALSE]]
  /\ UNCHANGED <<opened, ran, files, tree, receipt, at, op, evidence>>

Expire(t) ==
  /\ tokens[t] # NoToken /\ ~tokens[t].expired
  /\ tokens' = [tokens EXCEPT ![t].expired = TRUE]
  /\ UNCHANGED <<opened, ran, files, tree, receipt, at, op, evidence>>

(* consumePrepared: what is checked, and in one transaction on the state,  *)
(* which retries when another process has written in between.              *)
Consumable(t, a) == /\ tokens[t] # NoToken
                    /\ tokens[t].action = a /\ tokens[t].kind = Decide(a).approval
                    /\ ~tokens[t].expired /\ ~tokens[t].used
Spend(t) == /\ tokens' = [tokens EXCEPT ![t].used = TRUE]
            /\ opened' = [opened EXCEPT ![t] = @ + 1]

(* executeApprovedCommand: a command runs once, right after its token. *)
RunCommand(p, t) ==
  /\ at[p] = "idle" /\ opened[t] < 2
  /\ \E a \in Actions : /\ Is(a, "command") /\ Decide(a).effect = "ask" /\ Consumable(t, a)
                        /\ Spend(t) /\ ran' = a
  /\ UNCHANGED <<files, tree, receipt, at, op, evidence>>

(***************************************************************************)
(* The session.  "open" and the places after it are the callback's;        *)
(* "ending" is between the callback's end and the end of what it started.  *)
(***************************************************************************)
Go(p, place) == at' = [at EXCEPT ![p] = place]
Fail(p) == Go(p, "ending")

PlanPreconditions == ~Exists("partial") /\ (Exists("archive") => Exact("archive"))
ArtifactsCurrent == ~Exists("partial") /\ Exact("archive")

(* execute, up to the token. *)
Check(p) == /\ at[p] = "idle" /\ PlanPreconditions /\ Go(p, "checked")
            /\ UNCHANGED <<tokens, opened, ran, files, tree, receipt, op, evidence>>

(* execute: the token is accepted and the callback starts, or it throws. *)
Open(p, t) ==
  /\ at[p] = "checked" /\ opened[t] < 2
  /\ IF Consumable(t, Install)
     THEN Spend(t) /\ ran' = Install /\ Go(p, "open")
     ELSE Go(p, "idle") /\ UNCHANGED <<tokens, opened, ran>>
  /\ UNCHANGED <<files, tree, receipt, op, evidence>>

(* The callback ends before the operation it started; the session waits    *)
(* for the operation (Promise.allSettled) before execute returns.          *)
Leave(p) == /\ at[p] = "fetching" /\ Fail(p)
            /\ UNCHANGED <<tokens, opened, ran, files, tree, receipt, op, evidence>>

(* A bug: execute returns with operations in flight. *)
SettledOrNot(p) == op[p] \in STRING

Settled(p) == op[p] = "none"
Close(p) == /\ at[p] \in {"ending", "equipped"} /\ Settled(p) /\ Go(p, "idle")
            /\ evidence' = [evidence EXCEPT ![p] = {}]
            /\ UNCHANGED <<tokens, opened, ran, files, tree, receipt, op>>

(* The process dies: its handles close, its files stay. *)
Crash(p) == /\ at[p] # "dead" /\ Go(p, "dead")
            /\ op' = [op EXCEPT ![p] = "none"]
            /\ evidence' = [evidence EXCEPT ![p] = {}]
            /\ UNCHANGED <<tokens, opened, ran, files, tree, receipt>>
(***************************************************************************)
(* The download, an operation of the session (executeApprovedArtifact).    *)
(***************************************************************************)
Stay == UNCHANGED <<tokens, opened, ran, tree, receipt, evidence>>
Continue(p, step) == op' = [op EXCEPT ![p] = step] /\ UNCHANGED at

(* The operation settles; a callback that still waits for it continues. *)
Settle(p, place) == /\ op' = [op EXCEPT ![p] = "none"]
                    /\ IF at[p] = "fetching" THEN Go(p, place) ELSE UNCHANGED at
Fetched(p) == Settle(p, "fetched")
Failed(p) == Settle(p, "ending")

Fetch(p) == /\ at[p] = "open" /\ Go(p, "fetching")
            /\ op' = [op EXCEPT ![p] = "asked"]
            /\ Stay /\ UNCHANGED files

(* fetch: a partial refuses the download, an archive that is there is used *)
(* when it is the approved one and refuses the download when it is not.    *)
Prepare(p) ==
  /\ op[p] = "asked"
  /\ IF Exists("partial") THEN Failed(p)
     ELSE IF ~Exists("archive") THEN Continue(p, "requested")
     ELSE IF Exact("archive") THEN Fetched(p) ELSE Failed(p)
  /\ Stay /\ UNCHANGED files

(* download: the server refuses, or the request times out; a redirection   *)
(* asks the session again, which refuses once its callback has ended.      *)
NoResponse(p) == op[p] = "requested" /\ Failed(p) /\ Stay /\ UNCHANGED files

(* open(partial, O_CREAT | O_EXCL): what failed to create removes nothing. *)
MakePartial(p) ==
  /\ op[p] = "requested"
  /\ IF Exists("partial") THEN Failed(p) /\ UNCHANGED files
     ELSE /\ files' = [files EXCEPT !["partial"] = File(p, "empty", 1)]
          /\ Continue(p, "made")
  /\ Stay

(* removeOwnedPath, of each path of what this process made.  A path whose  *)
(* removal fails stays: the caller is told of it, and it is nobody's then. *)
Nobody == "nobody"
Discard(paths) ==
  \E kept \in SUBSET paths :
    files' = [path \in Paths |->
                IF path \in kept THEN [files[path] EXCEPT !.by = Nobody, !.links = Cardinality(kept)]
                ELSE IF path \in paths THEN NoFile ELSE files[path]]

(* The body, its size and its hash; or the request is aborted on the way. *)
Approved(content) == content = "good"
Fill(p) ==
  /\ op[p] = "made" /\ Own(p, "partial")
  /\ \E content \in Contents :
       IF Approved(content)
       THEN /\ files' = [files EXCEPT !["partial"] = File(p, content, 1)]
            /\ Continue(p, "filled")
       ELSE Discard({"partial"}) /\ Failed(p)
  /\ Stay

(* link: refused when the destination exists; then the partial goes. *)
Link(p) ==
  /\ op[p] = "filled" /\ Own(p, "partial")
  /\ IF Exists("archive")
     THEN Discard({"partial"}) /\ Failed(p)
     ELSE LET both == [files["partial"] EXCEPT !.links = 2] IN
          /\ files' = [files EXCEPT !["partial"] = both, !["archive"] = both]
          /\ Continue(p, "linked")
  /\ Stay

(* unlink and sync, or the rollback of the publication: the destination    *)
(* and the partial, both this process's.                                   *)
Publish(p) ==
  /\ op[p] = "linked" /\ Own(p, "partial")
  /\ \/ /\ files' = [files EXCEPT !["partial"] = NoFile, !["archive"].links = 1]
        /\ Fetched(p)
     \/ Discard({"partial", "archive"}) /\ Failed(p)
  /\ Stay

(***************************************************************************)
(* UvInstaller.ensureInstalled, in the callback.                           *)
(***************************************************************************)
Installed == {path \in {"uv", "uvx"} : Exists(path)}

(* A bug: one of the two files is taken for an installation. *)
PartlyNever(present) == present = {"uv", "uvx"} /\ Cardinality(present) = 1

Partly(present) == Cardinality(present) = 1
Recovered == \A path \in Installed : Exact(path)

(* What is there: nothing, half of it, or an installation that is compared *)
(* with the archive (and not run).                                         *)
FindUv(p) ==
  /\ at[p] = "fetched"
  /\ IF ~Exact("archive") \/ Partly(Installed) THEN Fail(p) /\ UNCHANGED evidence
     ELSE IF Installed = {} THEN Go(p, "publish uv") /\ UNCHANGED evidence
     ELSE IF Recovered
          THEN /\ evidence' = [evidence EXCEPT ![p] = @ \cup {"uv"}]
               /\ Go(p, "uv installed")
          ELSE Fail(p) /\ UNCHANGED evidence
  /\ UNCHANGED <<tokens, opened, ran, files, tree, receipt, op>>

(* publish: a temporary is linked to the destination, and removed when the *)
(* destination is proven to be it.  Nothing is undone by its path.         *)
Publishing == [uv |-> "publish uv", uvx |-> "publish uvx"]
Linked == [uv |-> "linked uv", uvx |-> "linked uvx"]
LinkUv(p, path) ==
  /\ at[p] = Publishing[path]
  /\ IF Exists(path) THEN Fail(p) /\ UNCHANGED files
     ELSE /\ files' = [files EXCEPT ![path] = File(p, "good", 2)]
          /\ Go(p, Linked[path])
  /\ Stay /\ UNCHANGED op
UnlinkUv(p, path) ==
  /\ at[p] = Linked[path]
  /\ Own(p, path) /\ files' = [files EXCEPT ![path].links = 1]
  /\ Go(p, IF path = "uv" THEN "publish uvx" ELSE "verify uv")
  /\ Stay /\ UNCHANGED op

(* verifyVersion, and the files are compared with the archive once more. A *)
(* command of the plan runs while the plan's artifacts are what it says.   *)
VerifyUv(p) ==
  /\ at[p] = "verify uv"
  /\ \/ /\ ArtifactsCurrent /\ Recovered
        /\ evidence' = [evidence EXCEPT ![p] = @ \cup {"uv"}] /\ Go(p, "uv installed")
     \/ Fail(p) /\ UNCHANGED evidence
  /\ UNCHANGED <<tokens, opened, ran, files, tree, receipt, op>>

(***************************************************************************)
(* SpecKitInstaller.ensureInstalled.                                       *)
(***************************************************************************)
Tree(p, stage) == [by |-> p, stage |-> stage]
Keep == UNCHANGED <<tokens, opened, ran, files, op>>
Equip(p) == evidence' = [evidence EXCEPT ![p] = @ \cup {"kit"}] /\ Go(p, "equipped")

FindKit(p) ==
  /\ at[p] = "uv installed"
  /\ IF tree = NoFile /\ receipt = NoFile
     THEN Go(p, IF ArtifactsCurrent THEN "make tree" ELSE "ending") /\ UNCHANGED evidence
     ELSE IF tree # NoFile /\ receipt = tree THEN Equip(p)
     ELSE Fail(p) /\ UNCHANGED evidence
  /\ Keep /\ UNCHANGED <<tree, receipt>>

(* uv venv; uv pip install and check: each runs with the artifacts of the  *)
(* plan, or fails.                                                         *)
Build(p, place, stage, next) ==
  /\ at[p] = place
  /\ \/ ArtifactsCurrent /\ tree' = Tree(p, stage) /\ Go(p, next)
     \/ Fail(p) /\ UNCHANGED tree
  /\ Keep /\ UNCHANGED <<receipt, evidence>>
MakeTree(p) == Build(p, "make tree", "made", "fill tree")
FillTree(p) == Build(p, "fill tree", "filled", "write receipt")

(* writeProvenance: the trees are read and the receipt is linked; a second *)
(* one is refused. *)
WriteReceipt(p) ==
  /\ at[p] = "write receipt"
  /\ IF receipt = NoFile THEN receipt' = tree /\ Go(p, "check receipt")
     ELSE Fail(p) /\ UNCHANGED receipt
  /\ Keep /\ UNCHANGED <<tree, evidence>>

(* issueInstalledSpecKit: the trees are read again. *)
IssueKit(p) == /\ at[p] = "check receipt"
               /\ IF receipt = tree THEN Equip(p) ELSE Fail(p) /\ UNCHANGED evidence
               /\ Keep /\ UNCHANGED <<tree, receipt>>

Next ==
  \/ \E t \in Tokens : Issue(t) \/ Expire(t)
  \/ \E p \in Procs, t \in Tokens : RunCommand(p, t) \/ Open(p, t)
  \/ \E p \in Procs : Check(p) \/ Leave(p) \/ Close(p) \/ Crash(p)
  \/ \E p \in Procs : \/ Fetch(p) \/ Prepare(p) \/ NoResponse(p) \/ MakePartial(p) \/ Fill(p)
                       \/ Link(p) \/ Publish(p)
  \/ \E p \in Procs : FindUv(p) \/ VerifyUv(p)
  \/ \E p \in Procs, path \in {"uv", "uvx"} : LinkUv(p, path) \/ UnlinkUv(p, path)
  \/ \E p \in Procs : FindKit(p) \/ MakeTree(p) \/ FillTree(p) \/ WriteReceipt(p) \/ IssueKit(p)

Spec == Init /\ [][Next]_vars

(***************************************************************************)
(* Properties.                                                             *)
(***************************************************************************)

(* What runs with a token was never something the policy forbids, and no   *)
(* token is accepted twice: the order of the rules, and the check of       *)
(* usedAt inside the transaction that sets it.                             *)
RunIsApproved == /\ ran # NoAction => ~Forbidden(ran)
                 /\ \A t \in Tokens : opened[t] <= 1

(* When execute has returned, nothing it started is still writing: a live  *)
(* process has no partial outside of a session (install-session.ts 87) but *)
(* one that it failed to remove.                                           *)
SessionsEndClean == \A p \in Procs : at[p] = "idle" => op[p] = "none" /\ ~Own(p, "partial")

(* A process that is told uv is installed has both executables, complete   *)
(* and from an archive with the approved content, whatever processes died  *)
(* or failed before (uv-installer.ts 41-43).                               *)
EvidenceIsWhole ==
  \A p \in Procs : "uv" \in evidence[p] => \A path \in {"uv", "uvx"} : Exact(path)

(* A download of a live process is not disturbed by another's failure: its *)
(* partial stays its own until it publishes or fails (removeOwnedPath).    *)
PartialIsKept == \A p \in Procs : op[p] \in {"made", "filled", "linked"} => Own(p, "partial")
===========================================================================

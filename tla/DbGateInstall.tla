--------------------------- MODULE DbGateInstall ---------------------------
(* The installer of the design GUI (database/src/dbgate-installer.ts).  It *)
(* merges the package manifest, lets npm install the packages, refuses the *)
(* disabled ones, and swaps a copy of the plugin in for the one in use.    *)
(* Steps may fail, and the process may die between any two of them, but no *)
(* two processes install at the same time.                                 *)
EXTENDS Naturals

CONSTANTS NoTree,
          MaxFaults   \* bound: renames that fail in one install

VARIABLES manifest,  \* runtime/dbgate/package.json, which the user may edit
          packages,  \* node_modules: is the plugin whole, is a disabled package there
          plugin,    \* plugins/dbgate-plugin-postgres
          spare,     \* the private copy and the backup of the install that runs
          left,      \* the backups that dead processes have left
          at,        \* where the install is
          seen,      \* the manifest it has read
          found,     \* history variable: the plugin that was there when it began
          faults
dbgate == <<manifest, packages, plugin, spare, left, at, seen, found, faults>>

Manifests == {"none", "older", "ours", "conflict"}
NoSpare == [temporary |-> NoTree, backup |-> NoTree]

DbGateInit ==
  /\ manifest \in Manifests
  /\ packages \in [plugin : {NoTree, "whole"}, disabled : BOOLEAN]
  /\ plugin \in {NoTree, "whole"}
  /\ spare = NoSpare /\ left = {}
  /\ at = "idle" /\ seen = "none" /\ found = plugin /\ faults = 0

KeepSwap == UNCHANGED <<plugin, spare, left, found, faults>>
KeepFiles == UNCHANGED <<manifest, packages, seen, left, found>>
Stops == at' = "failed"

\* ensureInstalled, once it is approved.
Ensure ==
  /\ at \in {"idle", "installed", "failed", "dead"}
  /\ at' = "read" /\ found' = plugin /\ faults' = 0
  /\ UNCHANGED <<manifest, packages, plugin, spare, left, seen>>

\* mergeRuntimeManifest: another version of a required package is a conflict;
\* the packages of older versions are taken out.
ReadManifest ==
  /\ at = "read"
  /\ IF manifest = "conflict" THEN Stops ELSE at' = "write"
  /\ seen' = manifest
  /\ UNCHANGED <<manifest, packages>> /\ KeepSwap

\* writeManifestSafely: nothing is written over a manifest that is not the one read.
WriteManifest ==
  /\ at = "write"
  /\ IF manifest = seen THEN manifest' = "ours" /\ at' = "clear"
     ELSE Stops /\ UNCHANGED manifest
  /\ UNCHANGED <<packages, seen>> /\ KeepSwap

RemoveDisabled ==
  /\ at = "clear" /\ at' = "npm"
  /\ packages' = [packages EXCEPT !.disabled = FALSE]
  /\ UNCHANGED <<manifest, seen>> /\ KeepSwap

\* npm leaves whole packages when it ends well, and anything otherwise.
RunNpm ==
  /\ at = "npm"
  /\ \E tree \in {NoTree, "torn", "whole"}, disabled \in BOOLEAN :
       /\ packages' = [plugin |-> tree, disabled |-> disabled]
       /\ at' \in IF tree = "whole" THEN {"check", "failed"} ELSE {"failed"}
  /\ UNCHANGED <<manifest, seen>> /\ KeepSwap

\* assertNoDisabledPackageEntries, assertRuntimePackage
CheckPackages ==
  /\ at = "check"
  /\ IF packages.disabled THEN Stops ELSE at' = "copy"
  /\ UNCHANGED <<manifest, packages, seen>> /\ KeepSwap

\* copyOwnedDirectory: to a private directory beside the plugin.
CopyTo(tree) == spare' = [spare EXCEPT !.temporary = tree] /\ UNCHANGED plugin
Copy ==
  /\ KeepFiles /\ UNCHANGED faults
  /\ \/ at = "copy" /\ at' = "copying" /\ CopyTo("torn")
     \/ at = "copying" /\ at' = "swap" /\ CopyTo(packages.plugin)
     \/ at = "copying" /\ Stops /\ UNCHANGED <<plugin, spare>>

\* A rename that fails, within the bound.
Fault == faults < MaxFaults /\ faults' = faults + 1

\* replaceOwnedDirectory: the plugin in use is moved away,
MoveAway ==
  /\ at = "swap" /\ KeepFiles
  /\ \/ /\ at' = "install" /\ UNCHANGED faults
        /\ plugin' = NoTree /\ spare' = [spare EXCEPT !.backup = plugin]
     \/ Fault /\ at' = "undo" /\ UNCHANGED <<plugin, spare>>

\* and the copy moved in; when that fails, the plugin is moved back.
MoveIn ==
  /\ at = "install" /\ KeepFiles
  /\ \/ /\ at' = "clean" /\ UNCHANGED faults
        /\ plugin' = spare.temporary /\ spare' = [spare EXCEPT !.temporary = NoTree]
     \/ Fault /\ at' = "move back" /\ UNCHANGED <<plugin, spare>>
MoveBack ==
  /\ at = "move back" /\ KeepFiles /\ at' = "undo"
  /\ \/ plugin' = spare.backup /\ spare' = [spare EXCEPT !.backup = NoTree] /\ UNCHANGED faults
     \/ Fault /\ spare.backup # NoTree /\ UNCHANGED <<plugin, spare>>

\* The `finally` removes the copy and the backup, whatever has happened.
Clean ==
  /\ at \in {"clean", "undo"} /\ KeepFiles /\ UNCHANGED <<plugin, faults>>
  /\ spare' = NoSpare
  /\ IF at = "undo" THEN Stops ELSE at' = "launcher"

\* writeLauncher: the fixed text, by way of a private file.
WriteLauncher ==
  /\ at = "launcher" /\ at' \in {"installed", "failed"}
  /\ UNCHANGED <<manifest, packages, seen>> /\ KeepSwap

Die ==
  /\ at \notin {"idle", "installed", "failed", "dead"} /\ at' = "dead"
  /\ left' = left \cup ({spare.backup} \ {NoTree}) /\ spare' = NoSpare
  /\ UNCHANGED <<manifest, packages, plugin, seen, found, faults>>

EditManifest ==
  /\ manifest' \in Manifests \ {manifest, "ours"}
  /\ UNCHANGED <<packages, seen, at>> /\ KeepSwap

DbGateNext ==
  \/ Ensure \/ ReadManifest \/ WriteManifest \/ RemoveDisabled \/ RunNpm \/ CheckPackages
  \/ Copy \/ MoveAway \/ MoveIn \/ MoveBack \/ Clean \/ WriteLauncher
  \/ Die \/ EditManifest

DbGateSpec == DbGateInit /\ [][DbGateNext]_dbgate
---------------------------------------------------------------------------
\* An install that fails leaves the plugin it has found in its place, and one
\* that dies leaves it there or in a backup: npm, the copy and one of the
\* renames may fail on the way (replaceOwnedDirectory).
PluginKept ==
  found = "whole" /\ faults <= 1 =>
    /\ at \in {"idle", "installed", "failed"} => plugin = "whole"
    /\ at = "dead" => "whole" \in left \cup {plugin}
===========================================================================

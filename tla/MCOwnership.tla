---------------------------- MODULE MCOwnership ----------------------------
(***************************************************************************)
(* Small instances of OwnershipManager: two processes over one directory,  *)
(* a directory, a file below it and a file elsewhere.                      *)
(***************************************************************************)
EXTENDS OwnershipManager

CONSTANTS p1, p2, t1, t2, t3

Src     == <<"src">>
SrcFile == <<"src", "a">>
Docs    == <<"docs">>

MCProcs    == {p1, p2}
MCTasks    == {t1, t2, t3}
NestedPaths == {{Src}, {SrcFile}}
ThreeNonces == 1..3    \* and a third

\* Tasks and processes are interchangeable; nonces are not, they are ordered.
Interchangeable == Permutations(Tasks) \cup Permutations(Procs)

============================================================================

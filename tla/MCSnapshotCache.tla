-------------------------- MODULE MCSnapshotCache --------------------------
(* Constants for the model-checking runs of SnapshotCache.                  *)
EXTENDS SnapshotCache

\* Every dump has a basename of its own.
OwnName == [s \in Specs |-> s]

\* One process diffs any two snapshots; or each diffs its own.
WantsAnyTwo == [p \in Procs |-> {w \in Specs \X Specs : w[1] # w[2]}]
WantsApart == [p \in Procs |-> IF p = "p1" THEN {<<"a", "b">>} ELSE {<<"c", "d">>}]
=============================================================================

----------------------------- MODULE MCDiffRuns -----------------------------
(* Symmetry for the model-checking runs of DiffRuns that check no liveness,  *)
(* and what a diff may come to: at rest, what is counted is listed; on a     *)
(* live side the one row is counted and not listed, or listed and not        *)
(* counted.                                                                  *)
EXTENDS DiffRuns, TLC

RunSymmetry == Permutations(Tables \ Excluded) \cup Permutations(WebJobs)

Diff(n, listed) == [n |-> n, listed |-> listed]
AtRest == {Diff(0, 0), Diff(1, 1)}
Written == {Diff(1, 0), Diff(0, 1)}
AtRestOrNot == AtRest \cup {Diff(1, 0)}
=============================================================================

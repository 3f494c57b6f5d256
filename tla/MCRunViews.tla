----------------------------- MODULE MCRunViews -----------------------------
(* One run, a worker's or a command's, with its readers: runs beside each   *)
(* other are the subject of the runs of DiffRuns.                           *)
EXTENDS RunViews

\* Counted and listed, also beyond the cap (3, 2) and copies without a key (1, 2).
Diff(n, listed) == [n |-> n, listed |-> listed]
Found == {Diff(0, 0), Diff(1, 1), Diff(1, 2), Diff(3, 2), Diff(3, 3)}

OneRun == Cardinality({j \in Job : pc[j] # "idle"}) <= 1

NextOne == NextViews /\ OneRun'

OneRunViews ==
  /\ InitViews /\ [][NextOne]_allvars
  /\ \A j \in Job : WF_allvars(Run(j))
  /\ \A j \in CliJobs : WF_allvars(Export(j))
  /\ \A b \in Tabs : WF_allvars(Follows(b))
=============================================================================

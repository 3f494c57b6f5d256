----------------------------- MODULE RunHistory -----------------------------
(***************************************************************************)
(* What the run history promises to whoever browses it, without saying how *)
(* a run is computed or stored: ids are handed out in order and never      *)
(* again, a run settles at most once, a finished run's report appears in   *)
(* one step and never changes, and a deleted run never comes back.         *)
(***************************************************************************)
EXTENDS Naturals

CONSTANT Report   \* the reports a run can publish

VARIABLES
  issued,   \* number of run ids handed out so far
  phase,    \* phase[r]: "running", "done", "error" or "deleted"
  report    \* report[r]: what a reader is shown of run r

vars == <<issued, phase, report>>

Init ==
  /\ issued = 0
  /\ phase = [r \in 1..0 |-> "running"]
  /\ report = [r \in 1..0 |-> {}]

Create ==
  /\ issued' = issued + 1
  /\ phase' = [r \in 1..(issued + 1) |-> IF r = issued + 1 THEN "running" ELSE phase[r]]
  /\ report' = [r \in 1..(issued + 1) |-> IF r = issued + 1 THEN {} ELSE report[r]]

Publish(r) ==
  /\ phase[r] = "running"
  /\ phase' = [phase EXCEPT ![r] = "done"]
  /\ \E d \in Report : report' = [report EXCEPT ![r] = d]
  /\ UNCHANGED issued

Fail(r) ==
  /\ phase[r] = "running"
  /\ phase' = [phase EXCEPT ![r] = "error"]
  /\ UNCHANGED <<issued, report>>

Delete(r) ==
  /\ phase[r] # "deleted"
  /\ phase' = [phase EXCEPT ![r] = "deleted"]
  /\ report' = [report EXCEPT ![r] = {}]
  /\ UNCHANGED issued

Next ==
  \/ Create
  \/ \E r \in 1..issued : Publish(r) \/ Fail(r) \/ Delete(r)

Spec == Init /\ [][Next]_vars
=============================================================================

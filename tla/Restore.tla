------------------------------ MODULE Restore -------------------------------
(***************************************************************************)
(* What restoring one dump promises to its caller: the dump is loaded      *)
(* chunk by chunk, the call returns only when all of it was, and once the  *)
(* call has returned or raised nothing is loaded any more, unless it       *)
(* raised because the client was cut off from it.  This is the restore     *)
(* that the snapshot cache builds on.                                      *)
(***************************************************************************)
EXTENDS Naturals

CONSTANT Chunks   \* chunks in the dump

VARIABLES
  loaded,   \* chunks that have been executed in the schema
  outcome,  \* what the caller has seen
  orphaned  \* the client runs on its own

vars == <<loaded, outcome, orphaned>>

Init == loaded = 0 /\ outcome = "pending" /\ orphaned = FALSE

Load ==
  /\ outcome = "pending" \/ orphaned
  /\ loaded < Chunks
  /\ loaded' = loaded + 1
  /\ UNCHANGED <<outcome, orphaned>>

CutOff ==
  /\ outcome = "pending"
  /\ ~orphaned
  /\ orphaned' = TRUE
  /\ UNCHANGED <<loaded, outcome>>

Succeed ==
  /\ outcome = "pending"
  /\ ~orphaned
  /\ loaded = Chunks
  /\ outcome' = "returned"
  /\ UNCHANGED <<loaded, orphaned>>

Fail ==
  /\ outcome = "pending"
  /\ outcome' = "raised"
  /\ UNCHANGED <<loaded, orphaned>>

Next == Load \/ CutOff \/ Succeed \/ Fail

Spec == Init /\ [][Next]_vars
=============================================================================

------------------------- MODULE RestoreDumpProofs --------------------------
(***************************************************************************)
(* Proofs about RestoreDump, for dumps and pipes of any size.              *)
(***************************************************************************)
EXTENDS RestoreDump, TLAPS

LEMMA InvInit == Init => IInv
<1> SUFFICES ASSUME Init PROVE IInv
  OBVIOUS
<1>1. TypeOK
  <2>1. feed_error \in BOOLEAN
    BY DEF Init
  <2> QED BY <2>1, RestoreDumpAssumption DEF Init, TypeOK
<1>2. applied + stdin + buffered = sent
  BY DEF Init
<1> QED BY <1>1, <1>2 DEF Init, IInv, Exited

\* One step per action.
LEMMA InvStep == IInv /\ [Next]_vars => IInv'
<1> SUFFICES ASSUME IInv, [Next]_vars PROVE IInv'
  OBVIOUS
<1> USE RestoreDumpAssumption DEF IInv, TypeOK, Exited, InputEnded, feed, exec
<1>1. CASE ReadChunk
  BY <1>1 DEF ReadChunk
<1>2. CASE ReadFails
  BY <1>2 DEF ReadFails
<1>3. CASE WriteChunk
  BY <1>3 DEF WriteChunk
<1>4. CASE BrokenPipe
  BY <1>4 DEF BrokenPipe
<1>5. CASE CloseStdin
  BY <1>5 DEF CloseStdin
<1>6. CASE Execute
  BY <1>6 DEF Execute
<1>7. CASE StatementFails
  BY <1>7 DEF StatementFails
<1>8. CASE PrintLine
  BY <1>8 DEF PrintLine
<1>9. CASE ClientExits
  BY <1>9 DEF ClientExits
<1>10. CASE ClientDies
  BY <1>10 DEF ClientDies
<1>11. CASE Drain
  BY <1>11 DEF Drain
<1>12. CASE ErrorsEnd
  BY <1>12 DEF ErrorsEnd
<1>13. CASE JoinWriter
  BY <1>13 DEF JoinWriter
<1>14. CASE Report
  BY <1>14 DEF Report
<1>15. CASE ExecKilled
  BY <1>15 DEF ExecKilled
<1>16. CASE ExecuteLate
  BY <1>16 DEF ExecuteLate
<1>17. CASE UNCHANGED vars
  BY <1>17 DEF vars
<1> QED
  BY <1>1, <1>2, <1>3, <1>4, <1>5, <1>6, <1>7, <1>8, <1>9, <1>10, <1>11, <1>12, <1>13, <1>14, <1>15,
     <1>16, <1>17
  DEF Next, Feed, Client, Faults, Main

THEOREM Invariance == Spec => []IInv
  BY InvInit, InvStep, PTL DEF Spec

\* What the threads, the pipes and the client hold, whatever the dump's size.
THEOREM TypeCorrect == Spec => []TypeOK
<1>1. IInv => TypeOK
  BY DEF IInv
<1> QED BY <1>1, Invariance, PTL

LEMMA SuccessFollows == IInv => SuccessIsWhole
  BY DEF IInv, TypeOK, SuccessIsWhole

\* restore_dump returns only when the whole dump has been executed.
THEOREM ReturnedMeansWhole == Spec => []SuccessIsWhole
  BY SuccessFollows, Invariance, PTL

-----------------------------------------------------------------------------
(* RestoreDump implements Restore.                                          *)

LEMMA RefinesInit == Init => Caller!Init
  BY DEF Init, Caller!Init

\* The client loads while the caller waits, or on its own once docker exec was
\* killed, which the caller sees as a failure; the caller's last step succeeds
\* only with everything loaded; every other step stutters.
LEMMA RefinesStep ==
  ASSUME IInv, [Next]_vars
  PROVE  [Caller!Next]_(Caller!vars)
<1> DEFINE pending == main \notin {"returned", "raised"}
           orphan == client = "killed"
<1> USE DEF Caller!vars
<1>1. CASE Execute
  <2>1. /\ pending /\ main' = main /\ client' = client
        /\ applied' = applied + 1 /\ applied < Chunks
    BY <1>1, RestoreDumpAssumption DEF Execute, IInv, TypeOK, Exited, feed
  <2> QED BY <2>1 DEF Caller!Next, Caller!Load
<1>2. CASE ExecuteLate
  <2>1. /\ orphan /\ main' = main /\ client' = client
        /\ applied' = applied + 1 /\ applied < Chunks
    BY <1>2, RestoreDumpAssumption DEF ExecuteLate, IInv, TypeOK, feed
  <2> QED BY <2>1 DEF Caller!Next, Caller!Load
<1>3. CASE ExecKilled
  <2>1. pending /\ main' = main /\ applied' = applied /\ ~orphan /\ orphan'
    BY <1>3 DEF ExecKilled, IInv, Exited
  <2> QED BY <2>1 DEF Caller!Next, Caller!CutOff
<1>4. CASE Report
  <2>1. /\ pending /\ applied' = applied /\ client' = client /\ main' \in {"returned", "raised"}
        /\ main' = "returned" => applied = Chunks /\ ~orphan
    BY <1>4 DEF Report, IInv, TypeOK, exec
  <2> QED BY <2>1 DEF Caller!Next, Caller!Succeed, Caller!Fail
<1>5. CASE Drain \/ ErrorsEnd \/ JoinWriter
  <2>1. applied' = applied /\ client' = client /\ pending /\ main' \notin {"returned", "raised"}
    BY <1>5 DEF Drain, ErrorsEnd, JoinWriter, exec
  <2> QED BY <2>1
<1>6. CASE Feed \/ StatementFails \/ PrintLine \/ ClientExits \/ ClientDies \/ UNCHANGED vars
  <2>1. applied' = applied /\ main' = main /\ orphan' = orphan
    BY <1>6 DEF Feed, ReadChunk, ReadFails, WriteChunk, BrokenPipe, CloseStdin, Exited,
                StatementFails, PrintLine, ClientExits, ClientDies, vars, exec
  <2> QED BY <2>1
<1> QED BY <1>1, <1>2, <1>3, <1>4, <1>5, <1>6 DEF Next, Client, Faults, Main

\* The two threads, the client and the pipes implement the restore that the
\* snapshot cache relies on.
THEOREM RestoreIsImplemented == Spec => RefinesRestore
<1>1. Init => Caller!Init
  BY RefinesInit
<1>2. IInv /\ [Next]_vars => [Caller!Next]_(Caller!vars)
  BY RefinesStep
<1> QED BY <1>1, <1>2, Invariance, PTL DEF Spec, RefinesRestore, Caller!Spec
=============================================================================

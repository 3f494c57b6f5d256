------------------------ MODULE SnapshotCacheProofs -------------------------
(***************************************************************************)
(* Proofs about SnapshotCache, for any snapshots, cap and commands.        *)
(***************************************************************************)
EXTENDS SnapshotCache, FiniteSetTheorems, TLAPS

LEMMA OfTyped ==
  ASSUME TypeOK, NEW p \in Procs
  PROVE  Of(p) \in Specs /\ SchemaOf(p) \in Schema
<1>1. want[p] \in Specs \X Specs /\ side[p] \in {1, 2}
  BY DEF TypeOK
<1>2. want[p][1] \in Specs /\ want[p][2] \in Specs
  BY <1>1
<1>3. Of(p) \in Specs
  BY <1>1, <1>2 DEF Of
<1> QED BY <1>3 DEF SchemaOf, Schema

\* The registry or the contents changed in one place stay functions on schemas.
LEMMA RegistryPut ==
  ASSUME TypeOK, NEW s \in Schema, clock' \in Nat, clock' >= clock, registry' = Put(registry, s, clock')
  PROVE  DOMAIN registry' \subseteq Schema /\ \A x \in DOMAIN registry' : registry'[x] \in 0..clock'
  BY DEF TypeOK, Put

-----------------------------------------------------------------------------
(* Types, whether or not commands overlap.                                  *)

Typed == TypeOK /\ LoadInBounds

LEMMA TypeInit == Init => Typed
  BY SnapshotCacheAssumption DEF Init, Typed, TypeOK, LoadInBounds, At, Label, Nothing

LEMMA TypeStep ==
  ASSUME Typed, [Next]_vars
  PROVE  Typed'
<1> USE SnapshotCacheAssumption DEF Typed, LoadInBounds, At, GoTo
<1>1. ASSUME NEW p \in Procs, Begin(p)
      PROVE  Typed'
  <2>1. want' \in [Procs -> Specs \X Specs]
    <3>1. PICK w \in Wants[p] : want' = [want EXCEPT ![p] = w]
      BY <1>1 DEF Begin
    <3>2. w \in Specs \X Specs
      BY <3>1
    <3> QED BY <3>1, <3>2 DEF TypeOK
  <2> QED BY <1>1, <2>1 DEF Begin, world, TypeOK, Label
<1>2. ASSUME NEW p \in Procs, Inspect(p) \/ WaitReady(p) \/ InitRegistry(p) \/ Has(p) \/ HasSchema(p)
                              \/ Fetch(p) \/ FinishDiff(p) \/ Raise(p)
      PROVE  Typed'
  <2>1. UNCHANGED <<world, local>>
    BY <1>2 DEF Inspect, WaitReady, InitRegistry, Has, HasSchema, Fetch, FinishDiff, Raise
  <2>2. \E label \in (Label \ {"load"}) \cup {"idle"} : pc' = [pc EXCEPT ![p] = label]
    BY <1>2 DEF Inspect, WaitReady, InitRegistry, Has, HasSchema, Fetch, FinishDiff, Raise, Label
  <2> QED BY <2>1, <2>2 DEF world, local, TypeOK
<1>3. ASSUME NEW p \in Procs, Remove(p)
      PROVE  Typed'
  BY <1>3 DEF Remove, RemoveContainer, Nothing, local, TypeOK, Label
<1>4. ASSUME NEW p \in Procs, Run(p) \/ MapPort(p)
      PROVE  Typed'
  <2>1. CASE Run(p)
    <3>1. gen' \in Nat
      BY <2>1 DEF Run, TypeOK
    <3> QED BY <2>1, <3>1 DEF Run, local, TypeOK, Label
  <2>2. CASE MapPort(p)
    <3>1. cont' \in [Procs -> Nat]
      BY <2>2 DEF MapPort, TypeOK
    <3> QED BY <2>2, <3>1 DEF MapPort, world, TypeOK, Label
  <2> QED BY <1>4, <2>1, <2>2
<1>5. ASSUME NEW p \in Procs, Touch(p)
      PROVE  Typed'
  <2>1. clock' \in Nat /\ clock' >= clock
    BY <1>5 DEF Touch, Now, TypeOK
  <2>2. DOMAIN registry' \subseteq Schema /\ \A x \in DOMAIN registry' : registry'[x] \in 0..clock'
    <3>1. CASE SchemaOf(p) \in DOMAIN registry
      BY <1>5, <2>1, <3>1, OfTyped, RegistryPut DEF Touch
    <3>2. CASE SchemaOf(p) \notin DOMAIN registry
      BY <1>5, <2>1, <3>2 DEF Touch, TypeOK
    <3> QED BY <3>1, <3>2
  <2> QED BY <1>5, <2>1, <2>2 DEF Touch, Return, TypeOK, Label
<1>6. ASSUME NEW p \in Procs, DropDatabase(p) \/ EvictDatabase(p)
      PROVE  Typed'
  <2>1. CASE DropDatabase(p)
    <3>1. /\ DOMAIN content' \subseteq Schema
          /\ \A s \in DOMAIN content' : content'[s] \in [1..Parts -> Specs \cup {Missing}]
      BY <2>1 DEF DropDatabase, Without, TypeOK
    <3> QED BY <2>1, <3>1 DEF DropDatabase, local, TypeOK, Label
  <2>2. CASE EvictDatabase(p)
    <3>1. PICK s \in victims[p] : /\ content' = Without(content, s)
                                  /\ victims' = [victims EXCEPT ![p] = @ \ {s}]
                                  /\ dropping' = [dropping EXCEPT ![p] = {s}]
      BY <2>2 DEF EvictDatabase
    <3>2. /\ DOMAIN content' \subseteq Schema
          /\ \A x \in DOMAIN content' : content'[x] \in [1..Parts -> Specs \cup {Missing}]
      BY <3>1 DEF Without, TypeOK
    <3>3. victims[p] \subseteq Schema
      BY DEF TypeOK
    <3>4. victims' \in [Procs -> SUBSET Schema] /\ dropping' \in [Procs -> SUBSET Schema]
      BY <3>1, <3>3 DEF TypeOK
    <3> QED BY <2>2, <3>2, <3>4 DEF EvictDatabase, TypeOK, Label
  <2> QED BY <1>6, <2>1, <2>2
<1>7. ASSUME NEW p \in Procs, DeleteRow(p) \/ EvictRow(p)
      PROVE  Typed'
  BY <1>7 DEF DeleteRow, EvictRow, Without, local, TypeOK, Label
<1>8. ASSUME NEW p \in Procs, CreateDatabase(p)
      PROVE  Typed'
  <2>1. DOMAIN content' \subseteq Schema
        /\ \A s \in DOMAIN content' : content'[s] \in [1..Parts -> Specs \cup {Missing}]
    BY <1>8, OfTyped DEF CreateDatabase, Put, TypeOK
  <2>2. loaded' \in [Procs -> 0..Parts] /\ loaded' = [loaded EXCEPT ![p] = 0]
    BY <1>8 DEF CreateDatabase, TypeOK
  <2>3. LoadInBounds'
    BY <1>8, <2>2 DEF CreateDatabase, TypeOK
  <2> QED BY <1>8, <2>1, <2>2, <2>3 DEF CreateDatabase, TypeOK, Label
<1>9. ASSUME NEW p \in Procs, LoadTable(p)
      PROVE  Typed'
  <2>1. /\ DOMAIN content' = DOMAIN content
        /\ \A s \in DOMAIN content : content[s] \in [1..Parts -> Specs \cup {Missing}]
        /\ Of(p) \in Specs
        /\ content' = [content EXCEPT ![SchemaOf(p)] = [content[SchemaOf(p)] EXCEPT ![loaded[p] + 1] = Of(p)]]
    BY <1>9, OfTyped DEF LoadTable, TypeOK
  <2>2. \A s \in DOMAIN content' : content'[s] \in [1..Parts -> Specs \cup {Missing}]
    BY <2>1
  <2>3. loaded[p] \in 0..Parts /\ loaded[p] < Parts
    BY <1>9 DEF LoadTable, TypeOK
  <2>4. loaded' \in [Procs -> 0..Parts]
    BY <1>9, <2>3 DEF LoadTable, TypeOK
  <2>5. loaded' = [loaded EXCEPT ![p] = loaded[p] + 1]
        /\ pc' = [pc EXCEPT ![p] = IF loaded[p] + 1 = Parts THEN "register" ELSE "load"]
    BY <1>9 DEF LoadTable
  <2>6. LoadInBounds'
    BY <2>3, <2>5 DEF TypeOK
  <2> QED BY <1>9, <2>1, <2>2, <2>4, <2>6 DEF LoadTable, TypeOK, Label
<1>10. ASSUME NEW p \in Procs, Register(p)
       PROVE  Typed'
  <2>1. clock' \in Nat /\ clock' >= clock
    BY <1>10 DEF Register, Now, TypeOK
  <2>2. DOMAIN registry' \subseteq Schema /\ \A x \in DOMAIN registry' : registry'[x] \in 0..clock'
    BY <1>10, <2>1, OfTyped, RegistryPut DEF Register
  <2> QED BY <1>10, <2>1, <2>2 DEF Register, local, TypeOK, Label
<1>11. ASSUME NEW p \in Procs, Unlink(p)
       PROVE  Typed'
  BY <1>11 DEF Unlink, local, TypeOK, Label
<1>12. ASSUME NEW p \in Procs, SelectVictims(p)
       PROVE  Typed'
  BY <1>12 DEF SelectVictims, world, TypeOK, Label
<1>13. ASSUME NEW p \in Procs, Evicted(p)
       PROVE  Typed'
  BY <1>13 DEF Evicted, Return, world, TypeOK, Label
<1>14. CASE Clear
  BY <1>14 DEF Clear, RemoveContainer, Nothing, TypeOK
<1>15. CASE AcceptConnections \/ Stop
  BY <1>15 DEF AcceptConnections, Stop, local, TypeOK
<1>16. CASE UNCHANGED vars
  BY <1>16 DEF vars, world, local, TypeOK
<1> QED
  BY <1>1, <1>2, <1>3, <1>4, <1>5, <1>6, <1>7, <1>8, <1>9, <1>10, <1>11, <1>12, <1>13, <1>14,
     <1>15, <1>16
  DEF Next, Ensure

\* Every state of the container, the registry and the processes is typed.
THEOREM TypeCorrect == Spec => []TypeOK
<1>1. Init => Typed
  BY TypeInit
<1>2. Typed /\ [Next]_vars => Typed'
  BY TypeStep
<1>3. Typed => TypeOK
  BY DEF Typed
<1> QED BY <1>1, <1>2, <1>3, PTL DEF Spec

-----------------------------------------------------------------------------
(* A registered snapshot is whole, when commands do not overlap: the command *)
(* that acts is the only one past "idle", so nobody fills or drops a         *)
(* database while another believes it restored.                              *)

Steps(p) == Ensure(p) \/ FinishDiff(p) \/ Raise(p)

Filling == {"create", "load", "register"}

LEMMA OthersIdle ==
  ASSUME IInv, NEW p \in Procs, Steps(p)
  PROVE  /\ pc[p] # "idle"
         /\ \A q \in Procs \ {p} : pc[q] = "idle" /\ pc'[q] = "idle"
<1>1. pc[p] # "idle"
  BY DEF Steps, Ensure, At, Inspect, Remove, Run, MapPort, WaitReady, InitRegistry, Has, HasSchema,
     Touch, Fetch, DropDatabase, DeleteRow, CreateDatabase, LoadTable, Register, Unlink,
     SelectVictims, EvictDatabase, EvictRow, Evicted, FinishDiff, Raise
<1>2. \A q \in Procs \ {p} : pc[q] = "idle"
  BY <1>1 DEF IInv, OneAtATime, At
<1>3. \E label : pc' = [pc EXCEPT ![p] = label]
  BY DEF Steps, Ensure, GoTo, Return, Inspect, Remove, Run, MapPort, WaitReady, InitRegistry, Has,
     HasSchema, Touch, Fetch, DropDatabase, DeleteRow, CreateDatabase, LoadTable, Register, Unlink,
     SelectVictims, EvictDatabase, EvictRow, Evicted, FinishDiff, Raise
<1>4. pc \in [Procs -> Label \cup {"idle"}]
  BY DEF IInv, TypeOK
<1> QED BY <1>1, <1>2, <1>3, <1>4

\* Only the process that acts can be filling a database.
LEMMA IdleRestoresNothing ==
  ASSUME NEW q \in Procs, pc'[q] \notin Filling
  PROVE  Restoring(q)'
  BY DEF Restoring, At, Filling

LEMMA StaysWhole ==
  ASSUME RegisteredIsWhole, DOMAIN registry' \subseteq DOMAIN registry,
         DOMAIN content' \subseteq DOMAIN content, \A s \in DOMAIN content' : content'[s] = content[s]
  PROVE  RegisteredIsWhole'
  BY DEF RegisteredIsWhole, Whole

\* The steps that neither fill a database nor register one.
LEMMA QuietSteps ==
  ASSUME IInv, NEW p \in Procs, Steps(p),
         ~(DeleteRow(p) \/ CreateDatabase(p) \/ LoadTable(p) \/ Register(p))
  PROVE  RegisteredIsWhole' /\ Restoring(p)'
<1> USE DEF IInv
<1>1. pc'[p] \notin Filling
  BY DEF Steps, Ensure, Filling, TypeOK, GoTo, Return, Inspect, Remove, Run, MapPort, WaitReady,
     InitRegistry, Has, HasSchema, Touch, Fetch, DropDatabase, Unlink, SelectVictims,
     EvictDatabase, EvictRow, Evicted, FinishDiff, Raise
<1>2. CASE Inspect(p) \/ Run(p) \/ MapPort(p) \/ WaitReady(p) \/ InitRegistry(p) \/ Has(p)
           \/ HasSchema(p) \/ Fetch(p) \/ Unlink(p) \/ SelectVictims(p) \/ Evicted(p)
           \/ FinishDiff(p) \/ Raise(p)
  <2>1. UNCHANGED <<content, registry>>
    BY <1>2 DEF world, Inspect, Run, MapPort, WaitReady, InitRegistry, Has, HasSchema, Fetch, Unlink,
       SelectVictims, Evicted, FinishDiff, Raise
  <2> QED BY <2>1, <1>1, StaysWhole, IdleRestoresNothing
<1>3. CASE Remove(p)
  <2>1. DOMAIN content' = {}
    BY <1>3 DEF Remove, RemoveContainer, Nothing
  <2>2. RegisteredIsWhole'
    BY <2>1 DEF RegisteredIsWhole
  <2> QED BY <2>2, <1>1, IdleRestoresNothing
<1>4. CASE Touch(p)
  <2>1. DOMAIN registry' = DOMAIN registry /\ UNCHANGED content
    BY <1>4 DEF Touch, Put
  <2> QED BY <2>1, <1>1, StaysWhole, IdleRestoresNothing
<1>5. CASE DropDatabase(p) \/ EvictDatabase(p)
  <2>1. /\ UNCHANGED registry
        /\ \E s \in Schema : content' = Without(content, s)
    <3>1. SchemaOf(p) \in Schema /\ victims[p] \subseteq Schema
      BY OfTyped DEF TypeOK
    <3> QED BY <1>5, <3>1 DEF DropDatabase, EvictDatabase
  <2>2. DOMAIN content' \subseteq DOMAIN content /\ \A s \in DOMAIN content' : content'[s] = content[s]
    BY <2>1 DEF Without
  <2> QED BY <2>1, <2>2, <1>1, StaysWhole, IdleRestoresNothing
<1>6. CASE EvictRow(p)
  <2>1. DOMAIN registry' \subseteq DOMAIN registry /\ UNCHANGED content
    BY <1>6 DEF EvictRow
  <2> QED BY <2>1, <1>1, StaysWhole, IdleRestoresNothing
<1> QED BY <1>2, <1>3, <1>4, <1>5, <1>6 DEF Steps, Ensure

\* The four steps of a miss between the drop of the old snapshot and the
\* registration of the new one.
LEMMA FillingSteps ==
  ASSUME IInv, NEW p \in Procs, DeleteRow(p) \/ CreateDatabase(p) \/ LoadTable(p) \/ Register(p)
  PROVE  RegisteredIsWhole' /\ Restoring(p)'
<1> USE DEF IInv
<1> DEFINE s == SchemaOf(p)
<1>0. Of(p)' = Of(p) /\ s' = s /\ Of(p) \in Specs
  BY OfTyped DEF Of, SchemaOf, DeleteRow, CreateDatabase, LoadTable, Register, local
<1>1. CASE DeleteRow(p)
  <2>1. DOMAIN registry' = DOMAIN registry \ {s} /\ UNCHANGED content
    BY <1>1 DEF DeleteRow, Without
  <2>2. pc'[p] = "create"
    BY <1>1 DEF DeleteRow, GoTo, TypeOK
  <2>3. Restoring(p)'
    BY <2>1, <2>2, <1>0 DEF Restoring, At
  <2> QED BY <2>1, <2>3, StaysWhole
<1>2. CASE CreateDatabase(p)
  <2>1. UNCHANGED registry /\ s \notin DOMAIN registry
    BY <1>2 DEF CreateDatabase, Restoring, At
  <2>2. \A x \in DOMAIN content' \ {s} : x \in DOMAIN content /\ content'[x] = content[x]
    BY <1>2 DEF CreateDatabase, Put
  <2>3. RegisteredIsWhole'
    BY <2>1, <2>2 DEF RegisteredIsWhole, Whole
  <2>4. pc'[p] = "load" /\ loaded'[p] = 0
    BY <1>2 DEF CreateDatabase, GoTo, TypeOK
  <2>5. Restoring(p)'
    BY <2>1, <2>4, <1>0 DEF Restoring, At
  <2> QED BY <2>3, <2>5
<1>3. CASE LoadTable(p)
  <2>1. UNCHANGED registry /\ s \notin DOMAIN registry
    BY <1>3 DEF LoadTable, Restoring, At
  <2>2. /\ content' = [content EXCEPT ![s] = [content[s] EXCEPT ![loaded[p] + 1] = Of(p)]]
        /\ s \in DOMAIN content
        /\ content[s] \in [1..Parts -> Specs \cup {Missing}]
    BY <1>3 DEF LoadTable, TypeOK
  <2>3. RegisteredIsWhole'
    BY <2>1, <2>2 DEF RegisteredIsWhole, Whole
  <2>4. loaded[p] \in 0..Parts /\ loaded'[p] = loaded[p] + 1 /\ loaded[p] < Parts
    BY <1>3 DEF LoadTable, LoadInBounds, At, TypeOK
  <2>5. /\ content'[s] = [content[s] EXCEPT ![loaded[p] + 1] = Of(p)]
        /\ content'[s] \in [1..Parts -> Specs \cup {Missing}]
    BY <2>2, <1>0
  <2>6. \A i \in 1..loaded[p] : content[s][i] = Of(p)
    BY <1>3, <2>2 DEF Restoring, LoadTable, At
  <2>7. \A i \in 1..(loaded[p] + 1) : content'[s][i] = Of(p)
    BY <2>2, <2>4, <2>5, <2>6, SnapshotCacheAssumption
  <2>8. pc'[p] = IF loaded[p] + 1 = Parts THEN "register" ELSE "load"
    BY <1>3 DEF LoadTable, GoTo, TypeOK
  <2>9. loaded[p] + 1 = Parts => content'[s] = Whole(Of(p))
    BY <2>5, <2>7 DEF Whole
  <2>10. Restoring(p)'
    BY <2>1, <2>4, <2>7, <2>8, <2>9, <1>0 DEF Restoring, At, Whole
  <2> QED BY <2>3, <2>10
<1>4. CASE Register(p)
  <2>1. DOMAIN registry' = DOMAIN registry \cup {s} /\ UNCHANGED content
    BY <1>4 DEF Register, Put
  <2>2. s \in DOMAIN content => content[s] = Whole(Of(p))
    BY <1>4 DEF Register, Restoring, At
  <2>3. s = Name[Of(p)]
    BY DEF SchemaOf
  <2>4. RegisteredIsWhole'
    BY <2>1, <2>2, <2>3, <1>0 DEF RegisteredIsWhole, Whole
  <2>5. pc'[p] = "unlink"
    BY <1>4 DEF Register, GoTo, TypeOK
  <2> QED BY <2>4, <2>5, IdleRestoresNothing DEF Filling
<1> QED BY <1>1, <1>2, <1>3, <1>4

LEMMA IInvInit == Init => IInv
<1> SUFFICES ASSUME Init PROVE IInv
  OBVIOUS
<1>1. TypeOK /\ LoadInBounds
  BY TypeInit DEF Typed
<1> QED BY <1>1 DEF Init, IInv, OneAtATime, RegisteredIsWhole, Restoring, At, Nothing

LEMMA IInvStep ==
  ASSUME Serial, IInv, [Next]_vars
  PROVE  IInv'
<1>1. TypeOK' /\ LoadInBounds'
  BY TypeStep DEF IInv, Typed
<1>2. ASSUME NEW p \in Procs, Begin(p)
      PROVE  OneAtATime' /\ RegisteredIsWhole' /\ \A q \in Procs : Restoring(q)'
  <2>1. /\ \A q \in Procs : pc[q] = "idle"
        /\ pc' = [pc EXCEPT ![p] = "inspect"]
        /\ UNCHANGED <<content, registry>>
    BY <1>2, Zenon DEF Begin, GoTo, At, world
  <2>2. \A q \in Procs : pc'[q] \in {"idle", "inspect"} /\ (q # p => pc'[q] = "idle")
    BY <2>1 DEF IInv, TypeOK
  <2>3. \A q \in Procs : Restoring(q)'
    BY <2>2, IdleRestoresNothing DEF Filling
  <2>4. OneAtATime'
    BY <2>2 DEF OneAtATime, At
  <2>5. RegisteredIsWhole'
    BY <2>1, StaysWhole DEF IInv
  <2> QED BY <2>3, <2>4, <2>5
<1>3. ASSUME NEW p \in Procs, Steps(p)
      PROVE  OneAtATime' /\ RegisteredIsWhole' /\ \A q \in Procs : Restoring(q)'
  <2>1. \A q \in Procs \ {p} : pc'[q] = "idle"
    BY <1>3, OthersIdle
  <2>2. OneAtATime'
    BY <2>1 DEF OneAtATime, At
  <2>3. \A q \in Procs \ {p} : Restoring(q)'
    BY <2>1, IdleRestoresNothing DEF Filling
  <2>4. RegisteredIsWhole' /\ Restoring(p)'
    BY <1>3, QuietSteps, FillingSteps
  <2> QED BY <2>2, <2>3, <2>4
<1>4. ASSUME Clear
      PROVE  OneAtATime' /\ RegisteredIsWhole' /\ \A q \in Procs : Restoring(q)'
  <2>1. DOMAIN content' = {} /\ UNCHANGED pc /\ \A q \in Procs : pc[q] = "idle"
    BY <1>4, Zenon DEF Clear, RemoveContainer, Nothing, At
  <2>2. \A q \in Procs : Restoring(q)'
    BY <2>1, IdleRestoresNothing DEF Filling
  <2> QED BY <2>1, <2>2 DEF RegisteredIsWhole, OneAtATime, At
<1>5. ASSUME AcceptConnections \/ Stop \/ UNCHANGED vars
      PROVE  OneAtATime' /\ RegisteredIsWhole' /\ \A q \in Procs : Restoring(q)'
  <2>1. UNCHANGED <<content, registry, pc, loaded, want, side>>
    BY <1>5 DEF AcceptConnections, Stop, vars, world, local
  <2>2. OneAtATime'
    BY <2>1, Zenon DEF IInv, OneAtATime, At
  <2>3. RegisteredIsWhole'
    BY <2>1, StaysWhole DEF IInv
  <2>4. \A q \in Procs : Restoring(q)'
    BY <2>1 DEF IInv, Restoring, At, Of, SchemaOf, Whole
  <2> QED BY <2>2, <2>3, <2>4
<1> QED BY <1>1, <1>2, <1>3, <1>4, <1>5 DEF Next, Steps, IInv

\* The registry, the databases and the command that acts agree, when commands
\* do not overlap.
THEOREM Invariance == ASSUME Serial PROVE Spec => []IInv
<1>1. Init => IInv
  BY IInvInit
<1>2. IInv /\ [Next]_vars => IInv'
  BY IInvStep
<1> QED BY <1>1, <1>2, PTL DEF Spec

\* When commands do not overlap, whatever fails and whoever is killed in
\* between, a snapshot that is registered and has a database is a whole
\* restore of a dump of its name: a hit never takes a partial restore.
THEOREM HitsAreWhole == ASSUME Serial PROVE Spec => []RegisteredIsWhole
<1>1. IInv => RegisteredIsWhole
  BY DEF IInv
<1> QED BY <1>1, Invariance, PTL

-----------------------------------------------------------------------------
(* The eviction brings the registry under the cap and takes nothing away    *)
(* from the command that evicts.                                            *)

Evicting == {"evict", "evict_row"}
Missing1 == {"fetch", "drop", "unregister", "create", "load", "register"}
Registered == {"unlink", "select"} \cup Evicting

-----------------------------------------------------------------------------
(* The invariant of the cap.                                                *)

\* What has just been registered was used later than anything else.
Newest(p) ==
  pc[p] \in {"unlink", "select"} =>
    /\ SchemaOf(p) \in DOMAIN registry
    /\ \A s \in DOMAIN registry \ {SchemaOf(p)} : registry[s] < registry[SchemaOf(p)]

\* What is not a victim stays under the cap.
UnderCap(p) ==
  /\ pc[p] \notin {"idle", "evict_row"} => dropping[p] = {}
  /\ pc[p] \in Evicting =>
       /\ SchemaOf(p) \notin victims[p] \cup dropping[p]
       /\ Cardinality(DOMAIN registry \ (victims[p] \cup dropping[p])) <= MaxSnapshots

CapInv ==
  /\ IInv
  /\ IsFiniteSet(DOMAIN registry)
  /\ \A p \in Procs : Newest(p) /\ UnderCap(p)

-----------------------------------------------------------------------------
(* ordered[max_snapshots:]                                                  *)

LEMMA VictimsCounted ==
  ASSUME IsFiniteSet(DOMAIN registry), NEW V \in SUBSET DOMAIN registry, OverCap(V)
  PROVE  /\ Cardinality(DOMAIN registry \ V) <= MaxSnapshots
         /\ V # {} => Cardinality(DOMAIN registry \ V) = MaxSnapshots
<1> DEFINE R == DOMAIN registry
<1>1. Cardinality(R) \in Nat /\ MaxSnapshots \in Nat
  BY FS_CardinalityType, SnapshotCacheAssumption
<1>2. IsFiniteSet(V) /\ Cardinality(V) \in Nat /\ (Cardinality(V) = 0 <=> V = {})
  BY FS_Subset, FS_CardinalityType, FS_EmptySet
<1>3. Cardinality(R \ V) = Cardinality(R) - Cardinality(V)
  <2>1. R \cap V = V
    OBVIOUS
  <2> QED BY <2>1, FS_Difference
<1> QED BY <1>1, <1>2, <1>3 DEF OverCap

\* The snapshot that was used last is none of the victims, nor is the one
\* before it if the cap leaves room for two.
LEMMA LatestStays ==
  ASSUME TypeOK, IsFiniteSet(DOMAIN registry),
         NEW V \in SUBSET DOMAIN registry, OverCap(V),
         NEW s \in DOMAIN registry, NEW t,
         \A x \in DOMAIN registry \ {s, t} : registry[x] < registry[s],
         MaxSnapshots >= 1, s # t => MaxSnapshots >= 2
  PROVE  s \notin V
<1> SUFFICES ASSUME s \in V PROVE FALSE
  OBVIOUS
<1> DEFINE R == DOMAIN registry
<1>1. R \ V \subseteq {t} \ {s}
  <2> SUFFICES ASSUME NEW x \in R \ V, x # t PROVE FALSE
    OBVIOUS
  <2>1. registry[x] < registry[s] /\ registry[s] <= registry[x]
    BY DEF OverCap
  <2>2. registry[x] \in Nat /\ registry[s] \in Nat
    BY DEF TypeOK
  <2> QED BY <2>1, <2>2
<1>2. Cardinality(R \ V) = MaxSnapshots
  BY VictimsCounted
<1>3. MaxSnapshots \in Nat
  BY SnapshotCacheAssumption
<1>4. CASE s = t
  <2>1. R \ V = {}
    BY <1>1, <1>4
  <2> QED BY <2>1, <1>2, FS_EmptySet
<1>5. CASE s # t
  <2>1. R \ V \subseteq {t}
    BY <1>1
  <2>2. Cardinality(R \ V) <= 1
    <3>1. IsFiniteSet({t}) /\ Cardinality({t}) = 1
      BY FS_Singleton
    <3> HIDE DEF R
    <3> QED BY <2>1, <3>1, FS_Subset
  <2> QED BY <1>2, <1>3, <1>5, <2>2
<1> QED BY <1>4, <1>5

-----------------------------------------------------------------------------
(* The cap.                                                                 *)

LEMMA RegistryFinite ==
  ASSUME IsFiniteSet(DOMAIN registry), [Next]_vars
  PROVE  IsFiniteSet(DOMAIN registry')
<1>1. \E s : DOMAIN registry' \subseteq DOMAIN registry \cup {s}
  <2>1. ASSUME NEW p \in Procs, Steps(p)
        PROVE  \E s : DOMAIN registry' \subseteq DOMAIN registry \cup {s}
    <3>1. CASE Touch(p) \/ Register(p)
      BY <3>1 DEF Touch, Register, Put
    <3>2. CASE DeleteRow(p) \/ EvictRow(p)
      BY <3>2 DEF DeleteRow, EvictRow, Without
    <3>3. CASE Remove(p)
      BY <3>3 DEF Remove, RemoveContainer, Nothing
    <3>4. CASE ~(Touch(p) \/ Register(p) \/ DeleteRow(p) \/ EvictRow(p) \/ Remove(p))
      <4>1. UNCHANGED registry
        BY <2>1, <3>4 DEF Steps, Ensure, Inspect, Run, MapPort, WaitReady, InitRegistry, Has,
           HasSchema, Fetch, DropDatabase, CreateDatabase, LoadTable, Unlink, SelectVictims,
           EvictDatabase, Evicted, FinishDiff, Raise, world
      <4> QED BY <4>1
    <3> QED BY <3>1, <3>2, <3>3, <3>4
  <2>2. ASSUME NEW p \in Procs, Begin(p)
        PROVE  UNCHANGED registry
    BY <2>2 DEF Begin, world
  <2>3. CASE Clear
    BY <2>3 DEF Clear, RemoveContainer, Nothing
  <2>4. CASE AcceptConnections \/ Stop \/ UNCHANGED vars
    BY <2>4 DEF AcceptConnections, Stop, vars, world
  <2> QED BY <2>1, <2>2, <2>3, <2>4 DEF Next, Steps
<1> QED BY <1>1, FS_AddElement, FS_Subset

\* A step of the running command.
LEMMA NewestStep ==
  ASSUME CapInv, ~Ties, NEW p \in Procs, Steps(p)
  PROVE  Newest(p)'
<1> USE DEF CapInv, IInv
<1> DEFINE s == SchemaOf(p)
<1>1. CASE Register(p)
  <2>1. clock \in Nat /\ clock' = clock + 1 /\ \A x \in DOMAIN registry : registry[x] \in 0..clock
    BY <1>1 DEF Register, Now, TypeOK
  <2>2. registry' = Put(registry, s, clock') /\ s' = s
    BY <1>1 DEF Register, local, SchemaOf, Of
  <2>3. s \in DOMAIN registry' /\ \A x \in DOMAIN registry' \ {s} : registry'[x] < registry'[s]
    BY <2>1, <2>2 DEF Put
  <2> QED BY <2>2, <2>3 DEF Newest
<1>2. CASE Unlink(p)
  <2>1. UNCHANGED registry /\ s' = s /\ pc[p] = "unlink"
    BY <1>2 DEF Unlink, local, SchemaOf, Of, At
  <2> QED BY <2>1 DEF Newest
<1>3. CASE ~(Register(p) \/ Unlink(p))
  <2>1. pc'[p] \notin {"unlink", "select"}
    BY <1>3 DEF Steps, Ensure, TypeOK, GoTo, Return, Inspect, Remove, Run, MapPort, WaitReady,
       InitRegistry, Has, HasSchema, Touch, Fetch, DropDatabase, DeleteRow, CreateDatabase, LoadTable,
       SelectVictims, EvictDatabase, EvictRow, Evicted, FinishDiff, Raise
  <2> QED BY <2>1 DEF Newest
<1> QED BY <1>1, <1>2, <1>3

LEMMA UnderCapStep ==
  ASSUME CapInv, MaxSnapshots >= 1, NEW p \in Procs, Steps(p)
  PROVE  UnderCap(p)'
<1> USE DEF CapInv, IInv
<1> DEFINE s == SchemaOf(p)
           R == DOMAIN registry
<1>1. CASE SelectVictims(p)
  <2>1. PICK V \in SUBSET R : OverCap(V) /\ victims' = [victims EXCEPT ![p] = V \ {s}]
    BY <1>1 DEF SelectVictims
  <2>2. pc[p] = "select" /\ dropping[p] = {} /\ UNCHANGED <<registry, dropping>> /\ s' = s
    BY <1>1 DEF SelectVictims, At, UnderCap, world, SchemaOf, Of
  <2>3. s \notin V
    BY <2>1, <2>2, LatestStays DEF Newest
  <2>4. victims'[p] = V
    BY <2>1, <2>3 DEF TypeOK
  <2>5. Cardinality(R \ V) <= MaxSnapshots
    BY <2>1, VictimsCounted
  <2>6. victims'[p] \cup dropping'[p] = V
    BY <2>2, <2>4
  <2> QED BY <2>2, <2>3, <2>5, <2>6 DEF UnderCap
<1>2. CASE EvictDatabase(p)
  <2>1. PICK v \in victims[p] : /\ victims' = [victims EXCEPT ![p] = @ \ {v}]
                                /\ dropping' = [dropping EXCEPT ![p] = {v}]
    BY <1>2 DEF EvictDatabase
  <2>2. /\ pc[p] = "evict" /\ dropping[p] = {} /\ UNCHANGED registry /\ s' = s
        /\ pc'[p] = "evict_row"
    BY <1>2 DEF EvictDatabase, At, GoTo, UnderCap, SchemaOf, Of, TypeOK
  <2>3. victims'[p] \cup dropping'[p] = victims[p] \cup dropping[p]
    BY <2>1, <2>2 DEF TypeOK
  <2> QED BY <2>2, <2>3 DEF UnderCap, Evicting
<1>3. CASE EvictRow(p)
  <2>1. /\ pc[p] = "evict_row" /\ s' = s /\ UNCHANGED victims
        /\ DOMAIN registry' = R \ dropping[p] /\ dropping'[p] = {}
    BY <1>3 DEF EvictRow, At, SchemaOf, Of, TypeOK
  <2>2. DOMAIN registry' \ (victims'[p] \cup dropping'[p]) = R \ (victims[p] \cup dropping[p])
    BY <2>1
  <2> QED BY <2>1, <2>2 DEF UnderCap, Evicting
<1>4. CASE ~(SelectVictims(p) \/ EvictDatabase(p) \/ EvictRow(p))
  <2>1. pc'[p] \notin Evicting /\ UNCHANGED dropping /\ (pc'[p] # "idle" => pc[p] \notin {"idle", "evict_row"})
    BY <1>4 DEF Evicting, Steps, Ensure, TypeOK, At, GoTo, Return, Inspect, Remove, Run, MapPort,
       WaitReady, InitRegistry, Has, HasSchema, Touch, Fetch, DropDatabase, DeleteRow, CreateDatabase,
       LoadTable, Register, Unlink, Evicted, FinishDiff, Raise, local
  <2> QED BY <2>1 DEF UnderCap
<1> QED BY <1>1, <1>2, <1>3, <1>4

LEMMA CapInit == Init => CapInv
  BY IInvInit, FS_EmptySet DEF Init, CapInv, Newest, UnderCap, Evicting, Nothing

LEMMA CapStep ==
  ASSUME Serial, ~Ties, MaxSnapshots >= 1, CapInv, [Next]_vars
  PROVE  CapInv'
<1>1. IInv' /\ IsFiniteSet(DOMAIN registry')
  BY IInvStep, RegistryFinite DEF CapInv
<1>2. ASSUME NEW p \in Procs, Begin(p), NEW q \in Procs
      PROVE  Newest(q)' /\ UnderCap(q)'
  <2>1. /\ pc'[q] \in {"idle", "inspect"}
        /\ pc'[q] # "idle" => dropping'[q] = {}
    <3>1. pc[q] = "idle" /\ pc' = [pc EXCEPT ![p] = "inspect"] /\ dropping' = [dropping EXCEPT ![p] = {}]
      BY <1>2, Zenon DEF Begin, GoTo, At
    <3> QED BY <3>1 DEF CapInv, IInv, TypeOK
  <2> QED BY <2>1 DEF Newest, UnderCap, Evicting
<1>3. ASSUME NEW p \in Procs, Steps(p), NEW q \in Procs
      PROVE  Newest(q)' /\ UnderCap(q)'
  <2>1. CASE q = p
    BY <1>3, <2>1, NewestStep, UnderCapStep
  <2>2. CASE q # p
    <3>1. pc'[q] = "idle"
      BY <1>3, <2>2, OthersIdle DEF CapInv
    <3> QED BY <3>1 DEF Newest, UnderCap, Evicting
  <2> QED BY <2>1, <2>2
<1>4. ASSUME Clear, NEW q \in Procs
      PROVE  Newest(q)' /\ UnderCap(q)'
  <2>1. pc'[q] = "idle"
    BY <1>4, Zenon DEF Clear, At
  <2> QED BY <2>1 DEF Newest, UnderCap, Evicting
<1>5. ASSUME AcceptConnections \/ Stop \/ UNCHANGED vars, NEW q \in Procs
      PROVE  Newest(q)' /\ UnderCap(q)'
  <2>1. UNCHANGED <<registry, pc, want, side, victims, dropping>>
    BY <1>5 DEF AcceptConnections, Stop, vars, world, local
  <2> QED BY <2>1 DEF CapInv, Newest, UnderCap, SchemaOf, Of
<1> QED BY <1>1, <1>2, <1>3, <1>4, <1>5 DEF Next, Steps, CapInv

\* After a miss the registry is under the cap again, whatever earlier commands
\* that were killed had left over it, for any snapshots and any cap of one or
\* more, when commands do not overlap and no two uses get one time.
THEOREM CapHolds ==
  ASSUME Serial, ~Ties, MaxSnapshots >= 1
  PROVE  Spec => []CapHoldsAfterMiss
<1>1. Init => CapInv
  BY CapInit
<1>2. CapInv /\ [Next]_vars => CapInv'
  BY CapStep
<1>3. CapInv => CapHoldsAfterMiss
  <2> SUFFICES ASSUME CapInv, NEW p \in Procs, At(p, "evict"), victims[p] = {}
               PROVE  Cardinality(DOMAIN registry) <= MaxSnapshots
    BY DEF CapHoldsAfterMiss
  <2>1. /\ dropping[p] = {}
        /\ Cardinality(DOMAIN registry \ (victims[p] \cup dropping[p])) <= MaxSnapshots
    BY DEF CapInv, UnderCap, Evicting, At
  <2>2. DOMAIN registry \ (victims[p] \cup dropping[p]) = DOMAIN registry
    BY <2>1
  <2> QED BY <2>1, <2>2
<1> QED BY <1>1, <1>2, <1>3, PTL DEF Spec

-----------------------------------------------------------------------------
(* The invariant of the diff.                                               *)

Wanted(p, i) == Name[want[p][i]]

Ready(p, i) ==
  /\ Wanted(p, i) \in DOMAIN content
  /\ content[Wanted(p, i)] = Whole(want[p][i])

\* The first side, once ensured, is whole, registered, and was used later than
\* anything but the second side.
FirstKept(p) ==
  pc[p] # "idle" /\ (side[p] = 2 \/ pc[p] \in Registered) =>
    /\ Ready(p, 1)
    /\ Wanted(p, 1) \in DOMAIN registry
    /\ \A s \in DOMAIN registry \ {Wanted(p, 1), Wanted(p, 2)} :
         registry[s] < registry[Wanted(p, 1)]
    /\ pc[p] \in Evicting => Wanted(p, 1) \notin victims[p] \cup dropping[p]

\* So is the second.
SecondKept(p) ==
  side[p] = 2 /\ pc[p] \in Registered \cup {"diff"} => Ready(p, 2)

\* Where a side is ensured.
Ensuring(p) ==
  /\ pc[p] = "diff" => side[p] = 2
  /\ pc[p] \in {"inspect", "rm", "run", "new_port", "port", "wait", "init"} => side[p] = 1
  /\ pc[p] \in {"has_schema", "touch"} => SchemaOf(p) \in DOMAIN registry
  /\ pc[p] \in {"touch", "register"} => SchemaOf(p) \in DOMAIN content
  /\ side[p] = 2 /\ pc[p] \in Missing1 => Wanted(p, 1) # Wanted(p, 2)

DiffInv == CapInv /\ \A p \in Procs : FirstKept(p) /\ SecondKept(p) /\ Ensuring(p)

-----------------------------------------------------------------------------
(* The steps of the running command.                                        *)

Kept(p) == FirstKept(p) /\ SecondKept(p) /\ Ensuring(p)

LEMMA SchemaOfSide ==
  ASSUME TypeOK, NEW p \in Procs
  PROVE  /\ side[p] \in {1, 2} /\ SchemaOf(p) = Wanted(p, side[p])
         /\ want[p][1] \in Specs /\ want[p][2] \in Specs
<1>1. want[p] \in Specs \X Specs /\ side[p] \in {1, 2}
  BY DEF TypeOK
<1> QED BY <1>1 DEF SchemaOf, Of, Wanted

\* The steps that leave every database and every row as they are.
LEMMA LookingKeeps ==
  ASSUME DiffInv, NEW p \in Procs,
         Inspect(p) \/ Run(p) \/ MapPort(p) \/ WaitReady(p) \/ InitRegistry(p) \/ Has(p)
         \/ HasSchema(p) \/ Fetch(p) \/ Unlink(p) \/ FinishDiff(p) \/ Raise(p)
  PROVE  Kept(p)'
<1> USE DEF DiffInv, CapInv, IInv
<1>1. UNCHANGED <<content, registry, want, side, victims, dropping>>
  BY DEF Inspect, Run, MapPort, WaitReady, InitRegistry, Has, HasSchema, Fetch, Unlink, FinishDiff,
     Raise, world, local
<1>2. /\ side[p] \in {1, 2} /\ SchemaOf(p) = Wanted(p, side[p])
      /\ SchemaOf(p)' = SchemaOf(p) /\ \A i \in {1, 2} : Wanted(p, i)' = Wanted(p, i)
  BY <1>1, SchemaOfSide DEF SchemaOf, Of, Wanted
<1>3. /\ pc[p] # "idle"
      /\ pc'[p] \in Registered => pc[p] \in Registered
      /\ pc'[p] \notin Evicting \cup {"diff"}
  BY DEF TypeOK, At, GoTo, Inspect, Run, MapPort, WaitReady, InitRegistry, Has, HasSchema, Fetch,
     Unlink, FinishDiff, Raise, Registered, Evicting
<1>4. FirstKept(p)'
  BY <1>1, <1>2, <1>3 DEF FirstKept, Ready, Whole
<1>5. SecondKept(p)'
  BY <1>1, <1>2, <1>3 DEF SecondKept, Ready, Whole
<1>6. Ensuring(p)'
  <2>1. CASE Has(p)
    <3>1. pc[p] = "has" /\ pc'[p] = IF SchemaOf(p) \in DOMAIN registry THEN "has_schema" ELSE "fetch"
      BY <2>1 DEF Has, At, GoTo, TypeOK
    <3> QED BY <3>1, <1>1, <1>2 DEF Ensuring, FirstKept, Missing1
  <2>2. CASE HasSchema(p)
    <3>1. /\ pc[p] = "has_schema"
          /\ pc'[p] = IF SchemaOf(p) \in DOMAIN content THEN "touch" ELSE "fetch"
      BY <2>2 DEF HasSchema, At, GoTo, TypeOK
    <3> QED BY <3>1, <1>1, <1>2 DEF Ensuring, FirstKept, Ready, Missing1
  <2>3. CASE Fetch(p)
    <3>1. pc[p] = "fetch" /\ pc'[p] = "drop"
      BY <2>3 DEF Fetch, At, GoTo, TypeOK
    <3> QED BY <3>1, <1>1, <1>2 DEF Ensuring, Missing1
  <2>4. CASE Inspect(p) \/ Run(p) \/ MapPort(p) \/ WaitReady(p) \/ InitRegistry(p)
    <3>1. /\ pc[p] \in {"inspect", "run", "new_port", "port", "wait", "init"}
          /\ pc'[p] \in {"rm", "port", "new_port", "wait", "init", "has"}
      BY <2>4 DEF Inspect, Run, MapPort, WaitReady, InitRegistry, At, GoTo, TypeOK
    <3> QED BY <3>1, <1>1, <1>2 DEF Ensuring, Missing1
  <2>5. CASE Unlink(p) \/ FinishDiff(p) \/ Raise(p)
    <3>1. pc'[p] \in {"idle", "select"}
      BY <2>5 DEF Unlink, FinishDiff, Raise, GoTo, TypeOK
    <3> QED BY <3>1 DEF Ensuring, Missing1
  <2> QED BY <2>1, <2>2, <2>3, <2>4, <2>5
<1> QED BY <1>4, <1>5, <1>6 DEF Kept

\* A hit.
LEMMA TouchKeeps ==
  ASSUME DiffInv, ~Ties, NEW p \in Procs, Touch(p),
         \A x, y \in Specs : Name[x] = Name[y] => x = y
  PROVE  Kept(p)'
<1> USE DEF DiffInv, CapInv, IInv
<1> DEFINE s == SchemaOf(p)
<1>1. /\ pc[p] = "touch" /\ UNCHANGED <<content, want>> /\ s \in DOMAIN registry /\ s \in DOMAIN content
      /\ clock' = clock + 1 /\ registry' = Put(registry, s, clock + 1)
  BY DEF Touch, At, Now, Ensuring
<1>2. pc'[p] = (IF side[p] = 1 THEN "has" ELSE "diff") /\ side'[p] = 2
  BY DEF Touch, Return, GoTo, TypeOK
<1>3. /\ side[p] \in {1, 2} /\ s = Wanted(p, side[p])
      /\ \A i \in {1, 2} : Wanted(p, i)' = Wanted(p, i)
  BY <1>1, SchemaOfSide DEF Wanted
<1>4. Ready(p, side[p])
  <2>1. PICK d \in Specs : Name[d] = s /\ content[s] = Whole(d)
    BY <1>1 DEF RegisteredIsWhole
  <2>2. d = want[p][side[p]]
    BY <2>1, <1>3, SchemaOfSide DEF Wanted
  <2> QED BY <2>1, <2>2, <1>1, <1>3 DEF Ready
<1>5. \A i \in {1, 2} : Ready(p, i) => Ready(p, i)'
  BY <1>1, <1>3 DEF Ready, Whole
<1>6. /\ DOMAIN registry' = DOMAIN registry
      /\ \A x \in DOMAIN registry : registry'[x] = IF x = s THEN clock + 1 ELSE registry[x]
      /\ \A x \in DOMAIN registry : registry[x] \in Nat /\ registry[x] < clock + 1
      /\ clock \in Nat
  <2>1. clock \in Nat /\ \A x \in DOMAIN registry : registry[x] \in 0..clock
    BY DEF TypeOK
  <2>2. registry' = [x \in DOMAIN registry |-> IF x = s THEN clock + 1 ELSE registry[x]]
    BY <1>1 DEF Put
  <2> HIDE DEF s
  <2> QED BY <2>1, <2>2
<1>7. Wanted(p, 1) \in DOMAIN registry /\ Ready(p, 1)
  BY <1>1, <1>3, <1>4 DEF FirstKept
<1>8. \A x \in DOMAIN registry \ {Wanted(p, 1), Wanted(p, 2)} : registry'[x] < registry'[Wanted(p, 1)]
  <2>1. CASE s = Wanted(p, 1)
    BY <2>1, <1>6, <1>7
  <2>2. CASE s # Wanted(p, 1)
    BY <2>2, <1>1, <1>3, <1>6, <1>7 DEF FirstKept
  <2> QED BY <2>1, <2>2
<1>9. FirstKept(p)'
  BY <1>2, <1>3, <1>5, <1>6, <1>7, <1>8 DEF FirstKept, Evicting
<1>10. SecondKept(p)'
  <2>1. CASE side[p] = 1
    BY <1>2, <2>1 DEF SecondKept, Registered, Evicting
  <2>2. CASE side[p] = 2
    BY <1>4, <1>5, <2>2 DEF SecondKept
  <2> QED BY <1>3, <2>1, <2>2
<1>11. Ensuring(p)'
  BY <1>2 DEF Ensuring, Missing1
<1> QED BY <1>9, <1>10, <1>11 DEF Kept

\* A miss, up to the registration.
LEMMA FillingKeeps ==
  ASSUME DiffInv, NEW p \in Procs,
         Remove(p) \/ DropDatabase(p) \/ DeleteRow(p) \/ CreateDatabase(p) \/ LoadTable(p)
  PROVE  Kept(p)'
<1> USE DEF DiffInv, CapInv, IInv
<1> DEFINE s == SchemaOf(p)
<1>1. /\ UNCHANGED <<want, side>> /\ side[p] \in {1, 2} /\ s = Wanted(p, side[p]) /\ s' = s
      /\ \A i \in {1, 2} : Wanted(p, i)' = Wanted(p, i)
  BY SchemaOfSide DEF Remove, DropDatabase, DeleteRow, CreateDatabase, LoadTable, local, SchemaOf, Of, Wanted
<1>2. CASE Remove(p)
  <2>1. pc[p] = "rm" /\ pc'[p] = "run" /\ side[p] = 1
    BY <1>2 DEF Remove, At, GoTo, TypeOK, Ensuring
  <2> QED BY <2>1, <1>1 DEF Kept, FirstKept, SecondKept, Ensuring, Registered, Evicting, Missing1
<1>3. CASE ~Remove(p)
  <2>1. /\ pc[p] \in Missing1 /\ pc[p] # "register"
        /\ pc'[p] \in Missing1
    BY <1>3 DEF DropDatabase, DeleteRow, CreateDatabase, LoadTable, At, GoTo, TypeOK, Missing1
  <2>2. pc'[p] \notin Registered \cup {"diff", "idle", "has_schema", "touch"}
    BY <2>1 DEF Missing1, Registered, Evicting
  <2>3. SecondKept(p)'
    BY <2>2 DEF SecondKept
  <2>4. Ensuring(p)'
    <3>1. side'[p] = 2 => Wanted(p, 1)' # Wanted(p, 2)'
      BY <2>1, <1>1 DEF Ensuring
    <3>2. pc'[p] = "register" => s' \in DOMAIN content'
      <4>1. CASE LoadTable(p)
        BY <4>1, <1>1 DEF LoadTable
      <4>2. CASE DropDatabase(p) \/ DeleteRow(p) \/ CreateDatabase(p)
        BY <4>2 DEF DropDatabase, DeleteRow, CreateDatabase, GoTo, TypeOK
      <4> QED BY <1>3, <4>1, <4>2
    <3> QED BY <2>1, <2>2, <3>1, <3>2 DEF Ensuring, Missing1
  <2>5. FirstKept(p)'
    <3>1. CASE side[p] = 1
      BY <3>1, <1>1, <2>2 DEF FirstKept
    <3>2. CASE side[p] = 2
      <4>1. Wanted(p, 1) # s /\ s = Wanted(p, 2) /\ FirstKept(p) /\ pc[p] # "idle"
        BY <3>2, <1>1, <2>1 DEF Ensuring, Missing1
      <4>2. /\ Wanted(p, 1) \in DOMAIN content'
            /\ content'[Wanted(p, 1)] = content[Wanted(p, 1)]
        BY <1>3, <3>2, <4>1 DEF FirstKept, Ready, DropDatabase, DeleteRow, CreateDatabase, LoadTable,
           Without, Put
      <4>3. /\ DOMAIN registry' \subseteq DOMAIN registry /\ Wanted(p, 1) \in DOMAIN registry'
            /\ \A x \in DOMAIN registry' : registry'[x] = registry[x]
        BY <1>3, <3>2, <4>1 DEF FirstKept, DropDatabase, DeleteRow, CreateDatabase, LoadTable, Without
      <4>4. Ready(p, 1)'
        BY <3>2, <4>1, <4>2, <1>1 DEF FirstKept, Ready, Whole
      <4>5. pc'[p] \notin Evicting
        BY <2>2 DEF Registered
      <4> QED BY <3>2, <4>1, <4>3, <4>4, <4>5, <1>1 DEF FirstKept
    <3> QED BY <1>1, <3>1, <3>2
  <2> QED BY <2>3, <2>4, <2>5 DEF Kept
<1> QED BY <1>2, <1>3

LEMMA RegisterKeeps ==
  ASSUME DiffInv, ~Ties, NEW p \in Procs, Register(p)
  PROVE  Kept(p)'
<1> USE DEF DiffInv, CapInv, IInv
<1> DEFINE s == SchemaOf(p)
<1>1. /\ pc[p] = "register" /\ pc'[p] = "unlink" /\ UNCHANGED <<content, want, side>>
      /\ s \in DOMAIN content /\ content[s] = Whole(want[p][side[p]])
      /\ clock' = clock + 1 /\ registry' = Put(registry, s, clock + 1)
  BY DEF Register, At, GoTo, TypeOK, Now, Ensuring, Restoring, local, Of
<1>2. /\ side[p] \in {1, 2} /\ s = Wanted(p, side[p])
      /\ \A i \in {1, 2} : Wanted(p, i)' = Wanted(p, i)
  BY <1>1, SchemaOfSide DEF Wanted
<1>3. Ready(p, side[p])
  BY <1>1, <1>2 DEF Ready
<1>4. \A i \in {1, 2} : Ready(p, i) => Ready(p, i)'
  BY <1>1, <1>2 DEF Ready, Whole
<1>5. /\ DOMAIN registry' = DOMAIN registry \cup {s}
      /\ registry'[s] = clock + 1
      /\ \A x \in DOMAIN registry \ {s} : registry'[x] = registry[x]
      /\ \A x \in DOMAIN registry : registry[x] \in Nat /\ registry[x] < clock + 1
  BY <1>1 DEF Put, TypeOK
<1>6. SecondKept(p)'
  BY <1>1, <1>3, <1>4 DEF SecondKept
<1>7. Ensuring(p)'
  BY <1>1 DEF Ensuring, Missing1
<1>8. CASE side[p] = 1
  BY <1>1, <1>2, <1>3, <1>4, <1>5, <1>6, <1>7, <1>8 DEF Kept, FirstKept, Evicting
<1>9. CASE side[p] = 2
  <2>1. s = Wanted(p, 2) /\ Wanted(p, 1) # s /\ FirstKept(p)
    BY <1>1, <1>2, <1>9 DEF Ensuring, Missing1
  <2>2. /\ Ready(p, 1) /\ Wanted(p, 1) \in DOMAIN registry
        /\ \A x \in DOMAIN registry \ {Wanted(p, 1), s} : registry[x] < registry[Wanted(p, 1)]
    BY <1>1, <1>9, <2>1 DEF FirstKept
  <2>3. FirstKept(p)'
    BY <1>1, <1>2, <1>4, <1>5, <2>1, <2>2 DEF FirstKept, Evicting
  <2> QED BY <1>6, <1>7, <2>3 DEF Kept
<1> QED BY <1>2, <1>8, <1>9

\* The eviction.
LEMMA SelectKeeps ==
  ASSUME DiffInv, MaxSnapshots >= 2, NEW p \in Procs, SelectVictims(p)
  PROVE  Kept(p)'
<1> USE DEF DiffInv, CapInv, IInv
<1> DEFINE s == SchemaOf(p)
<1>1. /\ pc[p] = "select" /\ pc'[p] = "evict" /\ UNCHANGED <<content, registry, want, side, dropping>>
  BY DEF SelectVictims, At, GoTo, TypeOK, world
<1>2. PICK V \in SUBSET DOMAIN registry : OverCap(V) /\ victims' = [victims EXCEPT ![p] = V \ {s}]
  BY DEF SelectVictims
<1>3. \A i \in {1, 2} : Wanted(p, i)' = Wanted(p, i) /\ Ready(p, i)' = Ready(p, i)
  BY <1>1 DEF Wanted, Ready, Whole
<1>4. /\ Ready(p, 1) /\ Wanted(p, 1) \in DOMAIN registry
      /\ \A x \in DOMAIN registry \ {Wanted(p, 1), Wanted(p, 2)} : registry[x] < registry[Wanted(p, 1)]
  BY <1>1 DEF FirstKept, Registered
<1>5. MaxSnapshots \in Nat /\ MaxSnapshots >= 1
  BY SnapshotCacheAssumption
<1>6. Wanted(p, 1) \notin V
  BY <1>2, <1>4, <1>5, LatestStays
<1>7. victims'[p] = V \ {s} /\ dropping'[p] = {}
  BY <1>1, <1>2 DEF TypeOK, UnderCap
<1>8. FirstKept(p)'
  BY <1>1, <1>3, <1>4, <1>6, <1>7 DEF FirstKept
<1>9. SecondKept(p)'
  BY <1>1, <1>3 DEF SecondKept, Registered
<1>10. Ensuring(p)'
  BY <1>1 DEF Ensuring, Missing1
<1> QED BY <1>8, <1>9, <1>10 DEF Kept

LEMMA EvictionKeeps ==
  ASSUME DiffInv, NEW p \in Procs, EvictDatabase(p) \/ EvictRow(p) \/ Evicted(p)
  PROVE  Kept(p)'
<1> USE DEF DiffInv, CapInv, IInv
<1>1. /\ pc[p] \in Evicting /\ UNCHANGED want
      /\ side[p] \in {1, 2} /\ SchemaOf(p) = Wanted(p, side[p])
      /\ \A i \in {1, 2} : Wanted(p, i)' = Wanted(p, i)
  BY SchemaOfSide DEF EvictDatabase, EvictRow, Evicted, At, Evicting, Wanted
<1>2. /\ Ready(p, 1) /\ Wanted(p, 1) \in DOMAIN registry
      /\ \A x \in DOMAIN registry \ {Wanted(p, 1), Wanted(p, 2)} : registry[x] < registry[Wanted(p, 1)]
      /\ Wanted(p, 1) \notin victims[p] \cup dropping[p]
      /\ side[p] = 2 => Ready(p, 2) /\ Wanted(p, 2) \notin victims[p] \cup dropping[p]
  BY <1>1 DEF FirstKept, SecondKept, Registered, Evicting, UnderCap
<1>3. CASE EvictDatabase(p)
  <2>1. PICK v \in victims[p] : /\ content' = Without(content, v)
                                /\ victims' = [victims EXCEPT ![p] = @ \ {v}]
                                /\ dropping' = [dropping EXCEPT ![p] = {v}]
    BY <1>3 DEF EvictDatabase
  <2>2. pc'[p] = "evict_row" /\ UNCHANGED <<registry, side>>
    BY <1>3 DEF EvictDatabase, GoTo, TypeOK
  <2>3. victims'[p] \cup dropping'[p] \subseteq victims[p]
    BY <2>1 DEF TypeOK
  <2>4. Ready(p, 1)' /\ (side[p] = 2 => Ready(p, 2)')
    BY <1>1, <1>2, <2>1 DEF Ready, Without, Whole
  <2> QED BY <1>1, <1>2, <2>2, <2>3, <2>4 DEF Kept, FirstKept, SecondKept, Ensuring, Missing1
<1>4. CASE EvictRow(p)
  <2>1. /\ DOMAIN registry' = DOMAIN registry \ dropping[p]
        /\ \A x \in DOMAIN registry' : registry'[x] = registry[x]
        /\ pc'[p] = "evict" /\ UNCHANGED <<content, side, victims>> /\ dropping'[p] = {}
    BY <1>4 DEF EvictRow, GoTo, TypeOK
  <2>2. Ready(p, 1)' /\ (side[p] = 2 => Ready(p, 2)')
    BY <1>1, <1>2, <2>1 DEF Ready, Whole
  <2> QED BY <1>1, <1>2, <2>1, <2>2 DEF Kept, FirstKept, SecondKept, Ensuring, Missing1
<1>5. CASE Evicted(p)
  <2>1. pc'[p] = (IF side[p] = 1 THEN "has" ELSE "diff") /\ side'[p] = 2 /\ UNCHANGED <<content, registry>>
    BY <1>5 DEF Evicted, Return, GoTo, TypeOK, world
  <2>2. Ready(p, 1)' /\ (side[p] = 2 => Ready(p, 2)')
    BY <1>1, <1>2, <2>1 DEF Ready, Whole
  <2>3. FirstKept(p)'
    BY <1>1, <1>2, <2>1, <2>2 DEF FirstKept, Evicting
  <2>4. SecondKept(p)'
    BY <1>1, <2>1, <2>2 DEF SecondKept, Registered, Evicting
  <2> QED BY <2>1, <2>3, <2>4 DEF Kept, Ensuring, Missing1
<1> QED BY <1>3, <1>4, <1>5

-----------------------------------------------------------------------------
(* The theorem.                                                             *)

LEMMA DiffInit == Init => DiffInv
  BY CapInit DEF Init, DiffInv, FirstKept, SecondKept, Ensuring, Registered, Evicting, Missing1

\* Of a process that is idle, or has just begun, nothing is said.
LEMMA IdleKeeps ==
  ASSUME NEW p, pc'[p] = "idle" \/ (pc'[p] = "inspect" /\ side'[p] = 1)
  PROVE  Kept(p)'
  BY DEF Kept, FirstKept, SecondKept, Ensuring, Registered, Evicting, Missing1

LEMMA DiffStep ==
  ASSUME Serial, ~Ties, MaxSnapshots >= 2, DiffInv, [Next]_vars,
         \A x, y \in Specs : Name[x] = Name[y] => x = y
  PROVE  DiffInv'
<1>1. CapInv'
  <2>1. MaxSnapshots >= 1
    BY SnapshotCacheAssumption
  <2> QED BY <2>1, CapStep DEF DiffInv
<1>2. ASSUME NEW p \in Procs, Begin(p), NEW q \in Procs
      PROVE  Kept(q)'
  <2>1. /\ pc[q] = "idle" /\ pc' = [pc EXCEPT ![p] = "inspect"]
        /\ side' = [side EXCEPT ![p] = 1]
    BY <1>2, Zenon DEF Begin, GoTo, At
  <2>2. pc'[q] = "idle" \/ (pc'[q] = "inspect" /\ side'[q] = 1)
    BY <2>1 DEF DiffInv, CapInv, IInv, TypeOK
  <2> QED BY <2>2, IdleKeeps
<1>3. ASSUME NEW p \in Procs, Steps(p), NEW q \in Procs
      PROVE  Kept(q)'
  <2>1. CASE q = p
    BY <1>3, <2>1, LookingKeeps, TouchKeeps, FillingKeeps, RegisterKeeps, SelectKeeps, EvictionKeeps
    DEF Steps, Ensure
  <2>2. CASE q # p
    <3>1. pc'[q] = "idle"
      BY <1>3, <2>2, OthersIdle DEF DiffInv, CapInv
    <3> QED BY <3>1, IdleKeeps
  <2> QED BY <2>1, <2>2
<1>4. ASSUME Clear, NEW q \in Procs
      PROVE  Kept(q)'
  <2>1. pc'[q] = "idle"
    BY <1>4, Zenon DEF Clear, At
  <2> QED BY <2>1, IdleKeeps
<1>5. ASSUME AcceptConnections \/ Stop \/ UNCHANGED vars, NEW q \in Procs
      PROVE  Kept(q)'
  <2>1. UNCHANGED <<content, registry, pc, want, side, victims, dropping>>
    BY <1>5 DEF AcceptConnections, Stop, vars, world, local
  <2>2. FirstKept(q) /\ SecondKept(q) /\ Ensuring(q)
    BY DEF DiffInv
  <2>3. /\ \A i : Wanted(q, i)' = Wanted(q, i) /\ Ready(q, i)' = Ready(q, i)
        /\ SchemaOf(q)' = SchemaOf(q)
    BY <2>1 DEF Ready, Whole, Wanted, SchemaOf, Of
  <2>4. FirstKept(q)'
    BY <2>1, <2>2, <2>3 DEF FirstKept
  <2>5. SecondKept(q)'
    BY <2>1, <2>2, <2>3 DEF SecondKept
  <2>6. Ensuring(q)'
    BY <2>1, <2>2, <2>3 DEF Ensuring
  <2> QED BY <2>4, <2>5, <2>6 DEF Kept
<1> QED BY <1>1, <1>2, <1>3, <1>4, <1>5 DEF Next, Steps, DiffInv, Kept

\* When commands do not overlap, a diff reads the two dumps it was given, each of
\* them whole, whatever failed or was killed before and whatever the command
\* itself evicted: for any snapshots and any cap that leaves room for both, if
\* no two dumps share a name and no two uses get one time.
THEOREM DiffsReadTheirDumps ==
  ASSUME Serial, ~Ties, MaxSnapshots >= 2,
         \A x, y \in Specs : Name[x] = Name[y] => x = y
  PROVE  Spec => []DiffReadsItsDumps
<1>1. Init => DiffInv
  BY DiffInit
<1>2. DiffInv /\ [Next]_vars => DiffInv'
  BY DiffStep
<1>3. DiffInv => DiffReadsItsDumps
  <2> SUFFICES ASSUME DiffInv, NEW p \in Procs, pc[p] = "diff"
               PROVE  Ready(p, 1) /\ Ready(p, 2)
    <3>1. ASSUME NEW p \in Procs, Ready(p, 1), Ready(p, 2), NEW i \in {1, 2}
          PROVE  /\ Name[want[p][i]] \in DOMAIN content
                 /\ content[Name[want[p][i]]] = Whole(want[p][i])
      <4>1. i = 1 \/ i = 2
        OBVIOUS
      <4> QED BY <3>1, <4>1 DEF Ready, Wanted
    <3> QED BY <3>1 DEF DiffReadsItsDumps, Reading, At
  <2> QED BY DEF DiffInv, FirstKept, SecondKept, Ensuring
<1> QED BY <1>1, <1>2, <1>3, PTL DEF Spec
=============================================================================

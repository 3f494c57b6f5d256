------------------------- MODULE EphemeralRunProofs -------------------------
(***************************************************************************)
(* Proofs about EphemeralRun, for any runs, dumps, sources and ports.      *)
(***************************************************************************)
EXTENDS EphemeralRun, TLAPS

\* The steps of run j.
Steps(j) == Start(j) \/ Work(j) \/ InterruptWait(j) \/ KillCommand(j)

-----------------------------------------------------------------------------
(* Types.                                                                   *)

LEMMA TypeInit == Init => TypeOK
  BY EphemeralRunAssumption DEF Init, TypeOK, Side, NoSource, Alive, InTry

\* The control of a run stays typed by whatever route the run goes on.
LEMMA GoToTyped ==
  ASSUME TypeOK, NEW j \in Job, NEW label \in Alive \cup {"idle", "ended", "dead"}, GoTo(j, label)
  PROVE  /\ pc' \in [Job -> Alive \cup {"idle", "ended", "dead"}]
         /\ side' \in [Job -> Side]
         /\ source' \in [Job -> Sources \cup {NoSource}]
  BY DEF GoTo, TypeOK

LEMMA AdvanceTyped ==
  ASSUME TypeOK, NEW j \in Job, NEW label \in Alive \cup {"idle", "ended", "dead"}, Advance(j, label)
  PROVE  /\ pc' \in [Job -> Alive \cup {"idle", "ended", "dead"}]
         /\ side' \in [Job -> Side]
         /\ source' \in [Job -> Sources \cup {NoSource}]
<1>1. side' \in [Job -> Side]
  BY DEF Advance, TypeOK, Side
<1>2. pc' \in [Job -> Alive \cup {"idle", "ended", "dead"}]
  BY DEF Advance, TypeOK
<1> QED BY <1>1, <1>2 DEF Advance, TypeOK

\* A source of a run that has started, and what is read for it.
LEMMA SourceTyped ==
  ASSUME TypeOK, NEW j \in Job, source[j] \in Sources
  PROVE  /\ Spec1(j) \in Dumps \cup {Live}
         /\ Spec1(j) # Live => FileOf(j, Spec1(j)) \in Dumps \cup {None}
<1>1. source[j] \in [Side -> Dumps \cup {Live}] /\ side[j] \in Side
  BY EphemeralRunAssumption DEF TypeOK
<1>2. Spec1(j) \in Dumps \cup {Live}
  BY <1>1 DEF Spec1
<1>3. ASSUME Spec1(j) # Live
      PROVE  FileOf(j, Spec1(j)) \in Dumps \cup {None}
  <2>1. Spec1(j) \in Dumps /\ Name[Spec1(j)] \in Names
    BY <1>2, <1>3 DEF Names
  <2> QED BY <2>1 DEF FileOf, DownloadDir, TypeOK
<1> QED BY <1>2, <1>3

\* A run that has started has its sources.
Started == \A j \in Job : pc[j] # "idle" => source[j] \in Sources

Typed == TypeOK /\ Started

LEMMA TypeStep ==
  ASSUME Typed, [Next]_vars
  PROVE  Typed'
<1> USE DEF Typed
<1>1. ASSUME NEW j \in Job, Start(j)
      PROVE  Typed'
  <2>1. PICK s \in Sources : source' = [source EXCEPT ![j] = s]
    BY <1>1 DEF Start
  <2>2. Started'
    BY <1>1, <2>1 DEF Start, Started, TypeOK
  <2> QED BY <1>1, <2>1, <2>2 DEF Start, docker, TypeOK, Alive
<1>2. ASSUME NEW j \in Job, ParseSpec(j)
      PROVE  Typed'
  <2>1. source[j] \in Sources
    BY <1>2 DEF ParseSpec, Started
  <2>2. files' \in [Job -> [Names -> Dumps \cup {None}]]
    <3>1. CASE Spec1(j) \in S3
      <4>1. Spec1(j) \in Dumps /\ Name[Spec1(j)] \in Names
        BY <3>1, EphemeralRunAssumption DEF Names
      <4>2. files' = [files EXCEPT ![j][Name[Spec1(j)]] = Spec1(j)]
        BY <1>2, <3>1 DEF ParseSpec, DownloadDir
      <4> QED BY <4>1, <4>2 DEF TypeOK
    <3>2. CASE Spec1(j) \notin S3
      BY <1>2, <3>2 DEF ParseSpec, TypeOK
    <3> QED BY <3>1, <3>2
  <2>3. PICK label \in {"run", "connect"} : Advance(j, label)
    BY <1>2 DEF ParseSpec
  <2>4. Started'
    BY <1>2, <2>1, <2>3 DEF Advance, Started, TypeOK
  <2>5. label \in Alive
    BY DEF Alive, InTry
  <2> QED BY <1>2, <2>2, <2>3, <2>4, <2>5, AdvanceTyped DEF ParseSpec, docker, TypeOK
<1>3. ASSUME NEW j \in Job, RestoreSource(j)
      PROVE  Typed'
  <2>1. source[j] \in Sources
    BY <1>3 DEF RestoreSource, Started
  <2>2. db' \in [Job -> [Side -> Dumps \cup {None}]]
    <3>1. CASE Spec1(j) = Live
      BY <1>3, <3>1 DEF RestoreSource, TypeOK
    <3>2. CASE Spec1(j) # Live
      <4>1. FileOf(j, Spec1(j)) \in Dumps \cup {None} /\ side[j] \in Side
        BY <2>1, <3>2, SourceTyped DEF TypeOK
      <4>2. db' = [db EXCEPT ![j][side[j]] = FileOf(j, Spec1(j))]
        BY <1>3, <3>2 DEF RestoreSource
      <4> QED BY <4>1, <4>2 DEF TypeOK
    <3> QED BY <3>1, <3>2
  <2>3. Advance(j, "connect")
    BY <1>3 DEF RestoreSource
  <2>4. Started'
    BY <1>3, <2>1, <2>3 DEF Advance, Started, TypeOK
  <2>5. "connect" \in Alive
    BY DEF Alive, InTry
  <2> QED BY <1>3, <2>2, <2>3, <2>4, <2>5, AdvanceTyped DEF RestoreSource, TypeOK
<1>4. ASSUME NEW j \in Job, Connect(j)
      PROVE  Typed'
  <2>1. conn' \in [Job -> [Side -> Job \cup {Live, None}]]
    <3>1. PICK k \in Job \cup {Live} : conn' = [conn EXCEPT ![j][side[j]] = k]
      BY <1>4 DEF Connect, Answering
    <3> QED BY <3>1 DEF TypeOK
  <2>2. Advance(j, "diff") /\ source[j] \in Sources
    BY <1>4 DEF Connect, Started
  <2>3. Started'
    BY <1>4, <2>2 DEF Advance, Started, TypeOK
  <2>4. "diff" \in Alive
    BY DEF Alive, InTry
  <2> QED BY <1>4, <2>1, <2>2, <2>3, <2>4, AdvanceTyped DEF Connect, docker, TypeOK
<1>5. ASSUME NEW j \in Job,
             RunContainer(j) \/ RunFails(j) \/ MappedPort(j) \/ WaitReady(j) \/ NotReady(j) \/ Diff(j)
             \/ Raise(j) \/ RemoveContainer(j) \/ RemoveFails(j) \/ InterruptWait(j) \/ KillCommand(j)
      PROVE  Typed'
  <2>1. /\ pc[j] # "idle"
        /\ \E label \in Alive \cup {"idle", "ended", "dead"} : GoTo(j, label)
    BY <1>5 DEF RunContainer, RunFails, MappedPort, WaitReady, NotReady, Diff, Raise, RemoveContainer,
                RemoveFails, InterruptWait, KillCommand, Leave, Alive, InTry
  <2>2. Started'
    BY <2>1 DEF GoTo, Started, TypeOK
  <2>3. /\ pc' \in [Job -> Alive \cup {"idle", "ended", "dead"}]
        /\ side' \in [Job -> Side]
        /\ source' \in [Job -> Sources \cup {NoSource}]
    BY <2>1, GoToTyped
  <2>4. /\ container' \in [Job -> {"none", "created", "starting", "ready", "exited", "removed"}]
        /\ volumes' \subseteq Job
        /\ port' \in [Job -> Ports \cup {None}]
        /\ faulted' \subseteq Job
        /\ UNCHANGED <<files, db, conn>>
    BY <1>5 DEF RunContainer, RunFails, MappedPort, WaitReady, NotReady, Diff, Raise, RemoveContainer,
                RemoveFails, InterruptWait, KillCommand, docker, TypeOK
  <2> QED BY <2>2, <2>3, <2>4 DEF TypeOK
<1>6. ASSUME NEW j \in Job, ServerUp(j) \/ ServerDies(j)
      PROVE  Typed'
  BY <1>6 DEF ServerUp, ServerDies, own, Started, TypeOK
<1>7. CASE CrashServer
  BY <1>7 DEF CrashServer, docker, Started, TypeOK, Alive, InTry
<1>8. CASE UNCHANGED vars
  BY <1>8 DEF vars, own, docker, Started, TypeOK
<1>9. ASSUME NEW j \in Job, Steps(j)
      PROVE  Typed'
  BY <1>1, <1>2, <1>3, <1>4, <1>5, <1>9 DEF Steps, Work
<1> QED BY <1>6, <1>7, <1>8, <1>9 DEF Next, Steps

LEMMA AlwaysTyped == Spec => []Typed
<1>1. Init => Typed
  BY TypeInit DEF Typed, Started, Init
<1>2. Typed /\ [Next]_vars => Typed'
  BY TypeStep
<1> QED BY <1>1, <1>2, PTL DEF Spec

\* Every state of the runs, their files and their containers is typed.
THEOREM TypeCorrect == Spec => []TypeOK
<1>1. Typed => TypeOK
  BY DEF Typed
<1> QED BY <1>1, AlwaysTyped, PTL

-----------------------------------------------------------------------------
(* Runs do not touch each other's files, containers and connections.        *)

LEMMA OthersAlone ==
  ASSUME Typed, NEW j \in Job, Steps(j), NEW k \in Job \ {j}
  PROVE  /\ pc'[k] = pc[k] /\ side'[k] = side[k] /\ source'[k] = source[k]
         /\ files'[k] = files[k] /\ container'[k] = container[k] /\ port'[k] = port[k]
         /\ db'[k] = db[k] /\ conn'[k] = conn[k]
         /\ k \in volumes' <=> k \in volumes
         /\ k \in faulted' <=> k \in faulted
<1> USE DEF Typed, TypeOK, docker, own, GoTo, Advance
<1>1. CASE Start(j)
  BY <1>1 DEF Start
<1>2. CASE ParseSpec(j)
  BY <1>2 DEF ParseSpec, DownloadDir
<1>3. CASE RunContainer(j) \/ RunFails(j)
  BY <1>3 DEF RunContainer, RunFails
<1>4. CASE MappedPort(j) \/ WaitReady(j) \/ NotReady(j)
  BY <1>4 DEF MappedPort, WaitReady, NotReady
<1>5. CASE RestoreSource(j)
  BY <1>5 DEF RestoreSource
<1>6. CASE Connect(j)
  BY <1>6 DEF Connect
<1>7. CASE Diff(j) \/ Raise(j)
  BY <1>7 DEF Diff, Raise, Leave
<1>8. CASE RemoveContainer(j) \/ RemoveFails(j)
  BY <1>8 DEF RemoveContainer, RemoveFails
<1>9. CASE InterruptWait(j) \/ KillCommand(j)
  BY <1>9 DEF InterruptWait, KillCommand, Leave
<1> QED BY <1>1, <1>2, <1>3, <1>4, <1>5, <1>6, <1>7, <1>8, <1>9 DEF Steps, Work

-----------------------------------------------------------------------------
(* What has not been cleaned up belongs to a run that is still inside the   *)
(* block of its container, or that was prevented.                           *)

\* Before `docker run`, after `docker rm`, and without dumps: no container.
Clean(j) ==
  j \notin faulted /\ (pc[j] \in {"idle", "parse", "run", "ended"} \/ ~NeedsRestore(j)) =>
    container[j] \in {"none", "removed"} /\ j \notin volumes

\* `docker run` is for runs with a dump.
RunsForDumps(j) == pc[j] = "run" => NeedsRestore(j)

CleanInv == Typed /\ \A j \in Job : Clean(j) /\ RunsForDumps(j)

LEMMA CleanStep ==
  ASSUME CleanInv, [Next]_vars
  PROVE  CleanInv'
<1>1. Typed'
  BY TypeStep DEF CleanInv
<1>2. ASSUME NEW j \in Job, Steps(j)
      PROVE  Clean(j)' /\ RunsForDumps(j)'
  <2> USE DEF CleanInv, Typed, TypeOK, Clean, RunsForDumps, NeedsRestore
  <2>1. CASE Start(j)
    BY <1>2, <2>1 DEF Start, docker
  <2>2. CASE ParseSpec(j)
    BY <1>2, <2>2 DEF ParseSpec, Advance, docker
  <2>3. CASE RunContainer(j) \/ RunFails(j)
    BY <1>2, <2>3 DEF RunContainer, RunFails, GoTo
  <2>4. CASE MappedPort(j) \/ WaitReady(j) \/ NotReady(j)
    BY <1>2, <2>4 DEF MappedPort, WaitReady, NotReady, GoTo, docker
  <2>5. CASE RestoreSource(j) \/ Connect(j)
    BY <1>2, <2>5 DEF RestoreSource, Connect, Advance, docker
  <2>6. CASE Diff(j) \/ Raise(j) \/ InterruptWait(j)
    BY <1>2, <2>6 DEF Diff, Raise, InterruptWait, Leave, GoTo, InTry, docker
  <2>7. CASE RemoveContainer(j)
    BY <1>2, <2>7 DEF RemoveContainer, GoTo
  <2>8. CASE RemoveFails(j)
    BY <1>2, <2>8 DEF RemoveFails, GoTo, docker
  <2>9. CASE KillCommand(j)
    BY <1>2, <2>9 DEF KillCommand, GoTo, docker
  <2> QED BY <1>2, <2>1, <2>2, <2>3, <2>4, <2>5, <2>6, <2>7, <2>8, <2>9 DEF Steps, Work
<1>3. ASSUME NEW j \in Job, Steps(j), NEW k \in Job \ {j}
      PROVE  Clean(k)' /\ RunsForDumps(k)'
  BY <1>3, OthersAlone DEF CleanInv, Clean, RunsForDumps, NeedsRestore
<1>4. ASSUME NEW j \in Job, ServerUp(j) \/ ServerDies(j), NEW k \in Job
      PROVE  Clean(k)' /\ RunsForDumps(k)'
  BY <1>4 DEF ServerUp, ServerDies, Running, own, CleanInv, Typed, TypeOK, Clean, RunsForDumps, NeedsRestore
<1>5. ASSUME CrashServer, NEW k \in Job
      PROVE  Clean(k)' /\ RunsForDumps(k)'
  BY <1>5 DEF CrashServer, docker, CleanInv, Clean, RunsForDumps, NeedsRestore
<1>6. CASE UNCHANGED vars
  BY <1>6, <1>1 DEF vars, own, docker, CleanInv, Clean, RunsForDumps, NeedsRestore
<1>7. CASE Next
  <2>1. ASSUME NEW k \in Job
        PROVE  Clean(k)' /\ RunsForDumps(k)'
    BY <1>2, <1>3, <1>4, <1>5, <1>7 DEF Next, Steps
  <2> QED BY <1>1, <2>1 DEF CleanInv
<1> QED BY <1>6, <1>7

\* A run that has ended left neither container nor volume behind, for any
\* number of runs: `docker rm -f -v` is on every way out of the block.
THEOREM WhatEndsIsClean == Spec => []NothingLeft
<1>1. Init => CleanInv
  BY TypeInit DEF Init, CleanInv, Typed, Started, Clean, RunsForDumps
<1>2. CleanInv /\ [Next]_vars => CleanInv'
  BY CleanStep
<1>3. CleanInv => NothingLeft
  BY DEF CleanInv, Clean, NothingLeft
<1> QED BY <1>1, <1>2, <1>3, PTL DEF Spec

-----------------------------------------------------------------------------
(* What a run has fetched, restored and connected to so far.                *)

\* The run is past a stage with side s.
Past(j, s, stage, later) == pc[j] \in later \/ (pc[j] = stage /\ s = "base" /\ side[j] = "new")

\* A stage without sides of its own, and every first one, begins with base.
SideReset(j) == pc[j] \in {"idle", "run", "port", "wait"} => side[j] = "base"

Fetched(j, s) ==
  source[j][s] \in S3 /\ ~OneFile(j) /\ Past(j, s, "parse", InTry \cup {"run"}) =>
    files[j][Name[source[j][s]]] = source[j][s]

Restored(j, s) ==
  source[j][s] # Live /\ ~OneFile(j) /\ Past(j, s, "restore", {"connect", "diff"}) =>
    db[j][s] = source[j][s]

Connected(j, s) ==
  container[j] = "ready" /\ source[j][s] # Live /\ Past(j, s, "connect", {"diff"}) =>
    conn[j][s] = j

\* Its container was started, then its server came up, though it may have died since.
Up(j) ==
  /\ pc[j] \in {"port", "wait"} => container[j] \in {"starting", "ready", "exited"}
  /\ pc[j] \in {"restore", "connect", "diff"} /\ NeedsRestore(j) => container[j] \in {"ready", "exited"}

\* Docker maps a port to one running container.
PortsApart == \A j, k \in Job : Running(j) /\ Running(k) /\ port[j] = port[k] => j = k

Progress(j) ==
  /\ SideReset(j) /\ RunsForDumps(j) /\ Up(j)
  /\ \A s \in Side : Fetched(j, s) /\ Restored(j, s) /\ Connected(j, s)

ReadInv == Typed /\ PortsApart /\ \A j \in Job : Progress(j)

LEMMA PortsStep ==
  ASSUME ReadInv, [Next]_vars
  PROVE  PortsApart'
<1> USE DEF ReadInv, PortsApart, Running
<1>1. ASSUME NEW j \in Job, RunContainer(j)
      PROVE  PortsApart'
  BY <1>1 DEF RunContainer, Typed, TypeOK
<1>2. ASSUME NEW j \in Job, RunFails(j) \/ RemoveContainer(j)
      PROVE  PortsApart'
  BY <1>2 DEF RunFails, RemoveContainer, Typed, TypeOK
<1>3. ASSUME NEW j \in Job, ServerUp(j) \/ ServerDies(j)
      PROVE  PortsApart'
  BY <1>3 DEF ServerUp, ServerDies, Typed, TypeOK
<1>4. ASSUME NEW j \in Job, Steps(j), ~(RunContainer(j) \/ RunFails(j) \/ RemoveContainer(j))
      PROVE  UNCHANGED <<container, port>>
  BY <1>4 DEF Steps, Work, Start, ParseSpec, MappedPort, WaitReady, NotReady, RestoreSource, Connect,
              Diff, Raise, RemoveFails, InterruptWait, KillCommand, docker
<1>5. ASSUME CrashServer \/ UNCHANGED vars
      PROVE  UNCHANGED <<container, port>>
  BY <1>5 DEF CrashServer, vars, docker
<1>6. ASSUME UNCHANGED <<container, port>>
      PROVE  PortsApart'
  BY <1>6
<1>7. ASSUME NEW j \in Job, Steps(j)
      PROVE  PortsApart'
  BY <1>1, <1>2, <1>4, <1>6, <1>7
<1> QED BY <1>3, <1>5, <1>6, <1>7 DEF Next, Steps

\* At its port a run whose server lives, or is coming up, finds no other server.
LEMMA OwnServerAnswers ==
  ASSUME ReadInv, NEW j \in Job, NEW k \in Answering(j), Running(j)
  PROVE  k = j
  BY DEF Answering, ReadInv, PortsApart, Running

LEMMA ParseProgress ==
  ASSUME ReadInv, NEW j \in Job, ParseSpec(j)
  PROVE  Progress(j)'
<1>1. /\ pc[j] = "parse" /\ source' = source /\ UNCHANGED <<docker, conn>>
      /\ source[j] \in Sources /\ source[j] \in [Side -> Dumps \cup {Live}] /\ side[j] \in Side
  BY EphemeralRunAssumption DEF ParseSpec, Advance, ReadInv, Typed, Started, TypeOK
<1>2. /\ side'[j] = IF side[j] = "base" THEN "new" ELSE "base"
      /\ pc'[j] = IF side[j] = "base" THEN "parse" ELSE IF NeedsRestore(j) THEN "run" ELSE "connect"
  BY <1>1 DEF ParseSpec, Advance, ReadInv, Typed, TypeOK
<1>3. SideReset(j)' /\ RunsForDumps(j)' /\ Up(j)'
  BY <1>1, <1>2 DEF SideReset, RunsForDumps, Up, NeedsRestore, Side
<1>4. ASSUME NEW s \in Side
      PROVE  Fetched(j, s)'
  <2> SUFFICES ASSUME source[j][s] \in S3, ~OneFile(j), Past(j, s, "parse", InTry \cup {"run"})'
               PROVE  files'[j][Name[source[j][s]]] = source[j][s]
    BY <1>1 DEF Fetched, OneFile
  <2>1. source[j][s] \in Dumps /\ Name[source[j][s]] \in Names
    BY <1>1, EphemeralRunAssumption DEF Names
  <2>2. CASE s = side[j]
    BY <1>1, <2>1, <2>2 DEF ParseSpec, DownloadDir, Spec1, ReadInv, Typed, TypeOK
  <2>3. CASE s # side[j]
    <3>1. s = "base" /\ side[j] = "new"
      BY <1>1, <1>2, <2>3 DEF Past, Side, InTry
    <3>2. files[j][Name[source[j][s]]] = source[j][s]
      BY <1>1, <3>1 DEF ReadInv, Progress, Fetched, Past
    <3>3. CASE source[j]["new"] \notin S3
      BY <1>1, <3>1, <3>2, <3>3 DEF ParseSpec, Spec1
    <3>4. CASE source[j]["new"] \in S3
      <4>1. Name[source[j]["new"]] # Name[source[j][s]] \/ source[j]["new"] = source[j][s]
        BY <3>1, <3>4 DEF OneFile
      <4>2. files' = [files EXCEPT ![j][Name[source[j]["new"]]] = source[j]["new"]]
        BY <3>1, <3>4 DEF ParseSpec, DownloadDir, Spec1
      <4> QED BY <2>1, <3>2, <4>1, <4>2 DEF ReadInv, Typed, TypeOK
    <3> QED BY <3>3, <3>4
  <2> QED BY <2>2, <2>3
<1>5. ASSUME NEW s \in Side
      PROVE  Restored(j, s)' /\ Connected(j, s)'
  <2>1. CASE pc'[j] # "connect"
    BY <1>2, <2>1 DEF Restored, Connected, Past
  <2>2. CASE pc'[j] = "connect"
    <3>1. source[j][s] = Live /\ side'[j] = "base"
      BY <1>1, <1>2, <2>2 DEF NeedsRestore, Side
    <3> QED BY <1>1, <2>2, <3>1 DEF Restored, Connected, Past
  <2> QED BY <2>1, <2>2
<1> QED BY <1>3, <1>4, <1>5 DEF Progress

LEMMA RestoreProgress ==
  ASSUME ReadInv, NEW j \in Job, RestoreSource(j)
  PROVE  Progress(j)'
<1>1. /\ pc[j] = "restore" /\ source' = source /\ UNCHANGED <<files, container, port, conn>>
      /\ source[j] \in Sources /\ source[j] \in [Side -> Dumps \cup {Live}] /\ side[j] \in Side
  BY EphemeralRunAssumption DEF RestoreSource, Advance, ReadInv, Typed, Started, TypeOK
<1>2. /\ side'[j] = IF side[j] = "base" THEN "new" ELSE "base"
      /\ pc'[j] = IF side[j] = "base" THEN "restore" ELSE "connect"
  BY <1>1 DEF RestoreSource, Advance, ReadInv, Typed, TypeOK
<1>3. SideReset(j)' /\ RunsForDumps(j)' /\ Up(j)'
  BY <1>1, <1>2 DEF SideReset, RunsForDumps, Up, NeedsRestore, ReadInv, Progress
<1>4. ASSUME NEW s \in Side
      PROVE  Fetched(j, s)' /\ Connected(j, s)'
  BY <1>1, <1>2 DEF Fetched, OneFile, Connected, Past, InTry, Side, ReadInv, Progress
<1>5. ASSUME NEW s \in Side
      PROVE  Restored(j, s)'
  <2> SUFFICES ASSUME source[j][s] # Live, ~OneFile(j), Past(j, s, "restore", {"connect", "diff"})'
               PROVE  db'[j][s] = source[j][s]
    BY <1>1 DEF Restored, OneFile
  <2>1. CASE s = side[j]
    <3>1. FileOf(j, source[j][s]) = source[j][s]
      BY <1>1 DEF FileOf, DownloadDir, ReadInv, Progress, Fetched, Past, InTry
    <3> QED BY <1>1, <2>1, <3>1 DEF RestoreSource, Spec1, ReadInv, Typed, TypeOK
  <2>2. CASE s # side[j]
    <3>1. s = "base" /\ side[j] = "new"
      BY <1>1, <1>2, <2>2 DEF Past, Side
    <3>2. db[j][s] = source[j][s]
      BY <1>1, <3>1 DEF ReadInv, Progress, Restored, Past
    <3> QED BY <1>1, <2>2, <3>2 DEF RestoreSource, ReadInv, Typed, TypeOK
  <2> QED BY <2>1, <2>2
<1> QED BY <1>3, <1>4, <1>5 DEF Progress

LEMMA ConnectProgress ==
  ASSUME ReadInv, NEW j \in Job, Connect(j)
  PROVE  Progress(j)'
<1>1. /\ pc[j] = "connect" /\ source' = source /\ UNCHANGED <<files, container, port, db>>
      /\ source[j] \in Sources /\ source[j] \in [Side -> Dumps \cup {Live}] /\ side[j] \in Side
  BY EphemeralRunAssumption DEF Connect, Advance, docker, ReadInv, Typed, Started, TypeOK
<1>2. /\ side'[j] = IF side[j] = "base" THEN "new" ELSE "base"
      /\ pc'[j] = IF side[j] = "base" THEN "connect" ELSE "diff"
  BY <1>1 DEF Connect, Advance, ReadInv, Typed, TypeOK
<1>3. SideReset(j)' /\ RunsForDumps(j)' /\ Up(j)'
  BY <1>1, <1>2 DEF SideReset, RunsForDumps, Up, NeedsRestore, ReadInv, Progress
<1>4. ASSUME NEW s \in Side
      PROVE  Fetched(j, s)' /\ Restored(j, s)'
  BY <1>1, <1>2 DEF Fetched, Restored, OneFile, Past, InTry, Side, ReadInv, Progress
<1>5. ASSUME NEW s \in Side
      PROVE  Connected(j, s)'
  <2> SUFFICES ASSUME container[j] = "ready", source[j][s] # Live, Past(j, s, "connect", {"diff"})'
               PROVE  conn'[j][s] = j
    BY <1>1 DEF Connected
  <2>1. PICK k \in IF Spec1(j) = Live THEN {Live} ELSE Answering(j) :
          conn' = [conn EXCEPT ![j][side[j]] = k]
    BY DEF Connect
  <2>2. CASE s = side[j]
    <3>1. k = j
      BY <2>1, <2>2, OwnServerAnswers DEF Spec1, Running
    <3> QED BY <2>1, <2>2, <3>1 DEF ReadInv, Typed, TypeOK
  <2>3. CASE s # side[j]
    <3>1. s = "base" /\ side[j] = "new"
      BY <1>1, <1>2, <2>3 DEF Past, Side
    <3>2. conn[j][s] = j
      BY <1>1, <3>1 DEF ReadInv, Progress, Connected, Past
    <3> QED BY <2>1, <2>3, <3>2 DEF ReadInv, Typed, TypeOK
  <2> QED BY <2>2, <2>3
<1> QED BY <1>3, <1>4, <1>5 DEF Progress

LEMMA ReadStep ==
  ASSUME ReadInv, [Next]_vars
  PROVE  ReadInv'
<1>1. ASSUME NEW j \in Job, Steps(j)
      PROVE  Progress(j)'
  <2> USE DEF Progress, SideReset, RunsForDumps, Up, Fetched, Restored, Connected, Past, NeedsRestore,
              InTry, Side
  <2>1. CASE Start(j)
    BY <1>1, <2>1 DEF Start, docker, ReadInv, Typed, TypeOK
  <2>2. CASE ParseSpec(j) \/ RestoreSource(j) \/ Connect(j)
    BY <1>1, <2>2, ParseProgress, RestoreProgress, ConnectProgress
  <2>3. CASE RunContainer(j) \/ MappedPort(j)
    BY <1>1, <2>3 DEF RunContainer, MappedPort, GoTo, docker, OneFile, ReadInv, Typed, TypeOK
  <2>4. CASE WaitReady(j)
    <3>1. PICK k \in Answering(j) : TRUE
      BY <2>4 DEF WaitReady
    <3>2. container[j] # "starting"
      BY <1>1, <3>1, OwnServerAnswers DEF Answering, Running
    <3> QED BY <1>1, <2>4, <3>2 DEF WaitReady, GoTo, docker, OneFile, ReadInv, Typed, TypeOK
  <2>5. CASE RunFails(j) \/ NotReady(j) \/ Raise(j) \/ RemoveContainer(j) \/ RemoveFails(j)
             \/ InterruptWait(j) \/ KillCommand(j) \/ Diff(j)
    <3>1. PICK label \in {"ended", "teardown", "dead"} : GoTo(j, label)
      BY <2>5 DEF RunFails, NotReady, Raise, RemoveContainer, RemoveFails, InterruptWait, KillCommand,
                  Diff, Leave
    <3>2. pc'[j] = label
      BY <1>1, <3>1 DEF GoTo, ReadInv, Typed, TypeOK
    <3> QED BY <3>1, <3>2
  <2> QED BY <1>1, <2>1, <2>2, <2>3, <2>4, <2>5 DEF Steps, Work
<1>2. ASSUME NEW j \in Job, Steps(j), NEW k \in Job \ {j}
      PROVE  Progress(k)'
  BY <1>2, OthersAlone DEF ReadInv, Progress, SideReset, RunsForDumps, Up, Fetched, Restored, Connected,
                           Past, NeedsRestore, OneFile
<1>3. ASSUME NEW j \in Job, ServerUp(j) \/ ServerDies(j), NEW k \in Job
      PROVE  Progress(k)'
  <2>1. /\ UNCHANGED <<pc, side, source, files, db, conn>>
        /\ container'[k] = container[k] \/ (container[k] = "starting" /\ container'[k] = "ready")
             \/ (Running(k) /\ container'[k] = "exited")
    BY <1>3 DEF ServerUp, ServerDies, Running, own, ReadInv, Typed, TypeOK
  <2>2. ASSUME container[k] = "starting", NEW s \in Side
        PROVE  Connected(k, s)'
    BY <2>1, <2>2 DEF ReadInv, Progress, Up, NeedsRestore, Connected, Past
  <2> QED BY <2>1, <2>2 DEF ReadInv, Progress, SideReset, RunsForDumps, Up, Fetched, Restored, Connected,
                            Past, NeedsRestore, OneFile, Running
<1>4. ASSUME CrashServer, NEW k \in Job
      PROVE  Progress(k)'
  BY <1>4 DEF CrashServer, docker, ReadInv, Progress, SideReset, RunsForDumps, Up, Fetched, Restored,
              Connected, Past, NeedsRestore, OneFile, InTry
<1>5. ASSUME UNCHANGED vars, NEW k \in Job
      PROVE  Progress(k)'
  BY <1>5 DEF vars, own, docker, ReadInv, Progress, SideReset, RunsForDumps, Up, Fetched, Restored,
              Connected, Past, NeedsRestore, OneFile
<1>6. ASSUME NEW k \in Job
      PROVE  Progress(k)'
  BY <1>1, <1>2, <1>3, <1>4, <1>5 DEF Next, Steps
<1> QED BY <1>6, TypeStep, PortsStep DEF ReadInv

\* A run whose container lives diffs the dumps it was given, whatever other runs
\* start, restore, download and lose beside it: at its port only its own server
\* answers, and its directory and its databases are its own.
THEOREM DiffsItsOwnDumps == Spec => []RunReadsItsDumps
<1>1. Init => ReadInv
  BY TypeInit DEF Init, ReadInv, Typed, Started, PortsApart, Running, Progress, SideReset, RunsForDumps, Up,
                  Fetched, Restored, Connected, Past, InTry
<1>2. ReadInv /\ [Next]_vars => ReadInv'
  BY ReadStep
<1>3. ReadInv => RunReadsItsDumps
  BY DEF ReadInv, Progress, Restored, Connected, Past, RunReadsItsDumps
<1> QED BY <1>1, <1>2, <1>3, PTL DEF Spec
=============================================================================

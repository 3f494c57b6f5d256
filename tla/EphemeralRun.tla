---------------------------- MODULE EphemeralRun ----------------------------
(***************************************************************************)
(* Runs without the snapshot cache (every web run, and `dbdiff run         *)
(* --no-cache`): dumps are fetched into a directory of the run and         *)
(* restored into a throwaway container, which is removed on the way out.   *)
(* A restore is one step here: modules Restore and RestoreDump are about   *)
(* what it promises.  What a run stores is in DiffRuns.                    *)
(***************************************************************************)
EXTENDS Naturals, FiniteSets

CONSTANTS
  WebJobs,   \* runs in worker threads of one server
  CliJobs,   \* `dbdiff run --no-cache`
  Dumps,     \* dump files, wherever they are
  S3,        \* those that must be downloaded
  Live,      \* a live database given as a DSN
  Name,      \* basename of a dump
  Sources,   \* pairs of sources the runs may be given
  Ports,     \* bound: ports docker may map
  None       \* no dump, no port, no server

Job == WebJobs \cup CliJobs
Side == {"base", "new"}

ASSUME EphemeralRunAssumption ==
  /\ WebJobs \cap CliJobs = {}
  /\ S3 \subseteq Dumps /\ Live \notin Dumps
  /\ Name \in [Dumps -> STRING]
  /\ Sources \subseteq [Side -> Dumps \cup {Live}]

NoSource == [s \in Side |-> None]
Names == {Name[d] : d \in Dumps}

VARIABLES
  pc,         \* where each run is
  side,       \* which of its two sources it is at
  source,     \* the two sources
  files,      \* download directories: the dump found under a basename
  container,  \* docker: the state of the run's container
  volumes,    \* docker: runs whose anonymous volume exists
  port,       \* the host port mapped to the container
  db,         \* the databases `base` and `new` in it
  conn,       \* the server behind each connection of the diff
  faulted     \* runs whose cleanup was prevented from outside

own == <<pc, side, source>>
docker == <<container, volumes, port, db>>
vars == <<own, files, docker, conn, faulted>>

InTry == {"port", "wait", "restore", "connect", "diff"}
Alive == InTry \cup {"parse", "run", "teardown"}

TypeOK ==
  /\ pc \in [Job -> Alive \cup {"idle", "ended", "dead"}]
  /\ side \in [Job -> Side]
  /\ source \in [Job -> Sources \cup {NoSource}]
  /\ files \in [Job -> [Names -> Dumps \cup {None}]]
  /\ container \in [Job -> {"none", "created", "starting", "ready", "exited", "removed"}]
  /\ volumes \subseteq Job
  /\ port \in [Job -> Ports \cup {None}]
  /\ db \in [Job -> [Side -> Dumps \cup {None}]]
  /\ conn \in [Job -> [Side -> Job \cup {Live, None}]]
  /\ faulted \subseteq Job

Init ==
  /\ pc = [j \in Job |-> "idle"]
  /\ side = [j \in Job |-> "base"]
  /\ source = [j \in Job |-> NoSource]
  /\ files = [j \in Job |-> [n \in Names |-> None]]
  /\ container = [j \in Job |-> "none"]
  /\ volumes = {}
  /\ port = [j \in Job |-> None]
  /\ db = [j \in Job |-> [s \in Side |-> None]]
  /\ conn = [j \in Job |-> [s \in Side |-> None]]
  /\ faulted = {}

GoTo(j, label) == pc' = [pc EXCEPT ![j] = label] /\ UNCHANGED <<side, source>>

\* The next source of the run, or after the second one the next stage.
Advance(j, label) ==
  /\ side' = [side EXCEPT ![j] = IF side[j] = "base" THEN "new" ELSE "base"]
  /\ pc' = [pc EXCEPT ![j] = IF side[j] = "base" THEN @ ELSE label]
  /\ UNCHANGED source

Spec1(j) == source[j][side[j]]

\* needs_restore of either source
NeedsRestore(j) == \E s \in Side : source[j][s] # Live

-----------------------------------------------------------------------------
(* run_diff up to the container: the sources are parsed, downloads done.    *)

\* Mutant of Start: the second source may be left out.
StartHalf(j) ==
  /\ pc[j] = "idle"
  /\ \E s \in Sources : source' = [source EXCEPT ![j] = [s EXCEPT !["new"] = None]]
  /\ pc' = [pc EXCEPT ![j] = "parse"]
  /\ UNCHANGED <<side, files, docker, conn, faulted>>

Start(j) ==
  /\ pc[j] = "idle"
  /\ \E s \in Sources : source' = [source EXCEPT ![j] = s]
  /\ pc' = [pc EXCEPT ![j] = "parse"]
  /\ UNCHANGED <<side, files, docker, conn, faulted>>

\* Mutant of DownloadDir: one directory for all runs.
SharedDir(j) == CHOOSE k \in Job : TRUE

\* tempfile.mkdtemp(prefix="dbdiff-")
DownloadDir(j) == j

\* A download replaces what has its name; a local dump is read where it is.
ParseSpec(j) ==
  /\ pc[j] = "parse"
  /\ files' = IF Spec1(j) \in S3
              THEN [files EXCEPT ![DownloadDir(j)][Name[Spec1(j)]] = Spec1(j)]
              ELSE files
  /\ Advance(j, IF NeedsRestore(j) THEN "run" ELSE "connect")
  /\ UNCHANGED <<docker, conn, faulted>>

FileOf(j, d) == IF d \in S3 THEN files[DownloadDir(j)][Name[d]] ELSE d

-----------------------------------------------------------------------------
(* ephemeral_mariadb.                                                       *)

Running(j) == container[j] \in {"starting", "ready"}

\* docker run maps a port that no running container has.
RunContainer(j) ==
  /\ pc[j] = "run"
  /\ \E p \in Ports \ {port[k] : k \in {i \in Job : Running(i)}} : port' = [port EXCEPT ![j] = p]
  /\ container' = [container EXCEPT ![j] = "starting"]
  /\ volumes' = volumes \cup {j}
  /\ GoTo(j, "port")
  /\ UNCHANGED <<files, db, conn, faulted>>

\* docker run fails, or is interrupted, before the try block: the container
\* may have been created by then, and stays.
RunFails(j) ==
  /\ pc[j] = "run"
  /\ \/ UNCHANGED <<container, volumes, faulted>>
     \/ /\ container' = [container EXCEPT ![j] = "created"]
        /\ volumes' = volumes \cup {j}
        /\ faulted' = faulted \cup {j}
  /\ GoTo(j, "ended")
  /\ UNCHANGED <<files, port, db, conn>>

\* docker port prints the mapping of a running container only.
MappedPort(j) ==
  /\ pc[j] = "port"
  /\ Running(j)
  /\ GoTo(j, "wait")
  /\ UNCHANGED <<files, docker, conn, faulted>>

\* The servers that answer at the run's host and port: its own one, unless it
\* has exited and docker has given the port to another run's container.
Answering(j) == {k \in Job : container[k] = "ready" /\ port[k] = port[j]}

WaitReady(j) ==
  /\ pc[j] = "wait"
  /\ Answering(j) # {}
  /\ GoTo(j, "restore")
  /\ UNCHANGED <<files, docker, conn, faulted>>

\* Mutant of NotReady: it gives up on a container that has exited only.
NotReadyIfExited(j) ==
  /\ pc[j] = "wait"
  /\ container[j] = "exited"
  /\ GoTo(j, "teardown")
  /\ UNCHANGED <<files, docker, conn, faulted>>

\* startup_timeout passes.
NotReady(j) ==
  /\ pc[j] = "wait"
  /\ GoTo(j, "teardown")
  /\ UNCHANGED <<files, docker, conn, faulted>>

\* The `with` block of _execute is left, normally or by an exception.
Leave(j) == GoTo(j, IF NeedsRestore(j) THEN "teardown" ELSE "ended")

\* Mutant of RemoveContainer: docker rm -f, without -v.
RemoveKeepingVolume(j) ==
  /\ pc[j] = "teardown"
  /\ container' = [container EXCEPT ![j] = "removed"]
  /\ GoTo(j, "ended")
  /\ UNCHANGED <<files, volumes, port, db, conn, faulted>>

\* docker rm -f -v
RemoveContainer(j) ==
  /\ pc[j] = "teardown"
  /\ container' = [container EXCEPT ![j] = "removed"]
  /\ volumes' = volumes \ {j}
  /\ GoTo(j, "ended")
  /\ UNCHANGED <<files, port, db, conn, faulted>>

\* The log line before it raises (a closed stderr), it is interrupted, or it
\* fails, which nobody looks at.
RemoveFails(j) ==
  /\ pc[j] = "teardown"
  /\ faulted' = faulted \cup {j}
  /\ GoTo(j, "ended")
  /\ UNCHANGED <<files, docker, conn>>

-----------------------------------------------------------------------------
(* _execute inside the container's block.                                   *)

\* Mutant of RestoreSource: the dump goes to the container behind the port.
RestoreAtPort(j) ==
  /\ pc[j] = "restore"
  /\ \/ Spec1(j) = Live /\ UNCHANGED db
     \/ /\ Spec1(j) # Live
        /\ \E k \in Answering(j) : db' = [db EXCEPT ![k][side[j]] = FileOf(j, Spec1(j))]
  /\ Advance(j, "connect")
  /\ UNCHANGED <<files, container, volumes, port, conn, faulted>>

\* _resolve: the database is created through the port, the dump is loaded by
\* docker exec in the container of that name.
RestoreSource(j) ==
  /\ pc[j] = "restore"
  /\ \/ Spec1(j) = Live /\ UNCHANGED db
     \/ /\ Spec1(j) # Live
        /\ Answering(j) # {} /\ container[j] = "ready"
        /\ db' = [db EXCEPT ![j][side[j]] = FileOf(j, Spec1(j))]
  /\ Advance(j, "connect")
  /\ UNCHANGED <<files, container, volumes, port, conn, faulted>>

\* Base first, then new; a dump's endpoint is the host and port.
Connect(j) ==
  /\ pc[j] = "connect"
  /\ \E k \in IF Spec1(j) = Live THEN {Live} ELSE Answering(j) :
       conn' = [conn EXCEPT ![j][side[j]] = k]
  /\ Advance(j, "diff")
  /\ UNCHANGED <<files, docker, faulted>>

Diff(j) ==
  /\ pc[j] = "diff"
  /\ \A s \in Side : conn[j][s] # Live => container[conn[j][s]] = "ready"
  /\ Leave(j)
  /\ UNCHANGED <<files, docker, conn, faulted>>

\* Mutant of Raise: the container is removed after a success only.
RaisePastFinally(j) ==
  /\ pc[j] \in InTry \cup {"parse"}
  /\ GoTo(j, "ended")
  /\ UNCHANGED <<files, docker, conn, faulted>>

\* A download, a docker command, a connection, a restore or a query fails, or
\* a command gets Ctrl-C, which the finally clause sees as well.
Raise(j) ==
  /\ \/ pc[j] = "parse" /\ GoTo(j, "ended")
     \/ pc[j] \in InTry \ {"wait"} /\ Leave(j)
  /\ UNCHANGED <<files, docker, conn, faulted>>

\* Ctrl-C while the command waits for the server.
InterruptWait(j) ==
  /\ j \in CliJobs
  /\ pc[j] = "wait"
  /\ Leave(j)
  /\ UNCHANGED <<files, docker, conn, faulted>>

-----------------------------------------------------------------------------
(* The outside: processes are killed, servers come up and die.              *)

CrashServer ==
  /\ \E j \in WebJobs : pc[j] \in Alive
  /\ pc' = [j \in Job |-> IF j \in WebJobs /\ pc[j] \in Alive THEN "dead" ELSE pc[j]]
  /\ UNCHANGED <<side, source, files, docker, conn, faulted>>

KillCommand(j) ==
  /\ j \in CliJobs
  /\ pc[j] \in Alive
  /\ GoTo(j, "dead")
  /\ UNCHANGED <<files, docker, conn, faulted>>

ServerUp(j) ==
  /\ container[j] = "starting"
  /\ container' = [container EXCEPT ![j] = "ready"]
  /\ UNCHANGED <<own, files, volumes, port, db, conn, faulted>>

\* mysqld dies, of a full disk for one: the container stays, its port is free.
ServerDies(j) ==
  /\ Running(j)
  /\ container' = [container EXCEPT ![j] = "exited"]
  /\ UNCHANGED <<own, files, volumes, port, db, conn, faulted>>

-----------------------------------------------------------------------------
Work(j) ==
  \/ ParseSpec(j) \/ RunContainer(j) \/ RunFails(j) \/ MappedPort(j)
  \/ WaitReady(j) \/ NotReady(j) \/ RestoreSource(j) \/ Connect(j)
  \/ Diff(j) \/ Raise(j) \/ RemoveContainer(j) \/ RemoveFails(j)

Next ==
  \/ \E j \in Job : Start(j) \/ Work(j) \/ InterruptWait(j) \/ KillCommand(j)
  \/ \E j \in Job : ServerUp(j) \/ ServerDies(j)
  \/ CrashServer

Spec == Init /\ [][Next]_vars

\* Workers and commands are scheduled, and their docker commands return.  No
\* server is obliged to come up.
FairSpec == Spec /\ \A j \in Job : WF_vars(Work(j))

-----------------------------------------------------------------------------
(* Properties.                                                              *)

\* Two different downloads of one run that overwrite each other.
OneFile(j) ==
  LET b == source[j]["base"] n == source[j]["new"]
  IN b \in S3 /\ n \in S3 /\ b # n /\ Name[b] = Name[n]

\* While its container lives a run diffs the dumps it was given, each on its
\* side, whatever runs beside it restore and whatever files they download:
\* connecting by port, loading by container name and reading by path agree.
\* (Not if its two downloads have one basename.)
RunReadsItsDumps ==
  \A j \in Job : pc[j] = "diff" /\ container[j] = "ready" /\ ~OneFile(j) =>
    \A s \in Side : source[j][s] # Live => db[conn[j][s]][s] = source[j][s]

\* A run that ends, well or by any exception, leaves neither container nor
\* volume ("the leak this file used to cause"), unless docker run had half
\* created it or docker rm was not reached or failed.
NothingLeft ==
  \A j \in Job \ faulted : pc[j] = "ended" =>
    container[j] \in {"none", "removed"} /\ j \notin volumes

\* No container stays for ever while its process lives: not if the server in
\* it never comes up, nor if it dies at any stage.
ContainersGo ==
  \A j \in Job : container[j] # "none" ~>
    container[j] = "removed" \/ j \in faulted \/ pc[j] = "dead"
=============================================================================

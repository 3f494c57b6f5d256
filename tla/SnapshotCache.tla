--------------------------- MODULE SnapshotCache ----------------------------
(***************************************************************************)
(* The persistent snapshot cache (cache.py) as `dbdiff run` commands use   *)
(* it: each ensures its base and its new snapshot, one action per docker   *)
(* command or SQL statement, then diffs them.  The container is shared by  *)
(* all commands and outlives them; nothing locks it.                       *)
(***************************************************************************)
EXTENDS Integers, FiniteSets

CONSTANTS
  Procs,         \* processes running commands, each one at a time
  Specs,        \* source specs of dumps
  Name,          \* Name[s]: the schema of spec s (schema_for of its basename)
  Local,         \* the specs that are the user's own local files
  Wants,         \* Wants[p]: the pairs <<base, new>> that p may diff
  Parts,         \* tables in a dump, restored in order
  MaxSnapshots,  \* cache.max_snapshots
  MaxCommands,   \* bound: commands started
  Serial,        \* TRUE: a command starts only when no other is running
  Stops,         \* TRUE: the container may be stopped from outside
  Ties           \* TRUE: two uses may get one time (DATETIME keeps seconds)

Schema == {Name[s] : s \in Specs}
Missing == "missing"

ASSUME SnapshotCacheAssumption ==
  /\ Missing \notin Specs
  /\ Local \subseteq Specs
  /\ Wants \in [Procs -> SUBSET (Specs \X Specs)]
  /\ Parts \in Nat \ {0} /\ MaxSnapshots \in Nat /\ MaxCommands \in Nat
  /\ {Serial, Stops, Ties} \subseteq BOOLEAN

VARIABLES
  server,     \* the cache container: absent, stopped, starting or running
  gen,        \* which container it is: a new one has a new port
  content,    \* the databases in it: content[schema][i] is where table i is from
  registry,   \* rows of _dbdiff_cache.snapshots: last_used by schema
  clock,      \* the latest last_used given
  files,      \* local dump files that exist
  started,    \* commands started so far
  pc,         \* where each process is
  want,       \* <<base, new>> of its command
  side,       \* the one being ensured, 1 or 2
  cont,       \* its memoised container, 0 if none
  loaded,     \* tables of the dump it has restored so far
  victims,    \* schemas it has yet to evict
  dropping    \* the one whose database it has dropped, but not its row

world == <<server, gen, content, registry, clock, files>>
local == <<started, want, side, cont, loaded, victims, dropping>>
vars == <<world, local, pc>>

Label == {"inspect", "rm", "run", "new_port", "port", "wait", "init", "has", "has_schema", "touch",
          "fetch", "drop", "unregister", "create", "load", "register", "unlink",
          "select", "evict", "evict_row", "diff"}

TypeOK ==
  /\ server \in {"absent", "stopped", "starting", "running"}
  /\ gen \in Nat
  /\ DOMAIN content \subseteq Schema
  /\ \A s \in DOMAIN content : content[s] \in [1..Parts -> Specs \cup {Missing}]
  /\ DOMAIN registry \subseteq Schema
  /\ \A s \in DOMAIN registry : registry[s] \in 0..clock
  /\ clock \in Nat
  /\ files \subseteq Local
  /\ started \in 0..MaxCommands
  /\ pc \in [Procs -> Label \cup {"idle"}]
  /\ want \in [Procs -> Specs \X Specs]
  /\ side \in [Procs -> {1, 2}]
  /\ cont \in [Procs -> Nat]
  /\ loaded \in [Procs -> 0..Parts]
  /\ victims \in [Procs -> SUBSET Schema]
  /\ dropping \in [Procs -> SUBSET Schema]

Nothing == [s \in {} |-> 0]

Init ==
  /\ server = "absent"
  /\ gen = 0
  /\ content = Nothing
  /\ registry = Nothing
  /\ clock = 0
  /\ files = Local
  /\ started = 0
  /\ pc = [p \in Procs |-> "idle"]
  /\ want \in [Procs -> Specs \X Specs]
  /\ side = [p \in Procs |-> 1]
  /\ cont = [p \in Procs |-> 0]
  /\ loaded = [p \in Procs |-> 0]
  /\ victims = [p \in Procs |-> {}]
  /\ dropping = [p \in Procs |-> {}]

-----------------------------------------------------------------------------
Of(p) == want[p][side[p]]        \* the spec being ensured
SchemaOf(p) == Name[Of(p)]

\* A connection to the memoised host and port succeeds.
Connects(p) == server = "running" /\ cont[p] = gen

GoTo(p, label) == pc' = [pc EXCEPT ![p] = label]
At(p, label) == pc[p] = label

Put(f, s, v) == [x \in DOMAIN f \cup {s} |-> IF x = s THEN v ELSE f[x]]
Without(f, s) == [x \in DOMAIN f \ {s} |-> f[x]]

RemoveContainer ==
  /\ server' = "absent"
  /\ content' = Nothing
  /\ registry' = Nothing

Begin(p) ==
  /\ At(p, "idle")
  /\ started < MaxCommands
  /\ Serial => \A q \in Procs : At(q, "idle")
  /\ started' = started + 1
  /\ want' \in {[want EXCEPT ![p] = w] : w \in Wants[p]}
  /\ side' = [side EXCEPT ![p] = 1]
  /\ cont' = [cont EXCEPT ![p] = 0]
  /\ loaded' = [loaded EXCEPT ![p] = 0]
  /\ victims' = [victims EXCEPT ![p] = {}]
  /\ dropping' = [dropping EXCEPT ![p] = {}]
  /\ GoTo(p, "inspect")
  /\ UNCHANGED world

-----------------------------------------------------------------------------
(* _container: a container that runs is taken as it is, one that does not   *)
(* is removed with its volume and replaced.                                 *)

Inspect(p) ==
  /\ At(p, "inspect")
  /\ GoTo(p, IF server \in {"starting", "running"} THEN "port" ELSE "rm")
  /\ UNCHANGED <<world, local>>

Remove(p) ==
  /\ At(p, "rm")
  /\ RemoveContainer
  /\ GoTo(p, "run")
  /\ UNCHANGED <<gen, clock, files, local>>

\* docker run fails if another process has started one of that name meanwhile.
Run(p) ==
  /\ At(p, "run")
  /\ server = "absent"
  /\ server' = "starting"
  /\ gen' = gen + 1
  /\ GoTo(p, "new_port")
  /\ UNCHANGED <<content, registry, clock, files, local>>

\* The port of whatever container has the name now; only who started one waits
\* for the server in it.
MapPort(p) ==
  /\ pc[p] \in {"new_port", "port"}
  /\ server \in {"starting", "running"}
  /\ cont' = [cont EXCEPT ![p] = gen]
  /\ GoTo(p, IF At(p, "port") THEN "init" ELSE "wait")
  /\ UNCHANGED <<world, started, want, side, loaded, victims, dropping>>

WaitReady(p) ==
  /\ At(p, "wait")
  /\ Connects(p)
  /\ GoTo(p, "init")
  /\ UNCHANGED <<world, local>>

InitRegistry(p) ==
  /\ At(p, "init")
  /\ Connects(p)
  /\ GoTo(p, "has")
  /\ UNCHANGED <<world, local>>

-----------------------------------------------------------------------------
(* ensure: a hit needs the registry row and the schema; a miss replaces     *)
(* both, registers the schema last and evicts what is over the cap.         *)

Has(p) ==
  /\ At(p, "has")
  /\ Connects(p)
  /\ GoTo(p, IF SchemaOf(p) \in DOMAIN registry THEN "has_schema" ELSE "fetch")
  /\ UNCHANGED <<world, local>>

HasSchema(p) ==
  /\ At(p, "has_schema")
  /\ Connects(p)
  /\ GoTo(p, IF SchemaOf(p) \in DOMAIN content THEN "touch" ELSE "fetch")
  /\ UNCHANGED <<world, local>>

\* ensure returns: the other side is ensured next, then both are diffed.
Return(p) ==
  /\ GoTo(p, IF side[p] = 1 THEN "has" ELSE "diff")
  /\ side' = [side EXCEPT ![p] = 2]

\* datetime.now(), kept to the second.
Now == IF Ties /\ clock > 0 THEN {clock, clock + 1} ELSE {clock + 1}

\* Mutant of Touch: a hit does not count as a use.
TouchNothing(p) ==
  /\ At(p, "touch")
  /\ Connects(p)
  /\ Return(p)
  /\ UNCHANGED <<world, started, want, cont, loaded, victims, dropping>>

Touch(p) ==
  /\ At(p, "touch")
  /\ Connects(p)
  /\ clock' \in Now
  /\ registry' = IF SchemaOf(p) \in DOMAIN registry
                 THEN Put(registry, SchemaOf(p), clock') ELSE registry
  /\ Return(p)
  /\ UNCHANGED <<server, gen, content, files, started, want, cont, loaded, victims, dropping>>

\* parse_spec: a download, or a check that the local file is there.
Fetch(p) ==
  /\ At(p, "fetch")
  /\ Of(p) \in Local => Of(p) \in files
  /\ GoTo(p, "drop")
  /\ UNCHANGED <<world, local>>

DropDatabase(p) ==
  /\ At(p, "drop")
  /\ Connects(p)
  /\ content' = Without(content, SchemaOf(p))
  /\ GoTo(p, "unregister")
  /\ UNCHANGED <<server, gen, registry, clock, files, local>>

\* Mutant of DeleteRow: a miss does not take the old registration back.
KeepRow(p) ==
  /\ At(p, "unregister")
  /\ Connects(p)
  /\ GoTo(p, "create")
  /\ UNCHANGED <<world, local>>

DeleteRow(p) ==
  /\ At(p, "unregister")
  /\ Connects(p)
  /\ registry' = Without(registry, SchemaOf(p))
  /\ GoTo(p, "create")
  /\ UNCHANGED <<server, gen, content, clock, files, local>>

\* CREATE DATABASE IF NOT EXISTS
CreateDatabase(p) ==
  /\ At(p, "create")
  /\ Connects(p)
  /\ content' = IF SchemaOf(p) \in DOMAIN content THEN content
                ELSE Put(content, SchemaOf(p), [i \in 1..Parts |-> Missing])
  /\ loaded' = [loaded EXCEPT ![p] = 0]
  /\ GoTo(p, "load")
  /\ UNCHANGED <<server, gen, registry, clock, files, started, want, side, cont, victims, dropping>>

\* Mutant of LoadTable: one table too many is read from the dump.
LoadPastEnd(p) ==
  /\ At(p, "load")
  /\ Connects(p)
  /\ SchemaOf(p) \in DOMAIN content
  /\ content' = [content EXCEPT ![SchemaOf(p)] = [i \in 1..(loaded[p] + 1) |-> Of(p)]]
  /\ loaded' = [loaded EXCEPT ![p] = @ + 1]
  /\ GoTo(p, IF loaded[p] = Parts THEN "register" ELSE "load")
  /\ UNCHANGED <<server, gen, registry, clock, files, started, want, side, cont, victims, dropping>>

\* The client, in the container, replaces the dump's tables one by one.
LoadTable(p) ==
  /\ At(p, "load")
  /\ Connects(p)
  /\ SchemaOf(p) \in DOMAIN content
  /\ content' = [content EXCEPT ![SchemaOf(p)][loaded[p] + 1] = Of(p)]
  /\ loaded' = [loaded EXCEPT ![p] = @ + 1]
  /\ GoTo(p, IF loaded[p] + 1 = Parts THEN "register" ELSE "load")
  /\ UNCHANGED <<server, gen, registry, clock, files, started, want, side, cont, victims, dropping>>

Register(p) ==
  /\ At(p, "register")
  /\ Connects(p)
  /\ clock' \in Now
  /\ registry' = Put(registry, SchemaOf(p), clock')
  /\ GoTo(p, "unlink")
  /\ UNCHANGED <<server, gen, content, files, local>>

\* The dump file is removed, be it a download or the user's own.
Unlink(p) ==
  /\ At(p, "unlink")
  /\ files' = files \ {Of(p)}
  /\ GoTo(p, "select")
  /\ UNCHANGED <<server, gen, content, registry, clock, local>>

\* Mutant of OverCap: only one snapshot is evicted, however many are over.
OldestOnly(V) ==
  /\ Cardinality(V) = IF Cardinality(DOMAIN registry) > MaxSnapshots THEN 1 ELSE 0
  /\ \A v \in V, s \in DOMAIN registry \ V : registry[v] <= registry[s]

\* Mutant of OverCap: ordered[:max_snapshots].
WithinCap(V) ==
  /\ Cardinality(V) = IF Cardinality(DOMAIN registry) > MaxSnapshots
                      THEN MaxSnapshots ELSE Cardinality(DOMAIN registry)
  /\ \A v \in V, s \in DOMAIN registry \ V : registry[v] >= registry[s]

\* ordered[max_snapshots:] of the rows by last_used, latest first.
OverCap(V) ==
  /\ Cardinality(V) = IF Cardinality(DOMAIN registry) > MaxSnapshots
                      THEN Cardinality(DOMAIN registry) - MaxSnapshots ELSE 0
  /\ \A v \in V, s \in DOMAIN registry \ V : registry[v] <= registry[s]

SelectVictims(p) ==
  /\ At(p, "select")
  /\ Connects(p)
  /\ \E V \in SUBSET DOMAIN registry :
       /\ OverCap(V)
       /\ victims' = [victims EXCEPT ![p] = V \ {SchemaOf(p)}]
  /\ GoTo(p, "evict")
  /\ UNCHANGED <<world, started, want, side, cont, loaded, dropping>>

\* _drop of one victim after the other.
EvictDatabase(p) ==
  /\ At(p, "evict")
  /\ Connects(p)
  /\ \E s \in victims[p] :
       /\ content' = Without(content, s)
       /\ victims' = [victims EXCEPT ![p] = @ \ {s}]
       /\ dropping' = [dropping EXCEPT ![p] = {s}]
  /\ GoTo(p, "evict_row")
  /\ UNCHANGED <<server, gen, registry, clock, files, started, want, side, cont, loaded>>

EvictRow(p) ==
  /\ At(p, "evict_row")
  /\ Connects(p)
  /\ registry' = [s \in DOMAIN registry \ dropping[p] |-> registry[s]]
  /\ dropping' = [dropping EXCEPT ![p] = {}]
  /\ GoTo(p, "evict")
  /\ UNCHANGED <<server, gen, content, clock, files, started, want, side, cont, loaded, victims>>

Evicted(p) ==
  /\ At(p, "evict")
  /\ victims[p] = {}
  /\ Return(p)
  /\ UNCHANGED <<world, started, want, cont, loaded, victims, dropping>>

\* Both endpoints have been read; the command ends.
FinishDiff(p) ==
  /\ At(p, "diff")
  /\ GoTo(p, "idle")
  /\ UNCHANGED <<world, local>>

\* A docker command, a download, a restore or a statement fails, or the
\* process is killed.  The cache undoes nothing either way.
Raise(p) ==
  /\ ~At(p, "idle")
  /\ GoTo(p, "idle")
  /\ UNCHANGED <<world, local>>

\* `dbdiff cache clear`
Clear ==
  /\ started < MaxCommands
  /\ Serial => \A q \in Procs : At(q, "idle")
  /\ started' = started + 1
  /\ RemoveContainer
  /\ UNCHANGED <<gen, clock, files, want, side, cont, loaded, victims, dropping, pc>>

-----------------------------------------------------------------------------
(* The container on its own.                                                *)

AcceptConnections ==
  /\ server = "starting"
  /\ server' = "running"
  /\ UNCHANGED <<gen, content, registry, clock, files, local, pc>>

Stop ==
  /\ Stops
  /\ server \in {"starting", "running"}
  /\ server' = "stopped"
  /\ UNCHANGED <<gen, content, registry, clock, files, local, pc>>

Ensure(p) ==
  \/ Inspect(p) \/ Remove(p) \/ Run(p) \/ MapPort(p) \/ WaitReady(p) \/ InitRegistry(p)
  \/ Has(p) \/ HasSchema(p) \/ Touch(p)
  \/ Fetch(p) \/ DropDatabase(p) \/ DeleteRow(p) \/ CreateDatabase(p) \/ LoadTable(p)
  \/ Register(p) \/ Unlink(p)
  \/ SelectVictims(p) \/ EvictDatabase(p) \/ EvictRow(p) \/ Evicted(p)

Next ==
  \/ \E p \in Procs : Begin(p) \/ Ensure(p) \/ FinishDiff(p) \/ Raise(p)
  \/ Clear \/ AcceptConnections \/ Stop

Spec == Init /\ [][Next]_vars

-----------------------------------------------------------------------------
(* Properties.                                                              *)

Whole(s) == [i \in 1..Parts |-> s]

Reading(p) == At(p, "diff") /\ Connects(p)

\* What a diff reads on each side is the whole dump its spec names: no partial
\* restore of a killed command is taken for a hit, no endpoint is evicted or
\* replaced between its ensure and the diff, no other dump answers for it.
DiffReadsItsDumps ==
  \A p \in Procs : Reading(p) =>
    \A i \in {1, 2} :
      /\ Name[want[p][i]] \in DOMAIN content
      /\ content[Name[want[p][i]]] = Whole(want[p][i])

\* A snapshot that is registered and has a database is whole.
RegisteredIsWhole ==
  \A s \in DOMAIN registry \cap DOMAIN content :
    \E d \in Specs : Name[d] = s /\ content[s] = Whole(d)

\* No more than one process is past "idle" when commands do not overlap.
OneAtATime == \A p, q \in Procs : p = q \/ At(p, "idle") \/ At(q, "idle")

LoadInBounds == \A p \in Procs : At(p, "load") => loaded[p] < Parts

\* A schema is out of the registry from before its database is filled until
\* the dump is whole in it.
Restoring(p) ==
  /\ pc[p] \in {"create", "load", "register"} => SchemaOf(p) \notin DOMAIN registry
  /\ At(p, "load") /\ SchemaOf(p) \in DOMAIN content =>
       \A i \in 1..loaded[p] : content[SchemaOf(p)][i] = Of(p)
  /\ At(p, "register") /\ SchemaOf(p) \in DOMAIN content =>
       content[SchemaOf(p)] = Whole(Of(p))

\* Inductive when commands do not overlap.
IInv ==
  /\ TypeOK
  /\ LoadInBounds
  /\ OneAtATime
  /\ RegisteredIsWhole
  /\ \A p \in Procs : Restoring(p)

\* When ensure returns from a miss the registry is back under the cap,
\* whatever earlier commands that were killed had left over it.
CapHoldsAfterMiss ==
  \A p \in Procs : At(p, "evict") /\ victims[p] = {} =>
    Cardinality(DOMAIN registry) <= MaxSnapshots
=============================================================================

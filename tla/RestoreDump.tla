---------------------------- MODULE RestoreDump -----------------------------
(***************************************************************************)
(* restore_dump: a writer thread feeds a dump to the client's stdin pipe   *)
(* while the main thread drains its stderr pipe, both pipes being bounded. *)
(***************************************************************************)
EXTENDS Naturals

CONSTANTS
  Chunks,     \* chunks of the dump (1 MiB each, the last one shorter)
  PipeSize,   \* chunks the stdin pipe holds
  ErrSize,    \* lines the stderr pipe holds
  MaxLines    \* bound: lines the client prints about one chunk

ASSUME RestoreDumpAssumption ==
  Chunks \in Nat \ {0} /\ PipeSize \in Nat \ {0} /\ ErrSize \in Nat \ {0} /\ MaxLines \in Nat

VARIABLES
  writer,      \* the writer thread: read, write, close or ended
  sent,        \* chunks written by it
  buffered,    \* chunks, one at most, still in proc.stdin's own buffer
  feed_error,  \* it caught an exception
  stdin,       \* chunks in the stdin pipe
  client,      \* what docker exec tells of the client: running, failing, a status,
               \* or killed, which says nothing of the client in the container
  applied,     \* chunks it has executed
  lines,       \* lines it has yet to print before it goes on
  stderr,      \* lines in the stderr pipe
  main         \* the main thread: drain, join, report, returned or raised

feed == <<writer, sent, buffered, feed_error>>
exec == <<client, applied, lines>>
vars == <<feed, stdin, exec, stderr, main>>

\* The write end of the stdin pipe is closed.
InputEnded == writer = "ended"

Exited == client \in {"exit0", "exit1", "killed"}

TypeOK ==
  /\ writer \in {"read", "write", "close", "ended"}
  /\ sent \in 0..Chunks
  /\ buffered \in {0, 1}
  /\ feed_error \in BOOLEAN
  /\ stdin \in 0..PipeSize
  /\ client \in {"running", "failing", "exit0", "exit1", "killed"}
  /\ applied \in 0..Chunks
  /\ lines \in 0..MaxLines + 1
  /\ stderr \in 0..ErrSize
  /\ main \in {"drain", "join", "report", "returned", "raised"}

Init ==
  /\ writer = "read" /\ sent = 0 /\ buffered = 0 /\ feed_error = FALSE
  /\ stdin = 0
  /\ client = "running" /\ applied = 0 /\ lines = 0
  /\ stderr = 0
  /\ main = "drain"

-----------------------------------------------------------------------------
(* _feed, in the writer thread.                                             *)

\* Mutant of ReadChunk: the end of the file is not noticed.
ReadPastEnd ==
  /\ writer = "read"
  /\ writer' = "write"
  /\ UNCHANGED <<sent, buffered, feed_error, stdin, exec, stderr, main>>

ReadChunk ==
  /\ writer = "read"
  /\ writer' = IF sent < Chunks THEN "write" ELSE "close"
  /\ UNCHANGED <<sent, buffered, feed_error, stdin, exec, stderr, main>>

\* Mutant of ReadFails: the exception is dropped.
ReadFailsSilently ==
  /\ writer = "read"
  /\ writer' = "close"
  /\ UNCHANGED <<sent, buffered, feed_error, stdin, exec, stderr, main>>

\* The file cannot be opened, or its gzip stream is cut or corrupt.
ReadFails ==
  /\ writer = "read"
  /\ feed_error' = TRUE
  /\ writer' = "close"
  /\ UNCHANGED <<sent, buffered, stdin, exec, stderr, main>>

\* A write blocks while the pipe is full.  Only the last chunk may be so short
\* that it stays in the buffer of proc.stdin.
WriteChunk ==
  /\ writer = "write"
  /\ sent' = sent + 1
  /\ \/ /\ ~Exited
        /\ stdin < PipeSize
        /\ stdin' = stdin + 1
        /\ UNCHANGED buffered
     \/ /\ sent + 1 = Chunks
        /\ buffered' = 1
        /\ UNCHANGED stdin
  /\ writer' = "read"
  /\ UNCHANGED <<feed_error, exec, stderr, main>>

BrokenPipe ==
  /\ writer = "write"
  /\ Exited
  /\ feed_error' = TRUE
  /\ writer' = "close"
  /\ UNCHANGED <<sent, buffered, stdin, exec, stderr, main>>

\* Mutant of CloseStdin: the pipe is closed under the buffer.
CloseUnflushed ==
  /\ writer = "close"
  /\ buffered' = 0
  /\ writer' = "ended"
  /\ UNCHANGED <<sent, feed_error, stdin, exec, stderr, main>>

\* close() flushes the buffer, which blocks too; its BrokenPipeError is passed.
CloseStdin ==
  /\ writer = "close"
  /\ \/ ~Exited /\ stdin + buffered <= PipeSize /\ stdin' = stdin + buffered
     \/ Exited /\ UNCHANGED stdin
  /\ buffered' = 0
  /\ writer' = "ended"
  /\ UNCHANGED <<sent, feed_error, exec, stderr, main>>

-----------------------------------------------------------------------------
(* The client behind docker exec.                                           *)

Execute ==
  /\ client = "running" /\ lines = 0
  /\ stdin > 0
  /\ stdin' = stdin - 1
  /\ applied' = applied + 1
  /\ lines' \in 0..MaxLines
  /\ UNCHANGED <<feed, client, stderr, main>>

\* A statement fails: the client prints an error and exits.
StatementFails ==
  /\ client = "running" /\ lines = 0
  /\ stdin > 0
  /\ client' = "failing"
  /\ lines' \in 1..MaxLines + 1
  /\ UNCHANGED <<feed, stdin, applied, stderr, main>>

\* Printing blocks while the pipe is full.
PrintLine ==
  /\ ~Exited
  /\ lines > 0
  /\ stderr < ErrSize
  /\ stderr' = stderr + 1
  /\ lines' = lines - 1
  /\ UNCHANGED <<feed, stdin, client, applied, main>>

ClientExits ==
  /\ lines = 0
  /\ \/ client = "running" /\ InputEnded /\ stdin = 0 /\ client' = "exit0"
     \/ client = "failing" /\ client' = "exit1"
  /\ UNCHANGED <<feed, stdin, applied, lines, stderr, main>>

\* The container dies, and the client in it.
ClientDies ==
  /\ ~Exited
  /\ client' = "exit1"
  /\ UNCHANGED <<feed, stdin, applied, lines, stderr, main>>

\* docker exec is killed, the client in the container is not.  (A failing one
\* executes nothing more, so that ClientDies stands for this too.)
ExecKilled ==
  /\ client = "running"
  /\ client' = "killed"
  /\ UNCHANGED <<feed, stdin, applied, lines, stderr, main>>

\* It executes what it was sent already, whatever the caller does meanwhile.
ExecuteLate ==
  /\ client = "killed"
  /\ stdin > 0
  /\ stdin' = stdin - 1
  /\ applied' = applied + 1
  /\ UNCHANGED <<feed, client, lines, stderr, main>>

-----------------------------------------------------------------------------
(* The main thread.                                                         *)

\* Mutant of Drain: stderr is read after the writer has been joined.
DrainAfterJoin ==
  /\ main = "drain"
  /\ writer = "ended"
  /\ stderr > 0
  /\ stderr' = stderr - 1
  /\ UNCHANGED <<feed, stdin, exec, main>>

Drain ==
  /\ main = "drain"
  /\ stderr > 0
  /\ stderr' = stderr - 1
  /\ UNCHANGED <<feed, stdin, exec, main>>

\* read() returns when the client has exited and its pipe is empty.
ErrorsEnd ==
  /\ main = "drain"
  /\ stderr = 0 /\ Exited
  /\ main' = "join"
  /\ UNCHANGED <<feed, stdin, exec, stderr>>

JoinWriter ==
  /\ main = "join"
  /\ writer = "ended"
  /\ main' = "report"
  /\ UNCHANGED <<feed, stdin, exec, stderr>>

\* Mutant of Report: the client's status is not looked at.
ReportFeedOnly ==
  /\ main = "report"
  /\ Exited
  /\ main' = IF feed_error THEN "raised" ELSE "returned"
  /\ UNCHANGED <<feed, stdin, exec, stderr>>

\* proc.wait(), then feed_error before the client's status.
Report ==
  /\ main = "report"
  /\ Exited
  /\ main' = IF feed_error \/ client # "exit0" THEN "raised" ELSE "returned"
  /\ UNCHANGED <<feed, stdin, exec, stderr>>

-----------------------------------------------------------------------------
Feed == ReadChunk \/ ReadFails \/ WriteChunk \/ BrokenPipe \/ CloseStdin
Client == Execute \/ StatementFails \/ PrintLine \/ ClientExits
Main == Drain \/ ErrorsEnd \/ JoinWriter \/ Report

Faults == ClientDies \/ ExecKilled \/ ExecuteLate

Next == Feed \/ Client \/ Faults \/ Main

Spec == Init /\ [][Next]_vars

\* The two threads are scheduled and the client goes on when it can; nothing
\* obliges a read or a statement to fail, the client to die or to go on alone.
Fairness == WF_vars(Feed) /\ WF_vars(Client) /\ WF_vars(Main)

FairSpec == Spec /\ Fairness

-----------------------------------------------------------------------------
(* Properties.                                                              *)

\* A restore that returns has loaded the whole dump: neither a read error, nor
\* a client that died or stopped at an error, nor bytes lost in a closing pipe
\* is taken for success.
SuccessIsWhole == main = "returned" => applied = Chunks

Caller == INSTANCE Restore WITH
  loaded   <- applied,
  outcome  <- IF main \in {"returned", "raised"} THEN main ELSE "pending",
  orphaned <- client = "killed"

\* restore_dump is the restore its callers rely on: when it has returned or
\* raised the client is gone, so dropping the schema and trying again meets no
\* late writer, unless docker exec was killed and left the client behind.
RefinesRestore == Caller!Spec

\* The writer, the client and the main thread never wait for each other for
\* good: "a full stderr pipe can never deadlock against our writes".
RestoreEnds == <>(main \in {"returned", "raised"})

\* What TypeOK and SuccessIsWhole rest on: chunks are neither lost nor made up
\* between the writer and the client while the client lives, and it exits
\* with 0 only at the end of its input.
IInv ==
  /\ TypeOK
  /\ ~Exited => applied + stdin + buffered = sent
  /\ applied + stdin + buffered <= sent
  /\ writer = "write" => sent < Chunks
  /\ buffered = 1 => sent = Chunks /\ writer \in {"read", "close"}
  /\ writer \in {"close", "ended"} /\ ~feed_error => sent = Chunks
  /\ client = "exit0" => InputEnded /\ stdin = 0 /\ applied = sent
  /\ main \in {"join", "report", "returned", "raised"} => Exited
  /\ main \in {"report", "returned", "raised"} => writer = "ended"
  /\ main = "returned" => client = "exit0" /\ ~feed_error
=============================================================================

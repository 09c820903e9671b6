------------------------- MODULE TippecanoeProcess -------------------------
(***************************************************************************)
(* One tippecanoe pass (geometry/pmtiles/_process.py): the build loop that *)
(* writes batches into the process's stdin, the process, the thread that   *)
(* drains its stderr, and the idle-timeout watchdog of finish().           *)
(*                                                                         *)
(* Time passes in ticks.  The process itself is external: it reads, logs,  *)
(* may stall or fail at any moment, and exits with 0 only once its input   *)
(* has ended and is read.                                                  *)
(***************************************************************************)
EXTENDS Naturals

CONSTANTS
    Batches,        \* the batches of the query
    PipeCapacity,   \* what fits in the stdin pipe
    LogCapacity,    \* what fits in the stderr pipe
    IdleTimeout     \* options.idle_timeout_seconds, in ticks

ASSUME TippecanoeProcessAssumption ==
    {Batches, PipeCapacity, LogCapacity, IdleTimeout} \subseteq Nat \ {0}

VARIABLES
    pc,         \* where the build loop is
    written,    \* batches written
    tail,       \* whether Python still buffers the end of the last batch
    stdin,      \* what the pipe holds
    eof,        \* stdin has been closed
    process, code,
    stderr,     \* log lines not yet drained
    drain,      \* the draining thread
    quiet       \* ticks since the last touch, up to the timeout

vars == <<pc, written, tail, stdin, eof, process, code, stderr, drain, quiet>>
outside == <<process, code, stderr, drain>>

Ended == {"done", "raised"}
Phase == {"feeding", "writing", "closing", "checking", "polling", "exited", "aborting"} \cup Ended

TypeOK ==
    /\ pc \in Phase
    /\ written \in 0..Batches
    /\ tail \in BOOLEAN
    /\ stdin \in 0..PipeCapacity
    /\ eof \in BOOLEAN
    /\ process \in {"running", "stalled", "exited"}
    /\ code \in {"none", "zero", "nonzero"}
    /\ stderr \in 0..LogCapacity
    /\ drain \in {"reading", "ended"}
    /\ quiet \in 0..IdleTimeout

Init ==
    /\ pc = "feeding" /\ written = 0 /\ tail = FALSE
    /\ stdin = 0 /\ eof = FALSE
    /\ process = "running" /\ code = "none"
    /\ stderr = 0 /\ drain = "reading" /\ quiet = 0

-----------------------------------------------------------------------------
\* The build loop.

\* The next batch of the query: write() refuses a process that has exited.
NextBatch ==
    /\ pc = "feeding" /\ written < Batches
    /\ pc' = IF process = "exited" THEN "aborting" ELSE "writing"
    /\ UNCHANGED <<written, tail, stdin, eof, outside, quiet>>

\* The query raises.
QueryFails ==
    /\ pc = "feeding"
    /\ pc' = "aborting"
    /\ UNCHANGED <<written, tail, stdin, eof, outside, quiet>>

\* stdin.write(data) blocks while the pipe is full; the end of a batch may stay
\* in Python's buffer.
Write ==
    /\ pc = "writing" /\ process # "exited" /\ stdin < PipeCapacity
    /\ stdin' = stdin + 1
    /\ written' = written + 1
    /\ tail' \in BOOLEAN
    /\ quiet' = 0
    /\ pc' = "feeding"
    /\ UNCHANGED <<eof, outside>>

\* BrokenPipeError: _exited_early reports the exit code.
WriteBreaks ==
    /\ pc = "writing" /\ process = "exited"
    /\ pc' = "aborting"
    /\ UNCHANGED <<written, tail, stdin, eof, outside, quiet>>

\* The last batch is written and __exit__ calls finish().
Finish ==
    /\ pc = "feeding" /\ written = Batches
    /\ pc' = "closing"
    /\ UNCHANGED <<written, tail, stdin, eof, outside, quiet>>

\* Mutations of CloseStdin: the tail is put in a pipe that is full; or stdin is
\* flushed and left open.
CloseStdinAtOnce ==
    /\ stdin' = IF tail /\ process # "exited" THEN stdin + 1 ELSE stdin
    /\ tail' = FALSE
    /\ eof' = TRUE

FlushStdin ==
    /\ tail /\ process # "exited" => stdin < PipeCapacity
    /\ stdin' = IF tail /\ process # "exited" THEN stdin + 1 ELSE stdin
    /\ tail' = FALSE
    /\ UNCHANGED eof

\* stdin.close() flushes the buffered tail: it blocks on a full pipe, and finds
\* the pipe broken when the process has exited.
CloseStdin ==
    /\ tail /\ process # "exited" => stdin < PipeCapacity
    /\ stdin' = IF tail /\ process # "exited" THEN stdin + 1 ELSE stdin
    /\ tail' = FALSE
    /\ eof' = TRUE

Close ==
    /\ pc = "closing"
    /\ CloseStdin
    /\ pc' = "checking"
    /\ UNCHANGED <<written, outside, quiet>>

\* process.kill(), which does nothing to a process that has exited.
Kill ==
    /\ process' = "exited"
    /\ code' = IF process = "exited" THEN code ELSE "nonzero"
    /\ UNCHANGED <<stderr, drain>>

\* _wait_with_idle_timeout looks at the clock first: a process that has been
\* quiet for the timeout is killed, and finish() raises.
Fires ==
    /\ pc = "checking" /\ quiet = IdleTimeout
    /\ Kill
    /\ pc' = "raised"
    /\ UNCHANGED <<written, tail, stdin, eof, quiet>>

Poll ==
    /\ pc = "checking" /\ quiet < IdleTimeout
    /\ pc' = "polling"
    /\ UNCHANGED <<written, tail, stdin, eof, outside, quiet>>

PollEnds ==
    /\ pc = "polling"
    /\ pc' = IF process = "exited" THEN "exited" ELSE "checking"
    /\ UNCHANGED <<written, tail, stdin, eof, outside, quiet>>

\* Mutation of Report: the exit code is not looked at.
ReportSuccess ==
    /\ pc = "exited"
    /\ pc' = "done"
    /\ UNCHANGED <<written, tail, stdin, eof, outside, quiet>>

Report ==
    /\ pc = "exited"
    /\ pc' = IF code = "zero" THEN "done" ELSE "raised"
    /\ UNCHANGED <<written, tail, stdin, eof, outside, quiet>>

\* Mutation of Abort: the process is left running.
AbortClosesOnly ==
    /\ pc = "aborting"
    /\ CloseStdin
    /\ pc' = "raised"
    /\ UNCHANGED <<written, outside, quiet>>

\* abort(): close stdin, then kill and reap the process.
Abort ==
    /\ pc = "aborting"
    /\ CloseStdin
    /\ Kill
    /\ pc' = "raised"
    /\ UNCHANGED <<written, quiet>>

-----------------------------------------------------------------------------
\* The process, and the thread that drains its stderr.
Reads ==
    /\ process = "running" /\ stdin > 0
    /\ stdin' = stdin - 1
    /\ UNCHANGED <<pc, written, tail, eof, outside, quiet>>

Logs ==
    /\ process = "running" /\ stderr < LogCapacity
    /\ stderr' = stderr + 1
    /\ UNCHANGED <<pc, written, tail, stdin, eof, process, code, drain, quiet>>

Stalls ==
    /\ process = "running"
    /\ process' = "stalled"
    /\ UNCHANGED <<pc, written, tail, stdin, eof, code, stderr, drain, quiet>>

Exits ==
    /\ process = "running" /\ eof /\ stdin = 0
    /\ process' = "exited" /\ code' = "zero"
    /\ UNCHANGED <<pc, written, tail, stdin, eof, stderr, drain, quiet>>

Dies ==
    /\ process = "running"
    /\ process' = "exited" /\ code' = "nonzero"
    /\ UNCHANGED <<pc, written, tail, stdin, eof, stderr, drain, quiet>>

\* Mutation of Drain: the thread touches the clock even when nothing is read.
DrainTouches ==
    /\ drain = "reading" /\ (stderr > 0 \/ process # "exited")
    /\ stderr' = IF stderr > 0 THEN stderr - 1 ELSE stderr
    /\ quiet' = 0
    /\ UNCHANGED <<pc, written, tail, stdin, eof, process, code, drain>>

\* A line is read: the process is alive.
Drain ==
    /\ drain = "reading" /\ stderr > 0
    /\ stderr' = stderr - 1
    /\ quiet' = 0
    /\ UNCHANGED <<pc, written, tail, stdin, eof, process, code, drain>>

DrainEnds ==
    /\ drain = "reading" /\ stderr = 0 /\ process = "exited"
    /\ drain' = "ended"
    /\ UNCHANGED <<pc, written, tail, stdin, eof, process, code, stderr, quiet>>

Tick ==
    /\ pc \notin Ended /\ quiet < IdleTimeout
    /\ quiet' = quiet + 1
    /\ UNCHANGED <<pc, written, tail, stdin, eof, outside>>

Loop == NextBatch \/ Write \/ WriteBreaks \/ Finish \/ Close \/ Fires \/ Poll \/ PollEnds \/ Report \/ Abort

Next ==
    \/ Loop \/ QueryFails
    \/ Reads \/ Logs \/ Stalls \/ Exits \/ Dies
    \/ Drain \/ DrainEnds \/ Tick

Spec == Init /\ [][Next]_vars

\* The build loop and the draining thread are scheduled, the query delivers,
\* time passes, and a process that does not stall reads its input and exits.
FairSpec ==
    /\ Spec
    /\ WF_vars(Loop) /\ WF_vars(Drain \/ DrainEnds) /\ WF_vars(Tick)
    /\ WF_vars(Reads) /\ WF_vars(Exits)

-----------------------------------------------------------------------------
(***************************************************************************)
(* PROPERTIES                                                              *)
(***************************************************************************)

\* The with statement never leaves a process behind, whether it ends, raises,
\* or is left by an exception of the query (test_pmtiles_process.py:31-39).
NoOrphan == pc \in Ended => process = "exited"

\* The archive is published only when the process has read every batch and
\* exited with 0: a process that dies while, or just after, the last bytes are
\* flushed is not taken for one that succeeded (_process.py:178-193).
DoneIsComplete ==
    pc = "done" => code = "zero" /\ written = Batches /\ ~tail /\ stdin = 0

\* Once stdin is closed, the watchdog ends a build whose process stalls, even
\* if it goes on draining lines logged before.
StalledWaitEnds == process = "stalled" /\ pc \in {"checking", "polling"} ~> pc \in Ended

\* A build whose process does not stall ends.
HealthyBuildEnds == <>(pc \in Ended \/ process = "stalled")

\* The activity clock is "used to detect a stalled process" (_process.py:44):
\* a build whose process stalls ends, wherever the process stalls.
StallIsDetected == process = "stalled" ~> pc \in Ended

(***************************************************************************)
(* The inductive invariant behind NoOrphan and DoneIsComplete.             *)
(***************************************************************************)
Fed    == {"closing", "checking", "polling", "exited", "done"}
Closed == {"checking", "polling", "exited", "done", "raised"}

IInv ==
    /\ TypeOK
    /\ code = "none" <=> process # "exited"
    \* only a process that read all of its input exits with 0
    /\ code = "zero" => eof /\ stdin = 0
    \* stdin is closed at the end of the feeding, once, and flushed by it
    /\ eof <=> pc \in Closed
    /\ eof => ~tail
    /\ pc = "writing" => written < Batches
    /\ pc \in Fed => written = Batches
    /\ pc \in Ended \cup {"exited"} => process = "exited"
    /\ pc = "done" => code = "zero"
=============================================================================

---------------------------- MODULE StationCache ----------------------------
(***************************************************************************)
(* The daily station cache of the ISD and GHCN-Hourly plans                *)
(* (workflows/stations.py): processes that call StationPlan._prepare on    *)
(* one cache directory.  A job is one station and year.                    *)
(*                                                                         *)
(* The main thread keeps at most `workers` jobs submitted, reaps the ones  *)
(* that completed, stops submitting at the first failure, and records what *)
(* was fetched in one merge_manifest_entries (an atomic step:              *)
(* SharedManifest) even when it then raises.                               *)
(*                                                                         *)
(* The remote file of a job changes over time: its contents are a version. *)
(***************************************************************************)
EXTENDS Integers, FiniteSets

CONSTANTS
    Proc,           \* processes sharing the cache directory
    Job,            \* station-years, a set of integers: the order of `todo`
    MaxVersion,     \* bound on the versions of the remote files
    Workers,        \* the plan's `workers`
    Crashes,        \* whether a process may be killed
    NoEntry, Absent

StationCacheAssumption ==
    /\ Job \subseteq Int /\ IsFiniteSet(Job)
    /\ MaxVersion \in Nat \ {0} /\ Workers \in Nat \ {0}
    /\ Absent \notin Int /\ NoEntry \notin [version : Int, sum : Int]
    /\ Crashes \in BOOLEAN

VARIABLES
    remote,     \* the version each job's remote file has now
    object,     \* the contents of the cached daily file of each job
    entry,      \* manifest["entries"]
    pc,         \* where each call is
    call,       \* its mode and its jobs
    hits,       \* `entries`: the verified entries it found
    job,        \* where each of its jobs is
    staged,     \* what each job downloaded
    failed      \* whether a reaped job raised

shared == <<remote, object, entry>>
vars == <<remote, object, entry, pc, call, hits, job, staged, failed>>

-----------------------------------------------------------------------------
Version == 1..MaxVersion

\* An entry records what was downloaded (its remote headers) and the checksum
\* of the file; a checksum is the contents it was taken of.
Entry == [version : Version, sum : Version]

Valid(e, j) == e # NoEntry /\ object[j] = e.sum

Mode == {"reuse", "offline", "refresh"}
Call == [mode : Mode, jobs : (SUBSET Job) \ {{}}]
NoCall == [mode |-> "reuse", jobs |-> Job]

\* `pending`: submitted, and not reaped yet.
Pending   == {"fetching", "staged", "returned", "raised"}
\* Mutation of Completed: a job that raised is not reaped.
ReturnedOnly == {"returned"}
Completed == {"returned", "raised"}
JobState  == {"none", "todo"} \cup Pending \cup {"fetched", "lost"}

Active(p) == pc[p] \in {"look", "pool", "merge"}
NoHits == [j \in Job |-> NoEntry]

In(p, states) == {j \in Job : job[p][j] \in states}

TypeOK ==
    /\ remote \in [Job -> Version]
    /\ object \in [Job -> Version \cup {Absent}]
    /\ entry \in [Job -> Entry \cup {NoEntry}]
    /\ pc \in [Proc -> {"idle", "look", "pool", "merge", "done", "failed"}]
    /\ call \in [Proc -> Call \cup {NoCall}]
    /\ hits \in [Proc -> [Job -> Entry \cup {NoEntry}]]
    /\ job \in [Proc -> [Job -> JobState]]
    /\ staged \in [Proc -> [Job -> Version]]
    /\ failed \in [Proc -> BOOLEAN]

Init ==
    /\ remote = [j \in Job |-> 1]
    /\ object = [j \in Job |-> Absent]
    /\ entry = NoHits
    /\ pc = [p \in Proc |-> "idle"]
    /\ call = [p \in Proc |-> NoCall]
    /\ hits = [p \in Proc |-> NoHits]
    /\ job = [p \in Proc |-> [j \in Job |-> "none"]]
    /\ staged = [p \in Proc |-> [j \in Job |-> 1]]
    /\ failed = [p \in Proc |-> FALSE]

-----------------------------------------------------------------------------
\* A call starts by reading the manifest.
Start(p) ==
    /\ pc[p] = "idle"
    /\ \E c \in Call : call' = [call EXCEPT ![p] = c]
    /\ pc' = [pc EXCEPT ![p] = "look"]
    /\ hits' = [hits EXCEPT ![p] = entry]
    /\ UNCHANGED <<shared, job, staged, failed>>

\* Mutations of First: one job too many, or too few.
FirstAndNext(n, jobs) == {j \in jobs : Cardinality({k \in jobs : k < j}) <= n}
FirstButLast(n, jobs) == {j \in jobs : Cardinality({k \in jobs : k < j}) < n - 1}

\* The first n jobs of a set, in the order of `todo`.
First(n, jobs) == {j \in jobs : Cardinality({k \in jobs : k < j}) < n}

\* islice(jobs, n): the jobs handed to the pool next.
Submitted(state, n) ==
    LET next == First(n, {j \in Job : state[j] = "todo"})
    IN  [j \in Job |-> IF j \in next THEN "fetching" ELSE state[j]]

\* It checksums the files of the entries it read; the rest is to do.  Offline
\* that is an error; otherwise the first jobs go to the pool.
Look(p) ==
    LET found == {j \in call[p].jobs :
                    call[p].mode # "refresh" /\ Valid(hits[p][j], j)}
        todo  == call[p].jobs \ found
    IN
    /\ pc[p] = "look"
    /\ hits' = [hits EXCEPT ![p] = [j \in Job |-> IF j \in found THEN @[j] ELSE NoEntry]]
    /\ job' = [job EXCEPT ![p] =
                IF call[p].mode = "offline" THEN @
                ELSE Submitted([j \in Job |-> IF j \in todo THEN "todo" ELSE "none"], Workers)]
    /\ pc' = [pc EXCEPT ![p] = IF todo = {} THEN "done"
                               ELSE IF call[p].mode = "offline" THEN "failed" ELSE "pool"]
    /\ UNCHANGED <<shared, call, staged, failed>>

-----------------------------------------------------------------------------
\* One job in a worker thread: download into a scratch directory of its own,
\* checksum the staged file, move it into place.
SetJob(p, j, s) == job' = [job EXCEPT ![p][j] = s]

Download(p, j) ==
    /\ job[p][j] = "fetching"
    /\ staged' = [staged EXCEPT ![p][j] = remote[j]]
    /\ SetJob(p, j, "staged")
    /\ UNCHANGED <<shared, pc, call, hits, failed>>

PutInPlace(p, j) ==
    /\ job[p][j] = "staged"
    /\ object' = [object EXCEPT ![j] = staged[p][j]]
    /\ SetJob(p, j, "returned")
    /\ UNCHANGED <<remote, entry, pc, call, hits, staged, failed>>

\* Mutation of JobRaises: the failure leaves the job in a state nobody waits for.
JobVanishes(p, j) ==
    /\ job[p][j] \in {"fetching", "staged"}
    /\ SetJob(p, j, "vanished")
    /\ UNCHANGED <<shared, pc, call, hits, staged, failed>>

JobRaises(p, j) ==
    /\ job[p][j] \in {"fetching", "staged"}
    /\ SetJob(p, j, "raised")
    /\ UNCHANGED <<shared, pc, call, hits, staged, failed>>

\* Mutation of FetchedEntry: the checksum is taken of the file in place.
EntryOfFile(p, j) == [version |-> staged[p][j], sum |-> object[j]]

FetchedEntry(p, j) == [version |-> staged[p][j], sum |-> staged[p][j]]

-----------------------------------------------------------------------------
\* Mutation of HasFailed: only the failures reaped now count.
FailsNow(p) == In(p, {"raised"}) # {}

HasFailed(p) == failed[p] \/ In(p, {"raised"}) # {}

\* wait(pending, FIRST_COMPLETED): every job completed by now is reaped, and,
\* unless one has failed, as many new ones are submitted.
Reap(p) ==
    LET completed == In(p, Completed)
        reaped == [j \in Job |->
                    CASE job[p][j] = "returned" -> "fetched"
                      [] job[p][j] = "raised" -> "lost"
                      [] OTHER -> job[p][j]]
    IN
    /\ pc[p] = "pool" /\ completed # {}
    /\ failed' = [failed EXCEPT ![p] = HasFailed(p)]
    /\ job' = [job EXCEPT ![p] =
                IF HasFailed(p) THEN reaped ELSE Submitted(reaped, Cardinality(completed))]
    /\ pc' = [pc EXCEPT ![p] =
                IF \E j \in Job : job'[p][j] \in Pending THEN "pool" ELSE "merge"]
    /\ UNCHANGED <<shared, call, hits, staged>>

\* Mutation of Merge: a failure drops what was fetched.
MergeUnlessFailed(p) ==
    /\ pc[p] = "merge"
    /\ entry' = [j \in Job |->
                    IF job[p][j] = "fetched" /\ ~failed[p] THEN FetchedEntry(p, j) ELSE entry[j]]
    /\ pc' = [pc EXCEPT ![p] = IF failed[p] THEN "failed" ELSE "done"]
    /\ UNCHANGED <<remote, object, call, hits, job, staged, failed>>

\* merge_manifest_entries(directory, fetched), then the first failure is raised.
Merge(p) ==
    /\ pc[p] = "merge"
    /\ entry' = [j \in Job |->
                    IF job[p][j] = "fetched" THEN FetchedEntry(p, j) ELSE entry[j]]
    /\ pc' = [pc EXCEPT ![p] = IF failed[p] THEN "failed" ELSE "done"]
    /\ UNCHANGED <<remote, object, call, hits, job, staged, failed>>

Reset(p) ==
    /\ pc' = [pc EXCEPT ![p] = "idle"]
    /\ call' = [call EXCEPT ![p] = NoCall]
    /\ hits' = [hits EXCEPT ![p] = NoHits]
    /\ job' = [job EXCEPT ![p] = [j \in Job |-> "none"]]
    /\ staged' = [staged EXCEPT ![p] = [j \in Job |-> 1]]
    /\ failed' = [failed EXCEPT ![p] = FALSE]
    /\ UNCHANGED shared

\* The caller takes the result or the exception.
Return(p) == pc[p] \in {"done", "failed"} /\ Reset(p)

\* The process is killed: files and manifest stay as they are.
Crash(p) == Crashes /\ Active(p) /\ Reset(p)

\* A remote file changes.
RemoteChange(j) ==
    /\ remote[j] < MaxVersion
    /\ remote' = [remote EXCEPT ![j] = @ + 1]
    /\ UNCHANGED <<object, entry, pc, call, hits, job, staged, failed>>

Thread(p, j) == Download(p, j) \/ PutInPlace(p, j) \/ JobRaises(p, j)
Main(p) == Look(p) \/ Reap(p) \/ Merge(p)

Next ==
    \/ \E p \in Proc :
        \/ Start(p) \/ Main(p) \/ Return(p) \/ Crash(p)
        \/ \E j \in Job : Thread(p, j)
    \/ \E j \in Job : RemoteChange(j)

Spec == Init /\ [][Next]_vars

\* The main thread and the workers of a call that is under way keep running,
\* and every download ends, with data or with an error.
FairSpec ==
    /\ Spec
    /\ \A p \in Proc : WF_vars(Main(p)) /\ \A j \in Job : WF_vars(Thread(p, j))

-----------------------------------------------------------------------------
(***************************************************************************)
(* PROPERTIES                                                              *)
(***************************************************************************)

\* The window: never more than `workers` jobs are submitted and unreaped, so
\* never more than that many threads, scratch directories and DuckDB memory
\* limits are in use (execution(workers=..., memory_limit=...)).
WindowIsBounded == \A p \in Proc : Cardinality(In(p, Pending)) <= Workers

\* An entry that verifies describes the file it names: the checksum and the
\* remote headers are those of one download, whatever other processes put in
\* place of the file meanwhile.
StationEntriesAreHonest ==
    \A j \in Job : Valid(entry[j], j) => object[j] = entry[j].version

\* Partial successes persist (stations.py:461): in a directory of its own, a
\* call that raises has recorded every job that was put in place before or
\* while it failed, so that the next call does not fetch it again.
FailureKeepsFetched ==
    \A p \in Proc : pc[p] = "failed" =>
        \A j \in Job : job[p][j] = "fetched" => Valid(entry[j], j)

\* No job is forgotten: a call that succeeds accounts for every job it was
\* asked for, from the cache or from the pool, and one that fails has no
\* thread left running.
CallIsAccounted ==
    \A p \in Proc :
        /\ pc[p] = "done" =>
            \A j \in call[p].jobs : hits[p][j] # NoEntry \/ job[p][j] = "fetched"
        /\ pc[p] \in {"merge", "done", "failed"} => In(p, Pending) = {}

\* What a call promises, in a directory of its own (FailureKeepsFetched), or in
\* a shared one (the rest).
StationCallsAreAccounted ==
    TypeOK /\ WindowIsBounded /\ FailureKeepsFetched /\ CallIsAccounted

\* After a failure is reaped no further job is started.
NothingStartsAfterFailure ==
    [][\A p \in Proc, j \in Job :
        failed[p] /\ job[p][j] = "todo" => job'[p][j] \in {"todo", "none"}]_vars

-----------------------------------------------------------------------------
(***************************************************************************)
(* The inductive invariant: why the properties hold.                       *)
(***************************************************************************)

\* The checksum and the headers of an entry are of the same download.
EntriesAreOfOneDownload ==
    \A j \in Job : entry[j] # NoEntry => entry[j].sum = entry[j].version

\* A call starts with nothing submitted and nothing failed.
StartsClean ==
    \A p \in Proc : pc[p] \in {"idle", "look"} =>
        ~failed[p] /\ \A j \in Job : job[p][j] = "none"

\* Threads only run while the main thread waits for the pool.
ThreadsAreWaitedFor ==
    \A p \in Proc, j \in Job : job[p][j] \in Pending => pc[p] = "pool"

\* No job of a call is forgotten, and a lost one is a failure.
JobsAreKnown ==
    \A p \in Proc :
        /\ pc[p] \in {"pool", "merge", "done"} =>
            \A j \in call[p].jobs : hits[p][j] # NoEntry \/ job[p][j] # "none"
        /\ \A j \in Job : job[p][j] = "lost" => failed[p]

\* The pool is only left with jobs to do if one has failed.
NothingIsLeft ==
    \A p \in Proc :
        /\ pc[p] = "done" => ~failed[p]
        /\ pc[p] \in {"merge", "done"} /\ ~failed[p] => \A j \in Job : job[p][j] # "todo"

IInv ==
    /\ TypeOK /\ WindowIsBounded /\ EntriesAreOfOneDownload
    /\ StartsClean /\ ThreadsAreWaitedFor /\ JobsAreKnown /\ NothingIsLeft

\* Of a process that has the directory to itself: what it put in place is there,
\* and is recorded when it ends.
FetchedIsKept ==
    \A p \in Proc, j \in Job :
        /\ job[p][j] \in {"returned", "fetched"} => object[j] = staged[p][j]
        /\ pc[p] \in {"done", "failed"} /\ job[p][j] = "fetched" => entry[j] = FetchedEntry(p, j)

\* Every call ends, with a result or an exception.
CallsEnd == \A p \in Proc : Active(p) ~> ~Active(p)
=============================================================================

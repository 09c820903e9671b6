----------------------------- MODULE YearCache -----------------------------
(***************************************************************************)
(* The ERA5 cache of annual extremes (workflows/era5.py): processes that   *)
(* call ERA5CanonicalizationPlan._prepare on one cache directory and one   *)
(* area, each with its own years, mode and requested release.              *)
(*                                                                         *)
(* A call looks at the manifest, checksums the files it names, and, when   *)
(* years are missing, fetches them in a pool of FETCH_WORKERS threads,     *)
(* each of which writes the year's file (write_annual_extreme) and         *)
(* checksums it; the manifest is updated once, at the end, by              *)
(* merge_manifest_entries, which SharedManifest shows to be one atomic     *)
(* step.                                                                   *)
(*                                                                         *)
(* A file's contents are the release it was cut from (the release string   *)
(* is an attribute of the file, the record under it is final), and a       *)
(* checksum is the contents it was taken of.                               *)
(***************************************************************************)
EXTENDS Integers, FiniteSets

CONSTANTS
    Proc,           \* processes sharing the cache directory
    Year,           \* the years plans select from, a set of integers
    LegacyYear,     \* years an earlier version of the package left cached
    Request,        \* requested versions: Latest or a release
    Latest,
    MaxRelease,     \* bound on the releases the store publishes
    FetchWorkers,   \* FETCH_WORKERS
    Crashes,        \* whether a process may be killed
    NoEntry, Absent, Torn

YearCacheAssumption ==
    /\ Year \subseteq Int /\ IsFiniteSet(Year) /\ LegacyYear \subseteq Year
    /\ MaxRelease \in Nat \ {0} /\ FetchWorkers \in Nat \ {0}
    /\ Request \subseteq {Latest} \cup 1..MaxRelease
    /\ Latest \notin Int /\ Absent \notin Int /\ Torn \notin Int /\ Absent # Torn
    /\ NoEntry \notin [version : Int, local : {"own", "legacy"}, sum : Int \cup {Torn}]
    /\ Crashes \in BOOLEAN

VARIABLES
    release,    \* what the store serves now
    object,     \* the file of each year
    temp,       \* the staging file of each year, one name for all writers
    entry,      \* manifest["entries"], by year
    pc,         \* where each call is
    call,       \* its mode, years and requested version
    snap,       \* the entries it read
    cached,     \* the verified entries it found
    version,    \* the release it resolved
    fetch,      \* the state of each year's fetch
    sum,        \* the checksum each fetch took
    alone       \* (history) no other call has been under way since it started

shared == <<release, object, temp, entry>>
vars == <<release, object, temp, entry, pc, call, snap, cached, version, fetch, sum, alone>>

-----------------------------------------------------------------------------
Release  == 0..MaxRelease
Contents == Release \cup {Torn}

\* Entries record the path of their file; those of earlier package versions
\* name a file of their own, cut from release 0, that nobody writes any more.
Entry  == [version : Release, local : {"own", "legacy"}, sum : Contents]
Legacy == [version |-> 0, local |-> "legacy", sum |-> 0]

ContentsOf(e, y) == IF e.local = "legacy" THEN 0 ELSE object[y]

\* path.is_file() and file_checksum(path) == entry["checksum"]
Valid(e, y) == e # NoEntry /\ ContentsOf(e, y) = e.sum

Mode == {"reuse", "offline", "refresh"}
Call == [mode : Mode, years : (SUBSET Year) \ {{}}, request : Request]
NoCall == [mode |-> "reuse", years |-> Year, request |-> CHOOSE r \in Request : TRUE]

\* A thread writing a year's file holds it open under the staging name (T), or,
\* after another writer renamed it, under the final name (O) or none (G); "mix"
\* once another writer truncated and wrote the same file.
Open(f) == f \in {"openT", "openO", "openG", "mixT", "mixO", "mixG"}
OnTemp(f) == f \in {"openT", "mixT"}
InFlight == {"reading", "openT", "openO", "openG", "mixT", "mixO", "mixG", "closed", "replaced"}
Settled == {"none", "ok", "error", "cancelled"}
FetchState == InFlight \cup Settled \cup {"todo"}

Active(p) == pc[p] \notin {"idle", "done", "failed"}

NoYears == [y \in Year |-> NoEntry]

TypeOK ==
    /\ release \in 1..MaxRelease
    /\ object \in [Year -> Contents \cup {Absent}]
    /\ temp \in [Year -> Contents \cup {Absent}]
    /\ entry \in [Year -> Entry \cup {NoEntry}]
    /\ pc \in [Proc -> {"idle", "verify", "resolve", "fetch", "done", "failed"}]
    /\ call \in [Proc -> Call \cup {NoCall}]
    /\ snap \in [Proc -> [Year -> Entry \cup {NoEntry}]]
    /\ cached \in [Proc -> [Year -> Entry \cup {NoEntry}]]
    /\ version \in [Proc -> Release]
    /\ fetch \in [Proc -> [Year -> FetchState]]
    /\ sum \in [Proc -> [Year -> Contents]]
    /\ alone \in [Proc -> BOOLEAN]

Init ==
    /\ release = 1
    /\ object = [y \in Year |-> Absent]
    /\ temp = [y \in Year |-> Absent]
    /\ entry = NoYears
    /\ pc = [p \in Proc |-> "idle"]
    /\ call = [p \in Proc |-> NoCall]
    /\ snap = [p \in Proc |-> NoYears]
    /\ cached = [p \in Proc |-> NoYears]
    /\ version = [p \in Proc |-> 0]
    /\ fetch = [p \in Proc |-> [y \in Year |-> "none"]]
    /\ sum = [p \in Proc |-> [y \in Year |-> Torn]]
    /\ alone = [p \in Proc |-> FALSE]

-----------------------------------------------------------------------------
\* Mutation of Candidates: any release serves.
CandidatesOfAnyRelease(entries, y, request) ==
    {e \in {entries[y]} \cup (IF y \in LegacyYear THEN {Legacy} ELSE {}) : e # NoEntry}

\* The entries that may serve a year: its own, and one an earlier version of the
\* package recorded under the release, if they are of the requested release.
Candidates(entries, y, request) ==
    {e \in {entries[y]} \cup (IF y \in LegacyYear THEN {Legacy} ELSE {}) :
        e # NoEntry /\ request \in {Latest, e.version}}

\* Newest release first, the first whose file matches.
Newest(es) == CHOOSE e \in es : \A f \in es : f.version <= e.version

\* Mutation of CachedEntries: the file is only required to exist.
CachedUnchecked(entries, c) ==
    [y \in Year |->
        LET there == {e \in Candidates(entries, y, c.request) : ContentsOf(e, y) # Absent}
        IN  IF y \in c.years /\ there # {} THEN Newest(there) ELSE NoEntry]

CachedEntries(entries, c) ==
    [y \in Year |->
        LET valid == {e \in Candidates(entries, y, c.request) : Valid(e, y)}
        IN  IF y \in c.years /\ valid # {} THEN Newest(valid) ELSE NoEntry]

Missing(p) == {y \in call[p].years : cached[p][y] = NoEntry}

\* A call starts and, unless it refreshes, reads the manifest.
Start(p) ==
    /\ pc[p] = "idle"
    /\ \E c \in Call :
        /\ call' = [call EXCEPT ![p] = c]
        /\ pc' = [pc EXCEPT ![p] = IF c.mode = "refresh" THEN "resolve" ELSE "verify"]
        /\ snap' = [snap EXCEPT ![p] = IF c.mode = "refresh" THEN NoYears ELSE entry]
    /\ alone' = [q \in Proc |-> IF q = p THEN \A r \in Proc \ {p} : ~Active(r) ELSE FALSE]
    /\ UNCHANGED <<shared, cached, version, fetch, sum>>

\* It checksums the files of the entries it read.  With every year found the
\* call is served from the cache; offline with a year missing it fails.
Verify(p) ==
    /\ pc[p] = "verify"
    /\ cached' = [cached EXCEPT ![p] = CachedEntries(snap[p], call[p])]
    /\ snap' = [snap EXCEPT ![p] = NoYears]
    /\ pc' = [pc EXCEPT ![p] =
                IF \A y \in call[p].years : cached'[p][y] # NoEntry THEN "done"
                ELSE IF call[p].mode = "offline" THEN "failed" ELSE "resolve"]
    /\ UNCHANGED <<shared, call, version, fetch, sum, alone>>

\* resolve_version and check_years: a release that is not served is refused,
\* and the network may fail.
Resolve(p) ==
    /\ pc[p] = "resolve"
    /\ call[p].request \in {Latest, release}
    /\ version' = [version EXCEPT ![p] = release]
    /\ fetch' = [fetch EXCEPT ![p] =
                    [y \in Year |-> IF y \in Missing(p) THEN "todo" ELSE "none"]]
    /\ pc' = [pc EXCEPT ![p] = "fetch"]
    /\ UNCHANGED <<shared, call, snap, cached, sum, alone>>

ResolveFails(p) ==
    /\ pc[p] = "resolve"
    /\ pc' = [pc EXCEPT ![p] = "failed"]
    /\ UNCHANGED <<shared, call, snap, cached, version, fetch, sum, alone>>

-----------------------------------------------------------------------------
\* One year in a worker thread.  pool.map hands the years out in order.
Busy(p) == Cardinality({y \in Year : fetch[p][y] \in InFlight})

SetFetch(p, y, s) == fetch' = [fetch EXCEPT ![p][y] = s]

FetchStart(p, y) ==
    /\ fetch[p][y] = "todo"
    /\ Busy(p) < FetchWorkers
    /\ \A z \in Year : z < y => fetch[p][z] # "todo"
    /\ SetFetch(p, y, "reading")
    /\ UNCHANGED <<shared, pc, call, snap, cached, version, sum, alone>>

\* Mutation of FetchFails: the thread tries again, for ever.
FetchRetries(p, y) ==
    /\ fetch[p][y] = "reading" \/ Open(fetch[p][y])
    /\ SetFetch(p, y, "reading")
    /\ UNCHANGED <<shared, pc, call, snap, cached, version, sum, alone>>

\* The remote read, or the write, raises; a file that was open stays as it is.
FetchFails(p, y) ==
    /\ fetch[p][y] = "reading" \/ Open(fetch[p][y])
    /\ SetFetch(p, y, "error")
    /\ UNCHANGED <<shared, pc, call, snap, cached, version, sum, alone>>

\* Writers that have the staging file open when another one truncates it.
Others(p, y) == {q \in Proc \ {p} : OnTemp(fetch[q][y])}

Truncated(p, y, s) ==
    /\ temp' = [temp EXCEPT ![y] = Torn]
    /\ fetch' = [q \in Proc |->
            [fetch[q] EXCEPT ![y] = IF q = p THEN s
                                    ELSE IF q \in Others(p, y) THEN "mixT" ELSE @]]

\* h5netcdf.File(temporary, "w")
OpenTemp(p, y) ==
    /\ fetch[p][y] = "reading"
    /\ Truncated(p, y, IF Others(p, y) = {} THEN "openT" ELSE "mixT")
    /\ UNCHANGED <<release, object, entry, pc, call, snap, cached, version, sum, alone>>

\* HDF5 may refuse a file another writer has open, after truncating it.
OpenRefused(p, y) ==
    /\ fetch[p][y] = "reading" /\ Others(p, y) # {}
    /\ Truncated(p, y, "error")
    /\ UNCHANGED <<release, object, entry, pc, call, snap, cached, version, sum, alone>>

\* The file is complete when it is closed, unless another writer had it open
\* too: then what it holds is anybody's guess.
CloseTemp(p, y) ==
    /\ Open(fetch[p][y])
    /\ \E c \in {version[p]} \cup
                (IF fetch[p][y] \in {"mixT", "mixO", "mixG"} THEN {Torn} ELSE {}) :
        /\ temp' = [temp EXCEPT ![y] = IF OnTemp(fetch[p][y]) THEN c ELSE @]
        /\ object' = [object EXCEPT ![y] =
                        IF fetch[p][y] \in {"openO", "mixO"} THEN c ELSE @]
    /\ SetFetch(p, y, "closed")
    /\ UNCHANGED <<release, entry, pc, call, snap, cached, version, sum, alone>>

\* What a rename of the staging file makes of another writer's open handle.
Relinked(f) ==
    CASE f = "openT" -> "openO" [] f = "mixT" -> "mixO"
      [] f = "openO" -> "openG" [] f = "mixO" -> "mixG" [] OTHER -> f

\* temporary.replace(target): whatever file has the staging name by now.
ReplaceTemp(p, y) ==
    /\ fetch[p][y] = "closed" /\ temp[y] # Absent
    /\ object' = [object EXCEPT ![y] = temp[y]]
    /\ temp' = [temp EXCEPT ![y] = Absent]
    /\ fetch' = [q \in Proc |->
            [fetch[q] EXCEPT ![y] = IF q = p THEN "replaced" ELSE Relinked(@)]]
    /\ UNCHANGED <<release, entry, pc, call, snap, cached, version, sum, alone>>

\* Another writer has renamed it already: FileNotFoundError.
ReplaceFails(p, y) ==
    /\ fetch[p][y] = "closed" /\ temp[y] = Absent
    /\ SetFetch(p, y, "error")
    /\ UNCHANGED <<shared, pc, call, snap, cached, version, sum, alone>>

\* Mutation of Checksum: taken before the rename.
ChecksumEarly(p, y) ==
    /\ fetch[p][y] = "closed"
    /\ sum' = [sum EXCEPT ![p][y] = object[y]]
    /\ SetFetch(p, y, "ok")
    /\ UNCHANGED <<shared, pc, call, snap, cached, version, alone>>

\* file_checksum(destination)
Checksum(p, y) ==
    /\ fetch[p][y] = "replaced"
    /\ sum' = [sum EXCEPT ![p][y] = object[y]]
    /\ SetFetch(p, y, "ok")
    /\ UNCHANGED <<shared, pc, call, snap, cached, version, alone>>

\* list(pool.map(...)) takes the results in order; on the first that raises it
\* cancels the years no thread has started.
Cancel(p) ==
    /\ pc[p] = "fetch"
    /\ \E y \in Year :
        /\ fetch[p][y] = "error"
        /\ \A z \in Year : z < y => fetch[p][z] \in {"none", "ok"}
    /\ \E y \in Year : fetch[p][y] = "todo"
    /\ fetch' = [fetch EXCEPT ![p] =
                    [y \in Year |-> IF @[y] = "todo" THEN "cancelled" ELSE @[y]]]
    /\ UNCHANGED <<shared, pc, call, snap, cached, version, sum, alone>>

\* Mutation of AllSettled: the pool is left without joining its threads.
NothingToStart(p) == \A y \in Year : fetch[p][y] # "todo"

AllSettled(p) == \A y \in Year : fetch[p][y] \in Settled
Fetched(p, y) == fetch[p][y] = "ok"

\* Leaving the pool waits for the threads; the failure is raised, and what the
\* other years fetched is not recorded.
Raise(p) ==
    /\ pc[p] = "fetch" /\ AllSettled(p)
    /\ \E y \in Year : fetch[p][y] = "error"
    /\ pc' = [pc EXCEPT ![p] = "failed"]
    /\ UNCHANGED <<shared, call, snap, cached, version, fetch, sum, alone>>

\* Mutation of Result: the release is asked for again after the fetch.
ResultOfNow(p) ==
    [y \in Year |->
        IF Fetched(p, y)
        THEN [version |-> release, local |-> "own", sum |-> sum[p][y]]
        ELSE cached[p][y]]

\* The entries a call returns: fetched under the release it resolved, or cached.
Result(p) ==
    [y \in Year |->
        IF Fetched(p, y)
        THEN [version |-> version[p], local |-> "own", sum |-> sum[p][y]]
        ELSE cached[p][y]]

\* merge_manifest_entries(cache_dir, [*cached, *fetched])
Merge(p) ==
    /\ pc[p] = "fetch" /\ AllSettled(p)
    /\ \A y \in Year : fetch[p][y] \in {"none", "ok"}
    /\ entry' = [y \in Year |-> IF Result(p)[y] # NoEntry THEN Result(p)[y] ELSE entry[y]]
    /\ pc' = [pc EXCEPT ![p] = "done"]
    /\ UNCHANGED <<release, object, temp, call, snap, cached, version, fetch, sum, alone>>

-----------------------------------------------------------------------------
Reset(p) ==
    /\ pc' = [pc EXCEPT ![p] = "idle"]
    /\ call' = [call EXCEPT ![p] = NoCall]
    /\ snap' = [snap EXCEPT ![p] = NoYears]
    /\ cached' = [cached EXCEPT ![p] = NoYears]
    /\ version' = [version EXCEPT ![p] = 0]
    /\ fetch' = [fetch EXCEPT ![p] = [y \in Year |-> "none"]]
    /\ sum' = [sum EXCEPT ![p] = [y \in Year |-> Torn]]
    /\ alone' = [alone EXCEPT ![p] = FALSE]
    /\ UNCHANGED shared

\* The caller takes the result or the exception.
Return(p) == pc[p] \in {"done", "failed"} /\ Reset(p)

\* The process is killed: files and manifest stay as they are.
Crash(p) == Crashes /\ Active(p) /\ Reset(p)

\* The store publishes a release.
Publish ==
    /\ release < MaxRelease
    /\ release' = release + 1
    /\ UNCHANGED <<object, temp, entry, pc, call, snap, cached, version, fetch, sum, alone>>

Thread(p, y) ==
    \/ FetchStart(p, y) \/ FetchFails(p, y)
    \/ OpenTemp(p, y) \/ OpenRefused(p, y) \/ CloseTemp(p, y)
    \/ ReplaceTemp(p, y) \/ ReplaceFails(p, y) \/ Checksum(p, y)

Main(p) ==
    Verify(p) \/ Resolve(p) \/ ResolveFails(p) \/ Cancel(p) \/ Raise(p) \/ Merge(p)

Next ==
    \/ \E p \in Proc :
        \/ Start(p) \/ Main(p) \/ Return(p) \/ Crash(p)
        \/ \E y \in Year : Thread(p, y)
    \/ Publish

Spec == Init /\ [][Next]_vars

\* A call that is under way keeps running: its main thread and its workers are
\* scheduled, and remote reads end, with data or with an error.
FairSpec ==
    /\ Spec
    /\ \A p \in Proc : WF_vars(Main(p)) /\ WF_vars(\E y \in Year : Thread(p, y))

-----------------------------------------------------------------------------
(***************************************************************************)
(* PROPERTIES                                                              *)
(***************************************************************************)

\* The entries an offline call would find.
Usable(y, request) ==
    \E e \in Candidates(entry, y, request) : Valid(e, y)

\* `prefetch()` once, keep the cache, then rerun with mode="offline"
\* (docs/concepts.md:35-36): when a call has succeeded with the cache directory
\* to itself, every year it selected is cached and verifies, whatever crashes,
\* failures and concurrent calls had left in the directory before.
YearsAreReproducible ==
    \A p \in Proc : pc[p] = "done" /\ alone[p] =>
        \A y \in call[p].years : Usable(y, call[p].request)

\* No worker thread is still writing cache files after the call has returned or
\* raised: the pool is joined even when a year fails.
NoThreadOutlivesCall ==
    \A p \in Proc : pc[p] \in {"idle", "done", "failed"} =>
        \A y \in Year : fetch[p][y] \in Settled

\* A succeeded call has one verified or freshly fetched entry for each year it
\* selected, of the release it asked for, and for no other year.
ResultIsComplete ==
    \A p \in Proc : pc[p] = "done" =>
        \A y \in Year :
            IF y \in call[p].years
            THEN Result(p)[y] # NoEntry /\ call[p].request \in {Latest, Result(p)[y].version}
            ELSE Result(p)[y] = NoEntry

\* An entry that passes the checksum test names a complete file, cut from the
\* release the entry states: a crash or an I/O error at any point of a fetch
\* never leaves a partial or mislabelled year that verifies.
VerifiedIsWhole ==
    \A y \in Year : Valid(entry[y], y) => ContentsOf(entry[y], y) = entry[y].version

\* What a call promises: of a directory of its own (VerifiedIsWhole), or of a
\* shared one (the rest).
YearsAreWhole == TypeOK /\ VerifiedIsWhole /\ ResultIsComplete /\ NoThreadOutlivesCall

\* Merging "keeps everyone else's" entries (_remote.py:262): a call does not
\* touch an entry that verifies, of a year it did not fetch.
MergeKeepsOthersEntries ==
    [][\A p \in Proc : Merge(p) =>
        \A y \in Year : Valid(entry[y], y) /\ ~Fetched(p, y) => entry'[y] = entry[y]]_vars

-----------------------------------------------------------------------------
(***************************************************************************)
(* The inductive invariant: why the properties hold.                       *)
(***************************************************************************)

\* Threads only run while the main thread waits for the pool.
PoolIsJoined ==
    \A p \in Proc, y \in Year :
        /\ pc[p] # "fetch" => fetch[p][y] \in Settled
        /\ pc[p] \in {"idle", "verify", "resolve"} => fetch[p][y] = "none"

\* What is found in the cache is of a year and a release that was asked for.
CachedIsAsked ==
    \A p \in Proc, y \in Year :
        /\ pc[p] \in {"idle", "verify"} => cached[p][y] = NoEntry
        /\ cached[p][y] # NoEntry =>
            y \in call[p].years /\ call[p].request \in {Latest, cached[p][y].version}

\* The years that were not found, and no others, are fetched.
MissingIsFetched ==
    \A p \in Proc, y \in Year : pc[p] \in {"fetch", "done"} =>
        /\ fetch[p][y] # "none" <=> y \in Missing(p)
        /\ fetch[p][y] # "none" => call[p].request \in {Latest, version[p]}
        /\ pc[p] = "done" => fetch[p][y] \in {"none", "ok"}

\* A file that was renamed into place is not removed.
RenamedIsThere ==
    \A p \in Proc, y \in Year : fetch[p][y] = "replaced" => object[y] # Absent

\* While a call is alone no other one is under way ...
AloneIsAlone ==
    \A p \in Proc : alone[p] => pc[p] # "idle" /\ \A q \in Proc \ {p} : ~Active(q)

\* ... so that nobody else has its staging files open or renames them, ...
AloneFetchesWhole ==
    \A p \in Proc, y \in Year : alone[p] =>
        /\ fetch[p][y] \notin {"openO", "openG", "mixT", "mixO", "mixG"}
        /\ fetch[p][y] = "closed" => temp[y] = version[p]
        /\ fetch[p][y] \in {"replaced", "ok"} => object[y] = version[p]
        /\ fetch[p][y] = "ok" => sum[p][y] = version[p]

\* ... and what it found stays in the manifest and keeps verifying.
AloneFindsEntries ==
    \A p \in Proc : alone[p] =>
        /\ pc[p] = "verify" => snap[p] = entry
        /\ \A y \in Year : cached[p][y] # NoEntry =>
            cached[p][y] \in Candidates(entry, y, call[p].request) /\ Valid(cached[p][y], y)
        /\ pc[p] = "done" => \A y \in Year : Fetched(p, y) => entry[y] = Result(p)[y]

IInv ==
    /\ TypeOK /\ PoolIsJoined /\ CachedIsAsked /\ MissingIsFetched /\ RenamedIsThere
    /\ AloneIsAlone /\ AloneFetchesWhole /\ AloneFindsEntries

\* Of a process that has the directory to itself: every call is alone, and the
\* checksums that are recorded are of whole files.
RecordedIsWhole ==
    /\ \A p \in Proc : pc[p] # "idle" => alone[p]
    /\ \A y \in Year : entry[y] # NoEntry => entry[y].sum = entry[y].version
    /\ \A p \in Proc, y \in Year :
        /\ snap[p][y] # NoEntry => snap[p][y].sum = snap[p][y].version
        /\ cached[p][y] # NoEntry => cached[p][y].sum = cached[p][y].version

\* Every call ends, with a result or an exception.
CallsEnd == \A p \in Proc : Active(p) ~> ~Active(p)
=============================================================================

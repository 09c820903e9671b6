--------------------------- MODULE SnapshotPointer ---------------------------
(***************************************************************************)
(* The snapshots of one station in the NOAA water-level cache              *)
(* (workflows/noaa_water_levels.py): processes that call _prepare, and     *)
(* then read the responses of the snapshot it returned, on one cache       *)
(* directory.                                                              *)
(*                                                                         *)
(* A refresh downloads every resource into a scratch directory, renames it *)
(* to a snapshot directory of a fresh name, writes the name into the       *)
(* manifest (write_manifest, one atomic rename: SharedManifest, without    *)
(* the lock), and removes every other snapshot directory, one file at a    *)
(* time.  Older caches keep the resources beside the manifest (Root).      *)
(***************************************************************************)
EXTENDS FiniteSets

CONSTANTS
    Proc,           \* processes sharing the cache directory
    Resource,       \* the responses of one snapshot
    Snapshot,       \* bound: the names uuid4 gives to snapshots
    Root,           \* the directory of the manifest itself
    NoSnapshot,
    Modes           \* the cache modes each process uses

ASSUME SnapshotPointerAssumption ==
    /\ Resource # {} /\ IsFiniteSet(Resource)
    /\ Root \notin Snapshot /\ NoSnapshot \notin Snapshot \cup {Root}
    /\ Modes \in [Proc -> SUBSET {"reuse", "offline", "refresh"}]

VARIABLES
    pointer,    \* the snapshot the manifest names, or NoSnapshot
    files,      \* the resources in each directory
    used,       \* (history) the names given so far
    pc,
    mode,       \* the mode of each call
    base,       \* the directory it reads, or is about to publish
    sweep       \* the directories it has still to remove

vars == <<pointer, files, used, pc, mode, base, sweep>>

-----------------------------------------------------------------------------
Directory == Snapshot \cup {Root}
Phase == {"idle", "check", "verify", "fetch", "fetched", "renamed", "list",
          "sweep", "read", "done", "incomplete", "failed"}

TypeOK ==
    /\ pointer \in Snapshot \cup {NoSnapshot}
    /\ files \in [Directory -> SUBSET Resource]
    /\ used \subseteq Snapshot
    /\ pc \in [Proc -> Phase]
    /\ mode \in [Proc -> {"reuse", "offline", "refresh"}]
    /\ base \in [Proc -> Directory]
    /\ sweep \in [Proc -> SUBSET Snapshot]

\* An empty cache, or one an earlier version of the package filled.
Init ==
    /\ pointer = NoSnapshot
    /\ \E old \in {{}, Resource} :
        files = [d \in Directory |-> IF d = Root THEN old ELSE {}]
    /\ used = {}
    /\ pc = [p \in Proc |-> "idle"]
    /\ mode = [p \in Proc |-> "reuse"]
    /\ base = [p \in Proc |-> Root]
    /\ sweep = [p \in Proc |-> {}]

-----------------------------------------------------------------------------
Go(p, phase) == pc' = [pc EXCEPT ![p] = phase]

\* A call starts; _current reads the pointer.
Start(p) ==
    /\ pc[p] = "idle"
    /\ \E m \in Modes[p] : mode' = [mode EXCEPT ![p] = m]
    /\ base' = [base EXCEPT ![p] = IF pointer = NoSnapshot THEN Root ELSE pointer]
    /\ Go(p, "check")
    /\ UNCHANGED <<pointer, files, used, sweep>>

\* Mutation of Check: a refresh drops the pointer before it fetches.
CheckDrops(p) ==
    /\ pc[p] = "check"
    /\ pointer' = IF mode[p] = "refresh" THEN NoSnapshot ELSE pointer
    /\ Go(p, IF mode[p] = "refresh" THEN "fetch"
             ELSE IF mode[p] = "offline" \/ files[base[p]] = Resource THEN "verify"
             ELSE IF files[base[p]] = {} THEN "fetch" ELSE "incomplete")
    /\ UNCHANGED <<files, used, mode, base, sweep>>

\* A snapshot that is complete is used, an empty cache is filled, and anything
\* between is an error only a refresh repairs.
Check(p) ==
    LET complete == files[base[p]] = Resource
        nothing  == pointer = NoSnapshot /\ files[base[p]] = {}
    IN
    /\ pc[p] = "check"
    /\ Go(p, IF mode[p] = "refresh" THEN "fetch"
             ELSE IF mode[p] = "offline" \/ complete THEN "verify"
             ELSE IF nothing THEN "fetch" ELSE "incomplete")
    /\ UNCHANGED <<pointer, files, used, mode, base, sweep>>

\* Each response is checked offline.  What is in a snapshot never changes, so
\* only a response that is gone fails.
Verify(p) ==
    /\ pc[p] = "verify"
    /\ Go(p, IF files[base[p]] = Resource THEN "read" ELSE "incomplete")
    /\ UNCHANGED <<pointer, files, used, mode, base, sweep>>

\* Every resource is downloaded into the scratch directory, and the datums
\* agree; or the call fails and the scratch directory goes.
Fetch(p) ==
    /\ pc[p] = "fetch"
    /\ Go(p, "fetched")
    /\ UNCHANGED <<pointer, files, used, mode, base, sweep>>

FetchFails(p) ==
    /\ pc[p] = "fetch"
    /\ Go(p, "failed")
    /\ UNCHANGED <<pointer, files, used, mode, base, sweep>>

\* Mutation of Rename: resources are moved one by one, so a crash can tear it.
RenamePart(p) ==
    /\ pc[p] = "fetched"
    /\ \E s \in Snapshot \ used, part \in SUBSET Resource :
        /\ used' = used \cup {s}
        /\ files' = [files EXCEPT ![s] = part]
        /\ base' = [base EXCEPT ![p] = s]
    /\ Go(p, "renamed")
    /\ UNCHANGED <<pointer, mode, sweep>>

\* staged.replace(destination), under a fresh name.
Rename(p) ==
    /\ pc[p] = "fetched"
    /\ \E s \in Snapshot \ used :
        /\ used' = used \cup {s}
        /\ files' = [files EXCEPT ![s] = Resource]
        /\ base' = [base EXCEPT ![p] = s]
    /\ Go(p, "renamed")
    /\ UNCHANGED <<pointer, mode, sweep>>

\* write_manifest(root, {"snapshot": identifier})
Point(p) ==
    /\ pc[p] = "renamed"
    /\ pointer' = base[p]
    /\ Go(p, "list")
    /\ UNCHANGED <<files, used, mode, base, sweep>>

\* Mutation of List: the call's own snapshot is not left out.
ListAll(p) ==
    /\ pc[p] = "list"
    /\ sweep' = [sweep EXCEPT ![p] = {s \in Snapshot : files[s] # {}}]
    /\ Go(p, "sweep")
    /\ UNCHANGED <<pointer, files, used, mode, base>>

\* snapshots.iterdir(): every snapshot directory but the call's own.
List(p) ==
    /\ pc[p] = "list"
    /\ sweep' = [sweep EXCEPT ![p] = {s \in Snapshot : files[s] # {}} \ {base[p]}]
    /\ Go(p, "sweep")
    /\ UNCHANGED <<pointer, files, used, mode, base>>

\* shutil.rmtree(previous, ignore_errors=True), a file at a time.
Remove(p) ==
    /\ pc[p] = "sweep"
    /\ \E s \in sweep[p] :
        IF files[s] = {}
        THEN sweep' = [sweep EXCEPT ![p] = @ \ {s}] /\ UNCHANGED files
        ELSE \E r \in files[s] : files' = [files EXCEPT ![s] = @ \ {r}] /\ UNCHANGED sweep
    /\ UNCHANGED <<pointer, used, pc, mode, base>>

RemoveFails(p) ==
    /\ pc[p] = "sweep"
    /\ \E s \in sweep[p] : files[s] # {} /\ sweep' = [sweep EXCEPT ![p] = @ \ {s}]
    /\ UNCHANGED <<pointer, files, used, pc, mode, base>>

Swept(p) ==
    /\ pc[p] = "sweep" /\ sweep[p] = {}
    /\ Go(p, "read")
    /\ UNCHANGED <<pointer, files, used, mode, base, sweep>>

\* _read_context(base): the caller reads the responses of the snapshot.
Read(p) ==
    /\ pc[p] = "read"
    /\ Go(p, IF files[base[p]] = Resource THEN "done" ELSE "incomplete")
    /\ UNCHANGED <<pointer, files, used, mode, base, sweep>>

Reset(p) ==
    /\ pc' = [pc EXCEPT ![p] = "idle"]
    /\ mode' = [mode EXCEPT ![p] = "reuse"]
    /\ base' = [base EXCEPT ![p] = Root]
    /\ sweep' = [sweep EXCEPT ![p] = {}]
    /\ UNCHANGED <<pointer, files, used>>

Ended == {"done", "incomplete", "failed"}

Return(p) == pc[p] \in Ended /\ Reset(p)

\* The process is killed: what it renamed, wrote or removed stays so.
Crash(p) == pc[p] \notin Ended \cup {"idle"} /\ Reset(p)

Main(p) ==
    \/ Check(p) \/ Verify(p) \/ Fetch(p) \/ FetchFails(p) \/ Rename(p) \/ Point(p)
    \/ List(p) \/ Remove(p) \/ RemoveFails(p) \/ Swept(p) \/ Read(p)

Next == \E p \in Proc : Start(p) \/ Main(p) \/ Return(p) \/ Crash(p)

Spec == Init /\ [][Next]_vars

-----------------------------------------------------------------------------
(***************************************************************************)
(* PROPERTIES                                                              *)
(***************************************************************************)

\* At most one process ever fills or refreshes the cache.
OneWriter == \E w \in Proc : \A p \in Proc \ {w} : Modes[p] \subseteq {"offline"}

\* The pointer names a complete snapshot, wherever a refresh crashes or fails.
PointerIsWhole == pointer # NoSnapshot => files[pointer] = Resource

\* A cache that was filled once is never without a complete snapshot.
Filled == files[Root] = Resource \/ pointer # NoSnapshot
FilledStaysUsable ==
    [][Filled => files'[IF pointer' = NoSnapshot THEN Root ELSE pointer'] = Resource]_vars

(***************************************************************************)
(* The inductive invariant behind PointerIsWhole with one writer.          *)
(***************************************************************************)
Writing == {"fetch", "fetched", "renamed", "list", "sweep"}

IInv ==
    /\ TypeOK
    /\ PointerIsWhole
    /\ \A p \in Proc :
        /\ pc[p] # "idle" => mode[p] \in Modes[p]
        /\ pc[p] \in Writing => mode[p] # "offline"
        /\ pc[p] = "renamed" => base[p] \in Snapshot /\ files[base[p]] = Resource
        /\ pc[p] = "list" => base[p] = pointer
        /\ sweep[p] # {} => pc[p] = "sweep" /\ pointer \notin sweep[p]
=============================================================================

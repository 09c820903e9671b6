--------------------------- MODULE SharedManifest ---------------------------
(***************************************************************************)
(* The manifest.json that every process filling one cache directory reads  *)
(* and writes (workflows/_remote.py): merge_manifest_entries and           *)
(* write_plan_manifest, each a read-modify-write under manifest_lock, with *)
(* the staged write of write_manifest inside it.                           *)
(*                                                                         *)
(* manifest_lock is an flock on a sibling file: exclusive, released by the *)
(* operating system when its holder dies, and skipped altogether on a      *)
(* filesystem without lock support (LocksSupported = FALSE).               *)
(***************************************************************************)
EXTENDS ManifestData

CONSTANTS
    NoProc,             \* nobody holds the lock
    Absent, Torn,       \* a file that does not exist, or is half written
    LocksSupported      \* whether flock works on the cache directory

ASSUME SharedManifestAssumption ==
    /\ NoProc \notin Proc
    /\ Absent # Torn
    /\ {Absent, Torn} \cap Manifest = {}
    /\ LocksSupported \in BOOLEAN

VARIABLES
    manifest,   \* the contents of manifest.json
    lock,       \* the process holding .manifest.lock, or NoProc
    staging,    \* the staging files, by name
    pc,         \* where each process is in its call
    update,     \* what the call was asked to store
    snap        \* the manifest the call read

vars == <<manifest, lock, staging, pc, update, snap>>

-----------------------------------------------------------------------------
Phase == {"idle", "waiting", "locked", "read", "staging", "staged", "replaced"}

\* Inside `with manifest_lock(cache_dir)`.
Critical == {"locked", "read", "staging", "staged", "replaced"}

\* Mutation of StagingName: one fixed name.
OneStagingName(p) == CHOOSE q \in Proc : TRUE

\* uuid4 gives every call a name of its own: one slot per process.
StagingName(p) == p

TypeOK ==
    /\ manifest \in Manifest
    /\ lock \in Proc \cup {NoProc}
    /\ staging \in [Proc -> Manifest \cup {Absent, Torn}]
    /\ pc \in [Proc -> Phase]
    /\ update \in [Proc -> Update \cup {NoUpdate}]
    /\ snap \in [Proc -> Manifest]
    /\ \A p \in Proc :
           IF pc[p] = "idle" THEN update[p] = NoUpdate ELSE update[p] \in Update

Init ==
    /\ manifest \in EarlierFile
    /\ lock = NoProc
    /\ staging = [p \in Proc |-> Absent]
    /\ pc = [p \in Proc |-> "idle"]
    /\ update = [p \in Proc |-> NoUpdate]
    /\ snap = [p \in Proc |-> EmptyFile]

-----------------------------------------------------------------------------
\* A caller enters merge_manifest_entries or write_plan_manifest.
Begin(p, u) ==
    /\ pc[p] = "idle"
    /\ pc' = [pc EXCEPT ![p] = "waiting"]
    /\ update' = [update EXCEPT ![p] = u]
    /\ UNCHANGED <<manifest, lock, staging, snap>>

\* Mutation of Acquire: the lock is taken without waiting for it.
AcquireAtOnce(p) ==
    /\ pc[p] = "waiting"
    /\ IF LocksSupported THEN lock' = p ELSE UNCHANGED lock
    /\ pc' = [pc EXCEPT ![p] = "locked"]
    /\ UNCHANGED <<manifest, staging, update, snap>>

\* _lock_file: blocks while another process holds the lock, and lets the
\* caller through without it where locking is not supported.
Acquire(p) ==
    /\ pc[p] = "waiting"
    /\ IF LocksSupported THEN lock = NoProc /\ lock' = p ELSE UNCHANGED lock
    /\ pc' = [pc EXCEPT ![p] = "locked"]
    /\ UNCHANGED <<manifest, staging, update, snap>>

\* read_manifest(cache_dir) or {}
Read(p) ==
    /\ pc[p] = "locked"
    /\ snap' = [snap EXCEPT ![p] = manifest]
    /\ pc' = [pc EXCEPT ![p] = "read"]
    /\ UNCHANGED <<manifest, lock, staging, update>>

\* write_manifest opens the staging file, truncating what is there.
OpenStaging(p) ==
    /\ pc[p] = "read"
    /\ staging' = [staging EXCEPT ![StagingName(p)] = Torn]
    /\ pc' = [pc EXCEPT ![p] = "staging"]
    /\ UNCHANGED <<manifest, lock, update, snap>>

\* Mutation of CloseStaging: the update is written alone, not merged.
CloseStagingAlone(p) ==
    /\ pc[p] = "staging"
    /\ staging' = [staging EXCEPT ![StagingName(p)] = Applied(EmptyFile, update[p])]
    /\ pc' = [pc EXCEPT ![p] = "staged"]
    /\ UNCHANGED <<manifest, lock, update, snap>>

CloseStaging(p) ==
    /\ pc[p] = "staging"
    /\ staging' = [staging EXCEPT ![StagingName(p)] = Applied(snap[p], update[p])]
    /\ pc' = [pc EXCEPT ![p] = "staged"]
    /\ UNCHANGED <<manifest, lock, update, snap>>

\* temporary.replace(path); what was read is not looked at again.
Replace(p) ==
    /\ pc[p] = "staged"
    /\ manifest' = staging[StagingName(p)]
    /\ staging' = [staging EXCEPT ![StagingName(p)] = Absent]
    /\ snap' = [snap EXCEPT ![p] = EmptyFile]
    /\ pc' = [pc EXCEPT ![p] = "replaced"]
    /\ UNCHANGED <<lock, update>>

\* Mutations of Leave: the lock is freed by whoever leaves, or by nobody.
LeaveFreesAny(p) ==
    /\ pc' = [pc EXCEPT ![p] = "idle"]
    /\ update' = [update EXCEPT ![p] = NoUpdate]
    /\ snap' = [snap EXCEPT ![p] = EmptyFile]
    /\ staging' = [staging EXCEPT ![StagingName(p)] = Absent]
    /\ lock' = NoProc
    /\ UNCHANGED manifest

LeaveLocked(p) ==
    /\ pc' = [pc EXCEPT ![p] = "idle"]
    /\ update' = [update EXCEPT ![p] = NoUpdate]
    /\ snap' = [snap EXCEPT ![p] = EmptyFile]
    /\ staging' = [staging EXCEPT ![StagingName(p)] = Absent]
    /\ UNCHANGED <<manifest, lock>>

\* Leaving the call, from wherever it stands: its staging file is unlinked and
\* its lock released.
Leave(p) ==
    /\ pc' = [pc EXCEPT ![p] = "idle"]
    /\ update' = [update EXCEPT ![p] = NoUpdate]
    /\ snap' = [snap EXCEPT ![p] = EmptyFile]
    /\ staging' = [staging EXCEPT ![StagingName(p)] = Absent]
    /\ lock' = IF lock = p THEN NoProc ELSE lock
    /\ UNCHANGED manifest

Release(p) == pc[p] = "replaced" /\ Leave(p)

\* The staging file cannot be written (no space, no permission).
StageFails(p) == pc[p] \in {"read", "staging"} /\ Leave(p)

\* The process is killed.  The operating system drops its lock; a staging file
\* it leaves behind has a name no other call will ever use.
Crash(p) == pc[p] # "idle" /\ Leave(p)

Step(p) == Read(p) \/ OpenStaging(p) \/ CloseStaging(p) \/ Replace(p) \/ Release(p)

Next ==
    \E p \in Proc :
        \/ \E u \in Update : Begin(p, u)
        \/ Acquire(p)
        \/ Step(p)
        \/ StageFails(p)
        \/ Crash(p)

Spec == Init /\ [][Next]_vars

(***************************************************************************)
(* Every step between taking the lock and releasing it is local work that  *)
(* ends, so it is weakly fair.  flock wakes blocked callers in turn: a     *)
(* caller that could take the lock again and again gets it.  Nothing       *)
(* obliges a process to start, to fail or to die.                          *)
(***************************************************************************)
FairSpec ==
    /\ Spec
    /\ \A p \in Proc : WF_vars(Step(p)) /\ SF_vars(Acquire(p))

-----------------------------------------------------------------------------
(***************************************************************************)
(* PROPERTIES                                                              *)
(***************************************************************************)

\* Between reading the manifest and replacing it, what a lock holder read stays
\* what the file holds: nobody else's update lands in between
\* (_remote.py:165-166).
ReadStaysCurrent ==
    LocksSupported =>
        \A p \in Proc :
            pc[p] \in {"read", "staging", "staged"} => snap[p] = manifest

\* manifest.json is never seen half written, with or without locks, because
\* concurrent writers never share a staging file (_remote.py:152).
NeverTorn == manifest \in Manifest

\* The top level may mix fields of several records, but once a plan is stored it
\* is accepted only as the record of a plan that is stored, and what that reader
\* takes from it is the plan's current record: a reader of the single-plan
\* layout, or one whose plan is missing from "plans", is never given another
\* plan's results or results since replaced (read_plan_manifest and
\* write_plan_manifest, _remote.py:225-254).
MirrorIsCurrent ==
    (\E l \in PlanKey : manifest.map[l] # NoVal) =>
        \A k \in PlanKey : Recognised(manifest, k) =>
            /\ manifest.map[k] # NoVal
            /\ \A f \in Found[k] : manifest.top[f] = manifest.map[k]

\* These two hold without locks too, when the manifest can lose records.
ManifestIsConsistent == NeverTorn /\ MirrorIsCurrent

\* With the lock the manifest behaves like one record updated atomically: each
\* update lands once and keeps everyone else's records
\* (merge_manifest_entries, _remote.py:262).
Pending == [p \in Proc |-> IF pc[p] = "replaced" THEN NoUpdate ELSE update[p]]

Store == INSTANCE ManifestStore WITH store <- manifest, request <- Pending

ImplementsStore == Store!Spec

\* Every caller waiting for the lock is eventually through (or dead): a holder
\* that crashes or fails to write does not keep the lock (_remote.py:168).
WaiterGetsThrough == \A p \in Proc : pc[p] = "waiting" ~> pc[p] = "idle"

(***************************************************************************)
(* The inductive invariant behind these properties.  The lock is held by   *)
(* the one process inside the lock; what a call has staged is what its     *)
(* update makes of what it read; and where plans are stored, both the file *)
(* and what was read show one of them whole at the top level.              *)
(***************************************************************************)

\* Of the fields a reader of plan k looks at, all are from its current record.
ShowsPlan(m, k) ==
    \A f \in (Compared \cap DOMAIN Stated[k]) \cup Found[k] :
        m.top[f] = Record(k, m.map[k])[f]

Mirrored(m) ==
    (\E l \in PlanKey : m.map[l] # NoVal) =>
        \E k \in PlanKey : m.map[k] # NoVal /\ ShowsPlan(m, k)

LockIsExclusive == LocksSupported => \A p \in Proc : pc[p] \in Critical <=> lock = p

StagedIsApplied ==
    \A p \in Proc : pc[p] = "staged" => staging[p] = Applied(snap[p], update[p])

IInv ==
    /\ TypeOK
    /\ LockIsExclusive
    /\ ReadStaysCurrent
    /\ StagedIsApplied
    /\ Mirrored(manifest)
    /\ \A p \in Proc : Mirrored(snap[p])
=============================================================================

----------------------- MODULE SharedManifest_proofs -----------------------
(***************************************************************************)
(* Proofs about SharedManifest, for every set of processes, keys and       *)
(* records, with or without working locks.                                 *)
(***************************************************************************)
EXTENDS SharedManifest, TLAPS

(***************************************************************************)
(* Data: what an update makes of a manifest is a manifest, and shows a     *)
(* stored plan whole at the top level.                                     *)
(***************************************************************************)

\* Laying fields over the top level gives a top level.
LEMMA OverlayType ==
    ASSUME NEW top \in [Field -> Val \cup Said \cup {NoVal}], NEW fields,
           \A f \in DOMAIN fields : fields[f] \in Val \cup Said
    PROVE  Overlay(top, fields) \in [Field -> Val \cup Said \cup {NoVal}]
  BY DEF Overlay

\* The fields of a plan's record are values.
LEMMA RecordType ==
    ASSUME NEW k \in PlanKey, NEW v \in Val
    PROVE  \A f \in DOMAIN Record(k, v) : Record(k, v)[f] \in Val \cup Said
<1>1. \A f \in DOMAIN Stated[k] : Stated[k][f] \in Said
  BY ManifestDataAssumption
<1> QED BY <1>1 DEF Record

\* What a reader of plan k looks at, in a record of k: what it states of the
\* request and what it found.
LEMMA RecordFields ==
    ASSUME NEW k \in PlanKey, NEW v
    PROVE  /\ \A f \in Found[k] : f \in DOMAIN Record(k, v) /\ Record(k, v)[f] = v
           /\ \A f \in DOMAIN Stated[k] :
                  f \in DOMAIN Record(k, v) /\ Record(k, v)[f] = Stated[k][f]
<1>1. DOMAIN Stated[k] \cap Found[k] = {}
  BY ManifestDataAssumption
<1> QED BY <1>1 DEF Record

\* A manifest.json that is missing reads as a manifest with no records.
LEMMA EmptyFileType == EmptyFile \in Manifest
  BY DEF EmptyFile, Manifest

\* So is the single-plan file of an earlier release.
LEMMA EarlierFileType == EarlierFile \subseteq Manifest
<1> SUFFICES ASSUME NEW k \in PlanKey, NEW v \in Val
             PROVE  SinglePlanFile(k, v) \in Manifest
  BY EmptyFileType DEF EarlierFile
<1>1. \A f \in DOMAIN Record(k, v) : Record(k, v)[f] \in Val \cup Said
  BY RecordType
<1>2. EmptyFile.top \in [Field -> Val \cup Said \cup {NoVal}]
  BY EmptyFileType DEF Manifest
<1>3. Overlay(EmptyFile.top, Record(k, v)) \in [Field -> Val \cup Said \cup {NoVal}]
  BY <1>1, <1>2, OverlayType
<1>4. EmptyFile.map \in [Key -> Val \cup {NoVal}]
  BY EmptyFileType DEF Manifest
<1> QED BY <1>3, <1>4 DEF SinglePlanFile, Manifest

\* No plan is stored in such files.
LEMMA EarlierFileMirrored == \A m \in EarlierFile : Mirrored(m)
  BY DEF EarlierFile, SinglePlanFile, EmptyFile, Mirrored, Key

\* An update applied to a manifest gives a manifest (257-268, 243-254).
LEMMA AppliedType ==
    ASSUME NEW m \in Manifest, NEW u \in Update
    PROVE  Applied(m, u) \in Manifest
<1> DEFINE Top == [Field -> Val \cup Said \cup {NoVal}]
<1>1. m.map \in [Key -> Val \cup {NoVal}] /\ m.top \in Top
  BY DEF Manifest
<1>2. CASE u \in PlanUpdate
  <2>1. u.plan \in PlanKey /\ u.val \in Val
    BY <1>2 DEF PlanUpdate
  <2>2. \A f \in DOMAIN Record(u.plan, u.val) : Record(u.plan, u.val)[f] \in Val \cup Said
    BY <2>1, RecordType
  <2>3. Overlay(m.top, Record(u.plan, u.val)) \in Top
    BY <1>1, <2>2, OverlayType
  <2>4. [m.map EXCEPT ![u.plan] = u.val] \in [Key -> Val \cup {NoVal}]
    BY <1>1, <2>1
  <2> HIDE DEF Top
  <2> QED BY <1>2, <2>3, <2>4 DEF Applied, StorePlan, Manifest, Top
<1>3. CASE u \notin PlanUpdate
  <2>1. u.fields \in EntryFields /\ \A k \in DOMAIN u.entries : u.entries[k] \in Val
    BY <1>3 DEF Update, EntryUpdate
  <2>2. \A f \in DOMAIN u.fields : u.fields[f] \in Val \cup Said
    BY <2>1, ManifestDataAssumption
  <2>3. Overlay(m.top, u.fields) \in Top
    BY <1>1, <2>2, OverlayType
  <2>4. [k \in Key |-> IF k \in DOMAIN u.entries THEN u.entries[k] ELSE m.map[k]]
            \in [Key -> Val \cup {NoVal}]
    BY <1>1, <2>1
  <2> HIDE DEF Top
  <2> QED BY <1>3, <2>3, <2>4 DEF Applied, AddEntries, Manifest, Top
<1> QED BY <1>2, <1>3

\* An update keeps a stored plan shown: a plan's record is laid whole over the
\* top level, and a batch of entries touches neither the plans nor the fields
\* their readers look at.
LEMMA AppliedMirrored ==
    ASSUME NEW m \in Manifest, NEW u \in Update, Mirrored(m)
    PROVE  Mirrored(Applied(m, u))
<1>1. CASE u \in PlanUpdate
  <2> DEFINE k == u.plan
             n == Applied(m, u)
  <2>1. k \in PlanKey /\ u.val \in Val
    BY <1>1 DEF PlanUpdate
  <2>2. n.map[k] = u.val
    BY <1>1, <2>1 DEF Applied, StorePlan, Manifest, Key
  <2>3. n.top = Overlay(m.top, Record(k, u.val))
    BY <1>1 DEF Applied, StorePlan
  <2>4. ASSUME NEW f \in (Compared \cap DOMAIN Stated[k]) \cup Found[k]
        PROVE  n.top[f] = Record(k, n.map[k])[f]
    <3>1. f \in Field
      BY <2>1, <2>4, ManifestDataAssumption
    <3>2. f \in DOMAIN Record(k, u.val)
      BY <2>1, <2>4 DEF Record
    <3>3. n.top[f] = Record(k, u.val)[f]
      BY <2>3, <3>1, <3>2 DEF Overlay
    <3> QED BY <2>2, <3>3
  <2>5. ShowsPlan(n, k)
    BY <2>4 DEF ShowsPlan
  <2>6. n.map[k] # NoVal
    BY <2>1, <2>2, ManifestDataAssumption
  <2> HIDE DEF k, n
  <2> QED BY <2>1, <2>5, <2>6 DEF Mirrored, n
<1>2. CASE u \notin PlanUpdate
  <2> DEFINE n == Applied(m, u)
  <2>1. DOMAIN u.entries \subseteq EntryKey /\ u.fields \in EntryFields
    BY <1>2 DEF Update, EntryUpdate
  <2>2. \A k \in PlanKey : n.map[k] = m.map[k]
    BY <1>2, <2>1, ManifestDataAssumption DEF Applied, AddEntries, Key
  <2>3. n.top = Overlay(m.top, u.fields)
    BY <1>2 DEF Applied, AddEntries
  <2>4. ASSUME NEW k \in PlanKey,
               NEW f \in (Compared \cap DOMAIN Stated[k]) \cup Found[k]
        PROVE  n.top[f] = m.top[f]
    <3>1. f \in Field /\ f \notin DOMAIN u.fields
      BY <2>1, <2>4, ManifestDataAssumption
    <3> QED BY <2>3, <3>1 DEF Overlay
  <2>5. \A k \in PlanKey : ShowsPlan(n, k) <=> ShowsPlan(m, k)
    BY <2>2, <2>4 DEF ShowsPlan
  <2> HIDE DEF n
  <2> QED BY <2>2, <2>5 DEF Mirrored, n
<1> QED BY <1>1, <1>2

\* A top level that shows one stored plan whole is recognised by no other: they
\* differ in a field that both readers compare.
LEMMA OnlyItsOwnPlan ==
    ASSUME NEW m, NEW k \in PlanKey, NEW l \in PlanKey,
           ShowsPlan(m, k), Recognised(m, l)
    PROVE  k = l
<1> SUFFICES ASSUME k # l PROVE FALSE
  OBVIOUS
<1>1. PICK f \in Compared \cap DOMAIN Stated[k] \cap DOMAIN Stated[l] :
          Stated[k][f] # Stated[l][f]
  BY ManifestDataAssumption
<1>2. m.top[f] = Stated[k][f]
  <2>1. m.top[f] = Record(k, m.map[k])[f]
    BY <1>1 DEF ShowsPlan
  <2>2. Record(k, m.map[k])[f] = Stated[k][f]
    BY <1>1, RecordFields
  <2> QED BY <2>1, <2>2
<1>3. m.top[f] = Stated[l][f]
  BY <1>1 DEF Recognised
<1> QED BY <1>1, <1>2, <1>3

(***************************************************************************)
(* The inductive invariant.                                                *)
(***************************************************************************)

\* The invariant holds of an empty cache directory and of an earlier release's.
LEMMA InitIInv == Init => IInv
<1> SUFFICES ASSUME Init PROVE IInv
  OBVIOUS
<1>1. Mirrored(manifest)
  BY EarlierFileMirrored DEF Init
<1>2. \A p \in Proc : Mirrored(snap[p])
  <2>1. Mirrored(EmptyFile)
    BY EarlierFileMirrored DEF EarlierFile
  <2> QED BY <2>1 DEF Init
<1>3. TypeOK
  BY EmptyFileType, EarlierFileType DEF Init, TypeOK, Phase
<1>4. LockIsExclusive /\ ReadStaysCurrent /\ StagedIsApplied
  BY SharedManifestAssumption
     DEF Init, LockIsExclusive, ReadStaysCurrent, StagedIsApplied, Critical
<1> QED BY <1>1, <1>2, <1>3, <1>4 DEF IInv

\* Every step preserves it.
LEMMA StepIInv == IInv /\ [Next]_vars => IInv'
<1> SUFFICES ASSUME IInv, [Next]_vars PROVE IInv'
  OBVIOUS
<1> USE SharedManifestAssumption DEF IInv, TypeOK, Phase, Critical, StagingName
<1>1. ASSUME NEW p \in Proc, NEW u \in Update, Begin(p, u) PROVE IInv'
  BY <1>1 DEF Begin, LockIsExclusive, ReadStaysCurrent, StagedIsApplied, Mirrored
<1>2. ASSUME NEW p \in Proc, Acquire(p) PROVE IInv'
  BY <1>2 DEF Acquire, LockIsExclusive, ReadStaysCurrent, StagedIsApplied, Mirrored
<1>3. ASSUME NEW p \in Proc, Read(p) PROVE IInv'
  BY <1>3 DEF Read, LockIsExclusive, ReadStaysCurrent, StagedIsApplied, Mirrored
<1>4. ASSUME NEW p \in Proc, OpenStaging(p) PROVE IInv'
  BY <1>4 DEF OpenStaging, LockIsExclusive, ReadStaysCurrent, StagedIsApplied, Mirrored
<1>5. ASSUME NEW p \in Proc, CloseStaging(p) PROVE IInv'
  BY <1>5, AppliedType
     DEF CloseStaging, LockIsExclusive, ReadStaysCurrent, StagedIsApplied, Mirrored
<1>6. ASSUME NEW p \in Proc, Replace(p) PROVE IInv'
  <2>1. update[p] \in Update /\ snap[p] \in Manifest
    BY <1>6 DEF Replace
  <2>2. manifest' = Applied(snap[p], update[p])
    BY <1>6 DEF Replace, StagedIsApplied
  <2>3. manifest' \in Manifest
    BY <2>1, <2>2, AppliedType
  <2>4. Mirrored(manifest)'
    BY <2>1, <2>2, AppliedMirrored DEF Mirrored
  <2>5. TypeOK'
    BY <1>6, <2>3, EmptyFileType DEF Replace
  <2>6. LockIsExclusive'
    BY <1>6 DEF Replace, LockIsExclusive
  <2>7. ReadStaysCurrent'
    BY <1>6 DEF Replace, LockIsExclusive, ReadStaysCurrent
  <2>8. StagedIsApplied'
    BY <1>6 DEF Replace, StagedIsApplied
  <2>9. (\A q \in Proc : Mirrored(snap[q]))'
    <3>1. Mirrored(EmptyFile)
      BY EarlierFileMirrored DEF EarlierFile
    <3> QED BY <1>6, <3>1 DEF Replace
  <2> QED BY <2>4, <2>5, <2>6, <2>7, <2>8, <2>9
<1>7. ASSUME NEW p \in Proc, Leave(p) PROVE IInv'
  <2>1. Mirrored(EmptyFile)
    BY EarlierFileMirrored DEF EarlierFile
  <2>2. Mirrored(manifest)'
    BY <1>7 DEF Leave, Mirrored
  <2>3. (\A q \in Proc : Mirrored(snap[q]))'
    BY <1>7, <2>1 DEF Leave
  <2>4. TypeOK'
    BY <1>7, EmptyFileType DEF Leave
  <2>5. (LockIsExclusive /\ ReadStaysCurrent /\ StagedIsApplied)'
    BY <1>7 DEF Leave, LockIsExclusive, ReadStaysCurrent, StagedIsApplied
  <2> QED BY <2>2, <2>3, <2>4, <2>5
<1>8. CASE UNCHANGED vars
  BY <1>8 DEF vars, LockIsExclusive, ReadStaysCurrent, StagedIsApplied, Mirrored
<1> QED
  BY <1>1, <1>2, <1>3, <1>4, <1>5, <1>6, <1>7, <1>8
     DEF Next, Step, Release, StageFails, Crash

\* The inductive invariant holds in every reachable state.
THEOREM Invariance == Spec => []IInv
  BY InitIInv, StepIInv, PTL DEF Spec

\* The variables keep their types: in particular manifest.json always parses.
THEOREM TypeCorrect == Spec => []TypeOK
<1>1. IInv => TypeOK
  BY DEF IInv
<1> QED BY <1>1, Invariance, PTL


\* Where locks work, nobody's update lands between another call's read of the
\* manifest and its replacement of it.
THEOREM NoUpdateInBetween == Spec => []ReadStaysCurrent
<1>1. IInv => ReadStaysCurrent
  BY DEF IInv
<1> QED BY <1>1, Invariance, PTL

\* Once a plan is stored, the top level is accepted by no reader but that of a
\* stored plan, which finds its plan's current results there.
THEOREM MirrorStaysCurrent == Spec => []MirrorIsCurrent
<1>1. IInv => MirrorIsCurrent
  <2> SUFFICES ASSUME IInv, \E l \in PlanKey : manifest.map[l] # NoVal,
                      NEW k \in PlanKey, Recognised(manifest, k)
               PROVE  /\ manifest.map[k] # NoVal
                      /\ \A f \in Found[k] : manifest.top[f] = manifest.map[k]
    BY DEF MirrorIsCurrent
  <2>1. PICK l \in PlanKey : manifest.map[l] # NoVal /\ ShowsPlan(manifest, l)
    BY DEF IInv, Mirrored
  <2>2. l = k
    BY <2>1, OnlyItsOwnPlan
  <2>3. ASSUME NEW f \in Found[k] PROVE manifest.top[f] = manifest.map[k]
    <3>1. manifest.top[f] = Record(k, manifest.map[k])[f]
      BY <2>1, <2>2 DEF ShowsPlan
    <3> QED BY <3>1 DEF Record
  <2> QED BY <2>1, <2>2, <2>3
<1> QED BY <1>1, Invariance, PTL

\* manifest.json is never seen half written and its top level misleads no reader, whether
\* or not the file system supports locks: the assumption on LocksSupported is only
\* that it is a Boolean.
THEOREM ManifestStaysConsistent == Spec => []ManifestIsConsistent
<1>1. IInv => NeverTorn
  BY DEF IInv, TypeOK, NeverTorn
<1>2. IInv /\ NeverTorn /\ MirrorIsCurrent => ManifestIsConsistent
  BY DEF ManifestIsConsistent
<1> QED BY <1>1, <1>2, Invariance, MirrorStaysCurrent, PTL

(***************************************************************************)
(* Refinement: where locks work, the shared manifest is an atomic store.   *)
(***************************************************************************)

\* The initial states are those of the store.
LEMMA InitRefines == Init => Store!Init
<1>1. Store!EmptyFile = EmptyFile
  BY DEF EmptyFile, Store!EmptyFile, Key, Store!Key
<1>2. \A k, v : Store!Record(k, v) = Record(k, v)
  BY DEF Record, Store!Record
<1>3. \A top, fields : Store!Overlay(top, fields) = Overlay(top, fields)
  BY DEF Overlay, Store!Overlay
<1>4. Store!EarlierFile = EarlierFile
  BY <1>1, <1>2, <1>3
     DEF EarlierFile, Store!EarlierFile, SinglePlanFile, Store!SinglePlanFile
<1> QED BY <1>4 DEF Init, Store!Init, Pending

\* The store's data operators are the manifest's.
LEMMA SameData == \A m, u : Store!Applied(m, u) = Applied(m, u)
  BY DEF Applied, Store!Applied, AddEntries, Store!AddEntries, StorePlan,
         Store!StorePlan, PlanUpdate, Store!PlanUpdate, Overlay, Store!Overlay,
         Record, Store!Record, Key, Store!Key

\* The store accepts the same updates.
LEMMA SameUpdates == Store!Update = Update
  BY DEF Update, Store!Update, EntryUpdate, Store!EntryUpdate, PlanUpdate, Store!PlanUpdate

\* Every step is a step of the store or leaves it alone: Begin submits,
\* Replace commits, leaving before Replace abandons.
LEMMA StepRefines ==
    ASSUME LocksSupported, IInv, [Next]_vars
    PROVE  [Store!Next]_<<manifest, Pending>>
<1> USE DEF IInv, TypeOK
<1> NoUpdate \notin Update
  BY ManifestDataAssumption
<1>1. ASSUME NEW p \in Proc, NEW u \in Update, Begin(p, u)
      PROVE  Store!Submit(p, u)
  BY <1>1 DEF Begin, Store!Submit, Pending
<1>2. ASSUME NEW p \in Proc,
             Acquire(p) \/ Read(p) \/ OpenStaging(p) \/ CloseStaging(p)
      PROVE  UNCHANGED <<manifest, Pending>>
  BY <1>2 DEF Acquire, Read, OpenStaging, CloseStaging, Pending
<1>3. ASSUME NEW p \in Proc, Replace(p) PROVE Store!Commit(p)
  <2>1. manifest' = Applied(manifest, Pending[p])
    BY <1>3 DEF Replace, StagedIsApplied, ReadStaysCurrent, StagingName, Pending
  <2>2. Pending[p] # NoUpdate
    BY <1>3 DEF Replace, Pending
  <2>3. Pending' = [Pending EXCEPT ![p] = NoUpdate]
    BY <1>3 DEF Replace, Pending
  <2> QED BY <2>1, <2>2, <2>3, SameData DEF Store!Commit
<1>4. ASSUME NEW p \in Proc, Leave(p), pc[p] # "idle"
      PROVE  Store!Abandon(p) \/ UNCHANGED <<manifest, Pending>>
  BY <1>4 DEF Leave, Store!Abandon, Pending
<1>5. CASE UNCHANGED vars
  BY <1>5 DEF vars, Pending
<1> QED
  BY <1>1, <1>2, <1>3, <1>4, <1>5, SameUpdates
     DEF Next, Step, Release, StageFails, Crash, Store!Next

\* Where locks work, merge_manifest_entries and write_plan_manifest are atomic:
\* every update lands once, and keeps the records of every other one.
THEOREM Refinement == LocksSupported => (Spec => ImplementsStore)
<1> SUFFICES ASSUME LocksSupported PROVE Spec => ImplementsStore
  OBVIOUS
<1>1. IInv /\ [Next]_vars => [Store!Next]_<<manifest, Pending>>
  BY StepRefines
<1> QED
  BY <1>1, InitRefines, Invariance, PTL DEF Spec, ImplementsStore, Store!Spec
=============================================================================

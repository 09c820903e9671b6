---------------------------- MODULE ManifestData ----------------------------
(***************************************************************************)
(* The contents of a cache directory's manifest.json and what one update   *)
(* makes of them (workflows/_remote.py).                                   *)
(***************************************************************************)
CONSTANTS
    Proc,       \* processes using one cache directory
    EntryKey,   \* keys of manifest["entries"]
    PlanKey,    \* keys of manifest["plans"]
    Field,      \* the other top-level keys of the manifest
    Compared,   \* the fields _manifest_matches compares with a request
    Stated,     \* PlanKey -> what the plan's records say of its request, by field
    Found,      \* PlanKey -> the fields of its records that hold what was found
    EntryFields, \* the **fields merge_manifest_entries is called with
    Said,       \* the values of Stated and EntryFields
    Val,        \* what was found, or the contents of an entry
    NoVal,      \* the key or field is missing
    NoUpdate    \* the process has no update under way

Key == EntryKey \cup PlanKey

(***************************************************************************)
(* The keyed records, and the fields beside them at the top level.  A plan *)
(* record under "plans" is told by its key and what was found.  A missing  *)
(* manifest.json reads as EmptyFile.                                       *)
(***************************************************************************)
Manifest == [map : [Key -> Val \cup {NoVal}],
             top : [Field -> Val \cup Said \cup {NoVal}]]

EmptyFile == [map |-> [k \in Key |-> NoVal], top |-> [f \in Field |-> NoVal]]

\* {**top, **fields}
Overlay(top, fields) ==
    [f \in Field |-> IF f \in DOMAIN fields THEN fields[f] ELSE top[f]]

\* The record of plan k that found v.  Records of different providers have
\* different fields: source_periods is JRC's, requested_years EDO's.
Record(k, v) ==
    [f \in DOMAIN Stated[k] \cup Found[k] |-> IF f \in Found[k] THEN v ELSE Stated[k][f]]

\* The single-plan layout of earlier releases: the record, and no "plans".
SinglePlanFile(k, v) ==
    [map |-> EmptyFile.map, top |-> Overlay(EmptyFile.top, Record(k, v))]

\* What a cache directory may hold before this release writes to it.
EarlierFile == {EmptyFile} \cup {SinglePlanFile(k, v) : k \in PlanKey, v \in Val}

(***************************************************************************)
(* One call: a batch of entries, empty when every fetch failed             *)
(* (stations.py:462-463), with the fields given beside it; or one plan's   *)
(* record.                                                                 *)
(***************************************************************************)
EntryUpdate == [entries : UNION {[keys -> Val] : keys \in SUBSET EntryKey},
                fields : EntryFields]
PlanUpdate  == [plan : PlanKey, val : Val]
Update      == EntryUpdate \cup PlanUpdate

\* What merge_manifest_entries makes of the manifest it read.
AddEntries(m, u) ==
    [map |-> [k \in Key |->
                 IF k \in DOMAIN u.entries THEN u.entries[k] ELSE m.map[k]],
     top |-> Overlay(m.top, u.fields)]

\* Mutation of StorePlan: the merge the other way round, {**record, **manifest}.
StorePlanUnder(m, u) ==
    [map |-> [m.map EXCEPT ![u.plan] = u.val],
     top |-> Overlay(Overlay(m.top, Record(u.plan, u.val)),
                     [f \in {g \in Field : m.top[g] # NoVal} |-> m.top[f]])]

\* What write_plan_manifest makes of it: the record under its key, and its
\* fields laid over those at the top level, where fields it lacks stay.
StorePlan(m, u) ==
    [map |-> [m.map EXCEPT ![u.plan] = u.val],
     top |-> Overlay(m.top, Record(u.plan, u.val))]

Applied(m, u) == IF u \in PlanUpdate THEN StorePlan(m, u) ELSE AddEntries(m, u)

\* _manifest_matches, of the top level: a reader of the single-plan layout, or
\* of a plan with no record under "plans", takes it for plan k's.
Recognised(m, k) ==
    \A f \in Compared \cap DOMAIN Stated[k] : m.top[f] = Stated[k][f]

(***************************************************************************)
(* A plan's key is a digest of the very fields its reader compares         *)
(* (plan_manifest_key), so any two plans differ in a field both have; and  *)
(* the callers of merge_manifest_entries give none of those fields and     *)
(* nothing a plan finds.                                                   *)
(***************************************************************************)
ASSUME ManifestDataAssumption ==
    /\ EntryKey \cap PlanKey = {}
    /\ NoVal \notin Val \cup Said
    /\ NoUpdate \notin Update
    /\ \A k \in PlanKey :
           /\ Found[k] \subseteq Field
           /\ DOMAIN Stated[k] \subseteq Field \ Found[k]
           /\ \A f \in DOMAIN Stated[k] : Stated[k][f] \in Said
    /\ \A k, l \in PlanKey :
           k # l => \E f \in Compared \cap DOMAIN Stated[k] \cap DOMAIN Stated[l] :
                        Stated[k][f] # Stated[l][f]
    /\ \A e \in EntryFields :
           /\ DOMAIN e \subseteq Field \ Compared
           /\ \A f \in DOMAIN e : e[f] \in Said
           /\ \A k \in PlanKey : DOMAIN e \cap Found[k] = {}
=============================================================================

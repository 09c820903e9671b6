--------------------------- MODULE ManifestStore ---------------------------
(***************************************************************************)
(* What callers of merge_manifest_entries and write_plan_manifest are      *)
(* promised: a manifest shared by several processes behaves like one       *)
(* record that each update changes in a single step, touching its own keys *)
(* and fields and nothing else.  No lock, no staging file, no read appears here.      *)
(* SharedManifest is shown to implement this specification.                *)
(***************************************************************************)
EXTENDS ManifestData

VARIABLES
    store,      \* the manifest
    request     \* the update each process has asked for, or NoUpdate

Init ==
    /\ store \in EarlierFile
    /\ request = [p \in Proc |-> NoUpdate]

Submit(p, u) ==
    /\ request[p] = NoUpdate
    /\ request' = [request EXCEPT ![p] = u]
    /\ UNCHANGED store

\* The whole read-modify-write, in one step.
Commit(p) ==
    /\ request[p] # NoUpdate
    /\ store' = Applied(store, request[p])
    /\ request' = [request EXCEPT ![p] = NoUpdate]

\* The caller died or its write failed: nothing of the update is seen.
Abandon(p) ==
    /\ request[p] # NoUpdate
    /\ request' = [request EXCEPT ![p] = NoUpdate]
    /\ UNCHANGED store

Next ==
    \E p \in Proc :
        \/ \E u \in Update : Submit(p, u)
        \/ Commit(p)
        \/ Abandon(p)

Spec == Init /\ [][Next]_<<store, request>>
=============================================================================

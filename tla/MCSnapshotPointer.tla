-------------------------- MODULE MCSnapshotPointer --------------------------
(* Instances of SnapshotPointer for TLC. *)
EXTENDS SnapshotPointer, TLC

CONSTANTS p1, p2

All == {"reuse", "offline", "refresh"}

\* One process fills and refreshes the cache, the other reads it offline.
WriterAndReader == p1 :> All @@ p2 :> {"offline"}

\* Both refresh.
TwoWriters == p1 :> All @@ p2 :> All
=============================================================================

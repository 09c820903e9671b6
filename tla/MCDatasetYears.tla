--------------------------- MODULE MCDatasetYears ---------------------------
(* Instances of DatasetYears for TLC. *)
EXTENDS DatasetYears, TLC

Ask(g, v, ys) == [grid |-> g, version |-> v, years |-> ys]

\* All years of the newest version on any grid; and one of these years at an
\* older version, or on a grid that is not the preferred one.
Mixed ==
    {Ask(AnyGrid, Latest, Year), Ask(AnyGrid, 1, {2})}
        \cup {Ask(g, Latest, {2}) : g \in Grid \ {PreferredGrid}}

\* The processes run the same code, and the runs check only safety.
Symmetry == Permutations(Proc)
=============================================================================

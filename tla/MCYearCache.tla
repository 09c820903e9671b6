---------------------------- MODULE MCYearCache ----------------------------
(* Instances of YearCache for TLC. *)
EXTENDS YearCache, TLC

Symmetry == Permutations(Proc)
=============================================================================

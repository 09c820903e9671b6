------------------------ MODULE MCTippecanoeProcess ------------------------
(* Instances of TippecanoeProcess for TLC. *)
EXTENDS TippecanoeProcess, TLC
=============================================================================

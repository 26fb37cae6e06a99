--------------------------- MODULE MCFleetControl ---------------------------
(***************************************************************************)
(* Small instances of FleetControl for TLC.                                *)
(***************************************************************************)
EXTENDS FleetControl, TLC

Symmetry == Permutations(Callers) \cup Permutations(Instances) \cup Permutations(Sandboxes)
=============================================================================

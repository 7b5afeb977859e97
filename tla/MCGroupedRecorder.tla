-------------------------- MODULE MCGroupedRecorder --------------------------
(***************************************************************************)
(* Small instances of GroupedRecorder for TLC.                             *)
(***************************************************************************)
EXTENDS GroupedRecorder, TLC

CONSTANTS p1, p2, k1, k2

Symmetry == Permutations(DeviceKeys) \cup Permutations(Reconciles)
=============================================================================

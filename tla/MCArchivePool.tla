--------------------------- MODULE MCArchivePool ---------------------------
(***************************************************************************)
(* Small instances of ArchivePool for TLC.                                 *)
(***************************************************************************)
EXTENDS ArchivePool, TLC

CONSTANTS s1, s2, s3

Symmetry == Permutations(Sessions)
=============================================================================

-------------------------- MODULE MCArchiveSessions --------------------------
(***************************************************************************)
(* Small instances of ArchiveSessions for TLC.                             *)
(***************************************************************************)
EXTENDS ArchiveSessions, TLC

CONSTANTS w1, w2, w3, v1, v2, q1, q2, q3

\* w3 starts and ends within five seconds of w1.
NearPairs == {<<w1, w3>>, <<w3, w1>>}

Symmetry == Permutations(Requests) \cup Permutations(Viewers \ {NoViewer})
=============================================================================

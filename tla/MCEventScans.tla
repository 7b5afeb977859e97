---------------------------- MODULE MCEventScans ----------------------------
(***************************************************************************)
(* Small instances of EventScans for TLC.                                  *)
(***************************************************************************)
EXTENDS EventScans, TLC

CONSTANTS r1, r2

\* Motion has one name everywhere, a crossed line one as an alarm and one in the log.
Motion == [alarm |-> "motion", log |-> "motion", index |-> "motion"]
Crossing == [alarm |-> "vca_rule", log |-> "line_crossing", index |-> "line_crossing"]
MotionAndCrossing == {Motion, Crossing}

\* One event of any kind, or two motions near each other.
OneEventOrTwoMotions ==
    {S \in SUBSET Events :
        \/ Cardinality(S) <= 1
        \/ /\ Cardinality(S) = 2
           /\ \A d, e \in S : d.kind = Motion /\ Near(d.at, e.at)}

Symmetry == Permutations(Ids)
=============================================================================

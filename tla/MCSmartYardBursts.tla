------------------------- MODULE MCSmartYardBursts -------------------------
(***************************************************************************)
(* Small instances of SmartYardBursts for TLC: two players whose bursts    *)
(* overlap or do not, on the grid of the first one and beside it, and      *)
(* three players of one burst.                                             *)
(***************************************************************************)
EXTENDS SmartYardBursts

TwoPlayers == {[asks |-> a, bursts |-> 2, capacity |-> 2] :
                  a \in {<<0, 0>>, <<0, 1>>, <<1, 0>>, <<2, 0>>}}
OneBurst == {[asks |-> a, bursts |-> 1, capacity |-> 1] : a \in {<<0, 2, 2>>}}
NoRoom == {[asks |-> <<2, 0>>, bursts |-> 2, capacity |-> 1]}

SmallPlans == TwoPlayers \cup OneBurst \cup NoRoom
=============================================================================

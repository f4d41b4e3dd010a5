---------------------------- MODULE MCHallsMatch ----------------------------
(* Instances of HallsMatch for TLC.                                         *)
EXTENDS HallsLobby, TLC

CONSTANTS p1, p2, p3, r1, r2, r3, duel, other, beyond

TwoPlayersEach   == [m \in Modes |-> 2]
TwoOrThree       == [m \in Modes |-> IF m = duel THEN 2 ELSE 3]
Symmetry         == Permutations(Players) \cup Permutations(RoomIds)
ModeSymmetry     == Symmetry \cup Permutations(Modes)
=============================================================================

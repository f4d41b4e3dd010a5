---------------------------- MODULE MCRoomServers ----------------------------
(* Instances of RoomServers for TLC.                                        *)
EXTENDS RoomServersGrant

CONSTANTS a, b, m1, m2
Symmetry == Permutations(RoomIds) \cup Permutations(Machines)
==============================================================================

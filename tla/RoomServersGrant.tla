---------------------------- MODULE RoomServersGrant ---------------------------
(* RoomServers implements RoomGrant: the phase is the state of the Room in   *)
(* halls, and the verdict is what the machine sent.                          *)
EXTENDS RoomServers

grantPhase == [r \in RoomIds |->
  CASE hallRoom[r] = "filling"  -> "open"
    [] hallRoom[r] = "creating" -> "asked"
    [] hallRoom[r] = "playing"  -> "playing"
    [] hallRoom[r] = "gone"     -> "closed"]

G == INSTANCE RoomGrant WITH Rooms <- RoomIds, phase <- grantPhase, verdict <- sent

\* Whatever breaks between halls, roommgr and the machine, a room sees one
\* request, one verdict and one game (Room::createRoomServer and
\* onCreateRoomServerCB in halls, onCreateRoomServerProcessFinished in machine).
ImplementsRoomGrant == G!Spec
===============================================================================

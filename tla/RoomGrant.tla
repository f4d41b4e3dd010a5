------------------------------- MODULE RoomGrant -------------------------------
(***************************************************************************)
(* What the servers promise a full room, without roommgr, machines,        *)
(* processes or messages: the room asks for a game server once, it is told *)
(* one verdict at most, it plays only on an OK, and once it is closed, for *)
(* whatever reason, nothing opens it again.  A verdict may come when the   *)
(* room is closed already, or never.                                       *)
(***************************************************************************)
CONSTANT Rooms

VARIABLES
  phase,   \* "open", "asked", "playing" or "closed"
  verdict  \* what was said of the room
vars == <<phase, verdict>>

Verdicts == {{}, {"ok"}, {"fail"}}

TypeOK ==
  /\ phase \in [Rooms -> {"open", "asked", "playing", "closed"}]
  /\ verdict \in [Rooms -> Verdicts]

Init ==
  /\ phase = [r \in Rooms |-> "open"]
  /\ verdict = [r \in Rooms |-> {}]

Ask(r) ==
  /\ phase[r] = "open"
  /\ phase' = [phase EXCEPT ![r] = "asked"]
  /\ UNCHANGED verdict

\* Verdicts are given, of several rooms at once or of one.
Decide ==
  /\ verdict' \in [Rooms -> Verdicts]
  /\ \A r \in Rooms : verdict'[r] # verdict[r] => verdict[r] = {} /\ phase[r] # "open"
  /\ UNCHANGED phase

Begin(r) ==
  /\ phase[r] = "asked" /\ verdict[r] = {"ok"}
  /\ phase' = [phase EXCEPT ![r] = "playing"]
  /\ UNCHANGED verdict

\* Refused, failed, out of time or over.
Close(r) ==
  /\ phase[r] # "closed"
  /\ phase' = [phase EXCEPT ![r] = "closed"]
  /\ UNCHANGED verdict

Next == Decide \/ \E r \in Rooms : Ask(r) \/ Begin(r) \/ Close(r)

Spec == Init /\ [][Next]_vars
===============================================================================

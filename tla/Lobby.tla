-------------------------------- MODULE Lobby --------------------------------
(***************************************************************************)
(* What matchmaking promises a player, without rooms that fill, pending    *)
(* lists, vectors or create requests: a player that asks for a match waits *)
(* until it is put, with exactly as many others as the mode takes, into a  *)
(* game; the game may begin, and it ends.  A player is in one game at most.*)
(***************************************************************************)
EXTENDS Integers, FiniteSets

CONSTANTS Players, Modes, PlayerMax, GameIds

VARIABLES
  phase,   \* player -> "out", "idle", "waiting", "matched" or "playing"
  games    \* game id -> its players; those that left are not in it any more
vars == <<phase, games>>

Phases == {"out", "idle", "waiting", "matched", "playing"}

TypeOK ==
  /\ phase \in [Players -> Phases]
  /\ DOMAIN games \subseteq GameIds
  /\ games \in [DOMAIN games -> SUBSET Players]

Init ==
  /\ phase = [p \in Players |-> "out"]
  /\ games = [g \in {} |-> {}]

Move(S, to) == phase' = [p \in Players |-> IF p \in S THEN to ELSE phase[p]]

Arrive(p) ==
  /\ phase[p] = "out"
  /\ Move({p}, "idle")
  /\ UNCHANGED games

\* A player may go in any phase; the game it was in goes on without it.
Depart(p) ==
  /\ phase[p] # "out"
  /\ Move({p}, "out")
  /\ games' = [g \in DOMAIN games |-> games[g] \ {p}]

Ask(p) ==
  /\ phase[p] = "idle"
  /\ Move({p}, "waiting")
  /\ UNCHANGED games

\* A game is made of players that all wait, as many as its mode takes.
Form(g, m, S) ==
  /\ g \notin DOMAIN games
  /\ \A p \in S : phase[p] = "waiting"
  /\ Cardinality(S) = PlayerMax[m]
  /\ Move(S, "matched")
  /\ games' = [h \in DOMAIN games \cup {g} |-> IF h = g THEN S ELSE games[h]]

Begin(g) ==
  /\ g \in DOMAIN games
  /\ \A p \in games[g] : phase[p] = "matched"
  /\ Move(games[g], "playing")
  /\ UNCHANGED games

End(g) ==
  /\ g \in DOMAIN games
  /\ Move(games[g], "idle")
  /\ games' = [h \in DOMAIN games \ {g} |-> games[h]]

Next ==
  \/ \E p \in Players : Arrive(p) \/ Depart(p) \/ Ask(p)
  \/ \E g \in GameIds, m \in Modes, S \in SUBSET Players : Form(g, m, S)
  \/ \E g \in GameIds : Begin(g) \/ End(g)

Spec == Init /\ [][Next]_vars

\* A game that was formed ends, begun or not.
FairSpec == Spec /\ \A g \in GameIds : WF_vars(End(g))
===============================================================================

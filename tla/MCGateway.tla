------------------------------- MODULE MCGateway ------------------------------
(* Instances of Gateway for TLC.                                             *)
EXTENDS Gateway, TLC

CONSTANTS c1, c2, l, h

OneEach == (l :> "login") @@ (h :> "halls")
AllAndServed == (c1 :> Cmds) @@ (c2 :> {"login", "halls"})
TwoAndOne == (c1 :> 2) @@ (c2 :> 1)
===============================================================================

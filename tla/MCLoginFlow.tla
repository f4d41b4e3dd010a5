----------------------------- MODULE MCLoginFlow ------------------------------
(* Instances of LoginFlow for TLC.                                           *)
EXTENDS LoginFlow, TLC

Symmetric == Permutations(Users) \cup Permutations(Halls)
===============================================================================

-------------------------- MODULE MCConnectorFinder ---------------------------
(* Instances of ConnectorFinder for TLC.                                     *)
EXTENDS ConnectorFinder
===============================================================================

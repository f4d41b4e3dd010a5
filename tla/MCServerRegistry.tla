--------------------------- MODULE MCServerRegistry ---------------------------
(* Instances of ServerRegistry for TLC.                                      *)
EXTENDS ServerRegistry, TLC

CONSTANTS dbmgr, hallsmgr

DbmgrFirst == <<dbmgr, hallsmgr>>
===============================================================================

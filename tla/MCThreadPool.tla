----------------------------- MODULE MCThreadPool -----------------------------
(* Instances of ThreadPool for TLC.                                          *)
EXTENDS ThreadPoolService

CONSTANTS w1, w2, w3
===============================================================================

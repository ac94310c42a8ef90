------------------------------ MODULE MCGenServer ------------------------------
(* GenServer for TLC.                                                       *)
EXTENDS GenServer
=============================================================================

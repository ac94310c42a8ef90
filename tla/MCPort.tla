------------------------------- MODULE MCPort -------------------------------
(* Port for TLC.                                                            *)
EXTENDS Port
=============================================================================

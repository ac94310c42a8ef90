------------------------------ MODULE MCGenStart ------------------------------
(* GenStart for TLC.                                                        *)
EXTENDS GenStart

AllModes == ModesOfStart
===============================================================================

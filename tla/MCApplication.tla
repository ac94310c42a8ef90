---------------------------- MODULE MCApplication ----------------------------
(* Application for TLC.                                                     *)
EXTENDS Application
=============================================================================

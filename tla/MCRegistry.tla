------------------------------ MODULE MCRegistry ------------------------------
(***************************************************************************)
(* Two clients race with each other and with the exits of two processes    *)
(* over two names.                                                         *)
(***************************************************************************)
EXTENDS Registry
=============================================================================

------------------------------ MODULE MCProcess ------------------------------
(***************************************************************************)
(* Process on small sets: two processes that make three API calls between  *)
(* them (MCProcess.cfg), a process that spawns another                     *)
(* (MCProcessSpawn.cfg), and the smallest instance in which a link or      *)
(* monitor signal is lost (MCProcessLost.cfg).                             *)
(***************************************************************************)
EXTENDS Process

\* The processes of Initial start alike.  Sound for invariants; the cfgs with
\* temporal properties do not use it.
Symmetry == Permutations(Initial)
=============================================================================

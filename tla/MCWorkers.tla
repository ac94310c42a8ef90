------------------------------ MODULE MCWorkers ------------------------------
(* Workers for TLC.  Two timers: one for each that can be alive at a time.  *)
EXTENDS Workers

Three == {"owner", "rec", "task"}
=============================================================================

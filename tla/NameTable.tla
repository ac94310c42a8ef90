------------------------------ MODULE NameTable ------------------------------
(***************************************************************************)
(* What the name registry promises, without its locks: a name belongs to   *)
(* at most one process and a process has at most one name, and a process   *)
(* that is gone has given its name back and never gets one again.          *)
(***************************************************************************)
CONSTANTS
  Names,     \* the names that can be registered
  Procs,     \* the processes
  NoProc     \* the table's value for a free name

VARIABLES
  table,     \* table[n]: the process registered as n
  gone       \* the processes that have finished exiting

tableVars == <<table, gone>>

TableInit ==
  /\ table = [n \in Names |-> NoProc]
  /\ gone = {}

Bind(n, p) ==
  /\ table[n] = NoProc
  /\ p \notin gone
  /\ \A m \in Names : table[m] # p
  /\ table' = [table EXCEPT ![n] = p]
  /\ UNCHANGED gone

Unbind(n) ==
  /\ table[n] # NoProc
  /\ table' = [table EXCEPT ![n] = NoProc]
  /\ UNCHANGED gone

Go(p) ==
  /\ \A n \in Names : table[n] # p
  /\ gone' = gone \cup {p}
  /\ UNCHANGED table

TableNext ==
  \/ \E n \in Names : Unbind(n) \/ \E p \in Procs : Bind(n, p)
  \/ \E p \in Procs : Go(p)

TableSpec == TableInit /\ [][TableNext]_tableVars
=============================================================================

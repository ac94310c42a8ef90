------------------------------- MODULE MCInbox -------------------------------
(***************************************************************************)
(* Two ranging consumers, the pump with its reader and a caller of Pop     *)
(* compete for the messages; the inbox may be closed at any point.         *)
(***************************************************************************)
EXTENDS Inbox
=============================================================================

------------------------------- MODULE Mailbox -------------------------------
(***************************************************************************)
(* What an inbox promises its users, without goroutines, a mutex or a      *)
(* channel: messages are accepted while it is open, leave it one at a time *)
(* in the order they were accepted, and nothing enters or leaves once it   *)
(* has been shut.                                                          *)
(***************************************************************************)
EXTENDS Naturals, Sequences

VARIABLES
  queue,      \* the messages accepted and not yet taken, oldest first
  open,       \* FALSE once the mailbox is shut
  history     \* every message that was ever accepted, in order

mailboxVars == <<queue, open, history>>

MailboxInit ==
  /\ queue = <<>>
  /\ open = TRUE
  /\ history = <<>>

Accept ==
  LET m == Len(history) + 1 IN
  /\ open
  /\ queue' = Append(queue, m)
  /\ history' = Append(history, m)
  /\ UNCHANGED open

Take ==
  /\ open
  /\ queue # <<>>
  /\ queue' = Tail(queue)
  /\ UNCHANGED <<open, history>>

Shut ==
  /\ open
  /\ open' = FALSE
  /\ UNCHANGED <<queue, history>>

MailboxNext == Accept \/ Take \/ Shut

MailboxSpec == MailboxInit /\ [][MailboxNext]_mailboxVars
=============================================================================

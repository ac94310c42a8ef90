-------------------------------- MODULE Timer --------------------------------
(***************************************************************************)
(* erl: SendAfter, CancelTimer and the timer process.                      *)
(*                                                                         *)
(* Each SendAfter spawns a process that monitors the receiver and selects  *)
(* between its inbox and time.After: it ends when it is cancelled, when    *)
(* the receiver is down, and when it has sent the message.  Time is left   *)
(* out: a timer that has started may fire at any moment.  alive and mail   *)
(* stand for the processes of Process.tla, for the modules that extend     *)
(* this one.                                                               *)
(***************************************************************************)
EXTENDS Naturals, Sequences, FiniteSets

CONSTANTS
  Procs,   \* the processes that timers send to
  Timers   \* timer processes; one that has ended may be spawned anew

VARIABLES
  alive,   \* the processes with status running
  mail,    \* the Runnable's inbox of each
  timer    \* each timer: where it is, for whom, and what it is to send

timerVars == <<alive, mail, timer>>

Idle == [st |-> "ended", to |-> "nobody", term |-> "none", cancel |-> FALSE]
Live(t) == timer[t].st # "ended"

TimerTypeOK ==
  /\ alive \subseteq Procs
  /\ mail \in [Procs -> Seq({"doTask", "stop", "exit", "funExited", "tick"})]
  /\ timer \in [Timers -> {Idle} \cup
       [st : {"start", "select"}, to : Procs, term : {"doTask", "tick"}, cancel : BOOLEAN]]

TimerInit ==
  /\ alive = Procs /\ mail = [p \in Procs |-> <<>>] /\ timer = [t \in Timers |-> Idle]

\* What Send does to a message for p.
Sent(p, term) == IF p \in alive THEN [mail EXCEPT ![p] = Append(@, term)] ELSE mail

\* The process of p exits.  Its inbox is drained, but for a message that the pump holds
\* and that the Runnable will still get.
Exited(p) ==
  /\ p \in alive /\ alive' = alive \ {p}
  /\ \E kept \in {0, 1} : mail' = [mail EXCEPT ![p] = IF kept <= Len(@) THEN SubSeq(@, 1, kept) ELSE @]

\* SendAfter spawns a timer, if p is running.
SendAfterWith(p, term) ==
  IF p \in alive
  THEN \E t \in Timers : ~Live(t) /\ timer' =
         [timer EXCEPT ![t] = [st |-> "start", to |-> p, term |-> term, cancel |-> FALSE]]
  ELSE UNCHANGED timer

\* CancelTimer sends cancelTimer to the timer's process, if that is still there.
CancelTimer(t) ==
  /\ timer' = IF Live(t) THEN [timer EXCEPT ![t].cancel = TRUE] ELSE timer
  /\ UNCHANGED <<alive, mail>>

\* Monitor, which answers at once if the receiver is gone by now.
TimerMonitors(t) ==
  /\ timer[t].st = "start" /\ timer' = [timer EXCEPT ![t].st = "select"]
  /\ UNCHANGED <<alive, mail>>

\* cancelTimer or the receiver's DownMsg is in the inbox.
TimerLeaves(t) ==
  /\ timer[t].st = "select" /\ (timer[t].cancel \/ timer[t].to \notin alive)
  /\ timer' = [timer EXCEPT ![t] = Idle]
  /\ UNCHANGED <<alive, mail>>

\* time.After won the select, whatever the inbox holds.
TimerFires(t) ==
  /\ timer[t].st = "select"
  /\ mail' = Sent(timer[t].to, timer[t].term)
  /\ timer' = [timer EXCEPT ![t] = Idle]
  /\ UNCHANGED alive

TimerStep(t) == TimerMonitors(t) \/ TimerLeaves(t) \/ TimerFires(t)
=============================================================================

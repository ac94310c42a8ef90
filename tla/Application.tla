----------------------------- MODULE Application -----------------------------
(***************************************************************************)
(* erl/application: one application over its root supervisor.              *)
(*                                                                         *)
(* The application is a gensrv process, linked to RootPID, whose Init      *)
(* starts the user's root supervisor and only then traps exits.  The       *)
(* context's CancelFunc is called when the root supervisor ends, and when  *)
(* Terminate runs.  App.Stop, which main and others may call, runs the     *)
(* user's Stop and then stops the process, for at most 60 seconds.         *)
(* gensrv gives each message to the handler that is registered for its     *)
(* type; one without a handler is an Exception, and ends the process.      *)
(***************************************************************************)
EXTENDS Naturals, Sequences

CONSTANT Stoppers   \* those who may call App.Stop

ASSUME ApplicationAssumption == Stoppers # {}

VARIABLES
  pc,        \* where the application's Runnable is
  proc,      \* its process: "up", "exiting" (Runnable not done), "over"
  trap,      \* TrapExit is set
  mailbox,   \* "exit" (of the root supervisor), "stop" (a stopRequest), "stray"
  stopped,   \* appState.stopped
  sup,       \* the root supervisor: "none", "up", "asked" (to stop), "down"
  signalled, \* the exit signal of its end has reached the application's process
  cancels,   \* history: calls of the CancelFunc
  start,     \* what application.Start came to: "none", "app", "panic"
  flag,      \* App.stopped
  stopper    \* where each App.Stop is

appVars == <<pc, proc, trap, mailbox, stopped, sup, signalled, cancels, start, flag, stopper>>
self == <<pc, mailbox, stopped, cancels>>
handle == <<start, flag, stopper>>

AppTypeOK ==
  /\ pc \in {"Start", "TrapExit", "ack", "loop", "handleTerminate", "stopSup", "cancel", "returned"}
  /\ proc \in {"up", "exiting", "over"}
  /\ mailbox \in Seq({"exit", "stop", "stray"})
  /\ sup \in {"none", "up", "asked", "down"}
  /\ trap \in BOOLEAN /\ stopped \in BOOLEAN /\ signalled \in BOOLEAN /\ flag \in BOOLEAN
  /\ cancels \in 0..2
  /\ start \in {"none", "app", "panic"}
  /\ stopper \in [Stoppers -> {"idle", "Stop", "wait", "ok", "gone", "timeout"}]

AppInit ==
  /\ pc = "Start" /\ proc = "up" /\ trap = FALSE /\ mailbox = <<>> /\ stopped = FALSE
  /\ sup = "none" /\ signalled = FALSE /\ cancels = 0
  /\ start = "none" /\ flag = FALSE /\ stopper = [s \in Stoppers |-> "idle"]
-----------------------------------------------------------------------------
(* The application's callbacks, as its Runnable runs them.                  *)

\* The user's Start returns the root supervisor, or an error that ends Init.
AppStart ==
  /\ pc = "Start"
  /\ \/ pc' = "TrapExit" /\ sup' = "up" /\ UNCHANGED start
     \/ pc' = "returned" /\ start' = "panic" /\ UNCHANGED sup
  /\ UNCHANGED <<proc, trap, mailbox, stopped, signalled, cancels, flag, stopper>>

AppTraps ==
  /\ pc = "TrapExit" /\ trap' = TRUE /\ pc' = "ack"
  /\ UNCHANGED <<proc, mailbox, stopped, sup, signalled, cancels, handle>>

\* The initAck: application.Start returns the App, dead or alive.
AppStarted ==
  /\ pc = "ack" /\ pc' = "loop" /\ start' = "app"
  /\ UNCHANGED <<proc, trap, mailbox, stopped, sup, signalled, cancels, flag, stopper>>

Taken(m) == pc = "loop" /\ mailbox # <<>> /\ Head(mailbox) = m /\ mailbox' = Tail(mailbox)

\* handleExitMsg of the root supervisor: it cancels, and its error Normal makes
\* handleInfoRequest call Terminate with the state it returned.
HandleExitMsg ==
  /\ Taken("exit")
  /\ stopped' = TRUE /\ cancels' = cancels + 1 /\ pc' = "handleTerminate"
  /\ UNCHANGED <<proc, trap, sup, signalled, handle>>

HandleStop ==
  /\ Taken("stop") /\ pc' = "handleTerminate"
  /\ UNCHANGED <<proc, trap, stopped, sup, signalled, cancels, handle>>

\* CB.HandleInfo finds no handler for the type, and its Exception leads to Terminate.
NoHandler ==
  /\ Taken("stray") /\ pc' = "handleTerminate"
  /\ UNCHANGED <<proc, trap, stopped, sup, signalled, cancels, handle>>

\* The process was killed: the Runnable finds its inbox closed.
LoopCloses ==
  /\ pc = "loop" /\ proc = "exiting" /\ pc' = "returned"
  /\ UNCHANGED <<proc, trap, mailbox, stopped, sup, signalled, cancels, handle>>

\* Mutant: the supervisor is told to stop, and nobody waits.
TerminateInHaste ==
  /\ pc = "handleTerminate" /\ pc' = "cancel"
  /\ sup' = IF sup = "up" THEN "asked" ELSE sup
  /\ UNCHANGED <<proc, trap, mailbox, stopped, signalled, cancels, handle>>

\* handleTerminate stops a supervisor that is alive, waits for it without limit, and
\* cancels unless handleExitMsg has.
HandleTerminate ==
  /\ pc = "handleTerminate"
  /\ pc' = IF sup = "up" THEN "stopSup" ELSE "cancel"
  /\ sup' = IF sup = "up" THEN "asked" ELSE sup
  /\ UNCHANGED <<proc, trap, mailbox, stopped, signalled, cancels, handle>>

SupStopped ==
  /\ pc = "stopSup" /\ sup = "down" /\ pc' = "cancel"
  /\ UNCHANGED <<proc, trap, mailbox, stopped, sup, signalled, cancels, handle>>

EnsureCancelled ==
  /\ pc = "cancel" /\ pc' = "returned"
  /\ cancels' = IF stopped THEN cancels ELSE cancels + 1
  /\ UNCHANGED <<proc, trap, mailbox, stopped, sup, signalled, handle>>
-----------------------------------------------------------------------------
(* Its process, its supervisor.                                             *)

\* Somebody sends it a message; one such in the inbox at a time will do.
SendStray ==
  /\ proc = "up" /\ "stray" \notin {mailbox[i] : i \in DOMAIN mailbox}
  /\ mailbox' = Append(mailbox, "stray")
  /\ UNCHANGED <<pc, stopped, cancels, proc, trap, sup, signalled, handle>>

\* The process ends with its Runnable.
AppEnds ==
  /\ pc = "returned" /\ proc # "over" /\ proc' = "over"
  /\ UNCHANGED <<self, trap, sup, signalled, handle>>

\* The restart intensity is exceeded, or the supervisor has stopped its children.
SupEnds ==
  /\ sup \in {"up", "asked"} /\ sup' = "down"
  /\ UNCHANGED <<self, proc, trap, signalled, handle>>

\* Mutant: an application that traps exits takes no notice.
SupSignalsNobody ==
  /\ sup = "down" /\ ~signalled /\ signalled' = TRUE
  /\ proc' = (IF ~trap /\ proc = "up" THEN "exiting" ELSE proc)
  /\ UNCHANGED <<self, trap, sup, handle>>

\* The link's signal: an ExitMsg if the application traps exits by now, its end if not.
SupSignals ==
  /\ sup = "down" /\ ~signalled /\ signalled' = TRUE
  /\ IF trap
     THEN /\ mailbox' = IF proc = "up" THEN Append(mailbox, "exit") ELSE mailbox
          /\ UNCHANGED proc
     ELSE /\ proc' = (IF proc = "up" THEN "exiting" ELSE proc)
          /\ UNCHANGED mailbox
  /\ UNCHANGED <<pc, stopped, cancels, trap, sup, handle>>
-----------------------------------------------------------------------------
(* App.Stop.                                                                *)

\* The flag, and the user's Stop.
AppStop(s) ==
  /\ start = "app" /\ stopper[s] = "idle"
  /\ flag' = TRUE /\ stopper' = [stopper EXCEPT ![s] = "Stop"]
  /\ UNCHANGED <<self, proc, trap, sup, signalled, start>>

\* genserver.Stop: nothing to do, or a genStopper that sends a stopRequest.
StopRequests(s) ==
  /\ stopper[s] = "Stop"
  /\ stopper' = [stopper EXCEPT ![s] = IF proc = "up" THEN "wait" ELSE "gone"]
  /\ mailbox' = IF proc = "up" THEN Append(mailbox, "stop") ELSE mailbox
  /\ UNCHANGED <<pc, stopped, cancels, proc, trap, sup, signalled, start, flag>>

\* The DownMsg.
StopSeesDown(s) ==
  /\ stopper[s] = "wait" /\ proc # "up"
  /\ stopper' = [stopper EXCEPT ![s] = "ok"]
  /\ UNCHANGED <<self, proc, trap, sup, signalled, start, flag>>

StopTimesOut(s) ==
  /\ stopper[s] = "wait" /\ stopper' = [stopper EXCEPT ![s] = "timeout"]
  /\ UNCHANGED <<self, proc, trap, sup, signalled, start, flag>>

RunnableStep ==
  \/ AppStart \/ AppTraps \/ AppStarted \/ HandleExitMsg \/ HandleStop \/ NoHandler
  \/ LoopCloses \/ HandleTerminate \/ SupStopped \/ EnsureCancelled
StopStep(s) == StopRequests(s) \/ StopSeesDown(s) \/ StopTimesOut(s)

AppNext ==
  \/ RunnableStep \/ AppEnds \/ SupEnds \/ SupSignals \/ SendStray
  \/ \E s \in Stoppers : AppStop(s) \/ StopStep(s)

AppSpec == AppInit /\ [][AppNext]_appVars

\* Goroutines are scheduled, and a supervisor that was told to stop does.
AppFairSpec ==
  /\ AppSpec /\ WF_appVars(RunnableStep) /\ WF_appVars(AppEnds) /\ WF_appVars(SupSignals)
  /\ WF_appVars(sup = "asked" /\ SupEnds)
  /\ \A s \in Stoppers : WF_appVars(StopStep(s))
-----------------------------------------------------------------------------
(* What is checked.                                                         *)

\* "Stop stops the app synchronously, shutting down the supervision tree"
\* (application.go:117): when it returns, unless its 60 seconds were over, process and
\* tree are gone and the context is cancelled.  An application that its supervisor
\* killed before it trapped exits has cancelled nothing.
StopIsSynchronous ==
  \A s \in Stoppers : stopper[s] \in {"ok", "gone"} =>
    sup = "down" /\ (cancels = 1 \/ (signalled /\ proc # "up"))

\* Types; the CancelFunc is called once, by handleExitMsg or by Terminate, whichever of
\* the root supervisor's end, the stopRequests and a stray message comes first; and Stop
\* is synchronous.
AppIInv ==
  /\ AppTypeOK
  /\ cancels <= 1 /\ (stopped => cancels = 1)
  /\ pc \notin {"handleTerminate", "stopSup", "cancel", "returned"} => ~stopped
  /\ pc # "returned" /\ cancels = 1 => stopped
  /\ StopIsSynchronous

\* "It's primary function is to call a [context.CancelFunc] when the children crashes
\* exceed the restart intensity" (application.go:2-3).  It is not called when the end of
\* the supervisor comes before the application traps exits, and kills it.
IntensityCancels == sup = "down" /\ proc = "up" ~> cancels > 0 \/ proc = "exiting"
=============================================================================

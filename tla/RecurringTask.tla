---------------------------- MODULE RecurringTask ----------------------------
(***************************************************************************)
(* erl/recurringtask: the server that runs a TaskFun, schedules itself     *)
(* with SendAfter, and runs it again.                                      *)
(*                                                                         *)
(* Process "rec" does not trap exits: any exit signal may end it, of its   *)
(* parent or another, but for the normal end of one that it is linked to.  *)
(***************************************************************************)
EXTENDS Timer

VARIABLES
  rpc,      \* where the Runnable is
  stopper,  \* Stop: "none"; "stop" or "kill" (sent), "cut" when a signal ended the process
            \* meanwhile; "stopped", or "killed" after a signal (returned)
  late      \* history: runs of the TaskFun that began after Stop had returned

recVars == <<rpc, stopper, late>>

RecTypeOK ==
  /\ rpc \in {"Init", "loop", "taskFun", "returned"}
  /\ stopper \in {"none", "stop", "kill", "cut", "stopped", "killed"}
  /\ late \in 0..1

RecInit == rpc = "Init" /\ stopper = "none" /\ late = 0

\* Mutant: the first doTask is not sent.
RecInitForgets ==
  /\ rpc = "Init" /\ rpc' \in {"loop", "returned"}
  /\ UNCHANGED <<timerVars, stopper, late>>

\* The initFun returns a state, and the first doTask is sent; or it fails.
RecInitReturns ==
  /\ rpc = "Init"
  /\ \/ rpc' = "loop" /\ mail' = Sent("rec", "doTask")
     \/ rpc' = "returned" /\ UNCHANGED mail
  /\ UNCHANGED <<alive, timer, stopper, late>>

\* The TaskFun begins, or a stopRequest ends the loop.
RecReceives ==
  /\ rpc = "loop" /\ mail["rec"] # <<>>
  /\ mail' = [mail EXCEPT !["rec"] = Tail(@)]
  /\ LET begins == Head(mail["rec"]) = "doTask"
     IN /\ rpc' = IF begins THEN "taskFun" ELSE "returned"
        /\ late' = IF begins /\ stopper \in {"stopped", "killed"} THEN late + 1 ELSE late
  /\ UNCHANGED <<alive, timer, stopper>>

\* Mutant: the next run is sent before the TaskFun as well.
TaskFunSchedulesTwice ==
  /\ rpc = "taskFun" /\ rpc' \in {"loop", "returned"}
  /\ SendAfterWith("rec", "doTask") /\ mail' = Sent("rec", "doTask")
  /\ UNCHANGED <<alive, stopper, late>>

\* HandleInfo sends the next doTask whether the TaskFun failed or not; an error then
\* ends the server.
TaskFunReturns ==
  /\ rpc = "taskFun" /\ rpc' \in {"loop", "returned"}
  /\ SendAfterWith("rec", "doTask")
  /\ UNCHANGED <<alive, mail, stopper, late>>

\* A panic ends it before it does.
TaskFunPanics ==
  /\ rpc = "taskFun" /\ rpc' = "returned"
  /\ UNCHANGED <<timerVars, stopper, late>>

RecLoopCloses ==
  /\ rpc = "loop" /\ "rec" \notin alive /\ mail["rec"] = <<>> /\ rpc' = "returned"
  /\ UNCHANGED <<timerVars, stopper, late>>

\* The process exits: because its Runnable has returned, or by a signal.
RecEnds == Exited("rec") /\ UNCHANGED <<timer, rpc, late>>
RecReturned == rpc = "returned" /\ RecEnds /\ UNCHANGED stopper
RecSignalled == RecEnds /\ stopper' = IF stopper = "stop" THEN "cut" ELSE stopper

\* genserver.Stop, with a stopRequest or with Kill.
RecStop ==
  /\ stopper = "none" /\ "rec" \in alive /\ rpc # "Init"
  /\ stopper' \in {"stop", "kill"}
  /\ mail' = IF stopper' = "stop" THEN Sent("rec", "stop") ELSE mail
  /\ UNCHANGED <<alive, timer, rpc, late>>
RecKilled == stopper = "kill" /\ RecEnds /\ UNCHANGED stopper

\* The DownMsg lets Stop return.
RecStopReturns ==
  /\ "rec" \notin alive /\ stopper \in {"stop", "kill", "cut"}
  /\ stopper' = IF stopper = "stop" THEN "stopped" ELSE "killed"
  /\ UNCHANGED <<timerVars, rpc, late>>

RecStep ==
  \/ RecReceives \/ TaskFunReturns \/ RecLoopCloses \/ RecReturned
  \/ RecKilled \/ RecStopReturns
RecEvent == RecInitReturns \/ TaskFunPanics \/ RecStop \/ RecSignalled
=============================================================================

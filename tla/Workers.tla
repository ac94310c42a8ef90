------------------------------- MODULE Workers -------------------------------
(***************************************************************************)
(* A process that owns a task and a recurring task and sets itself a       *)
(* timer: the end of the owner meets each of them in the middle of what    *)
(* they are doing.                                                         *)
(***************************************************************************)
EXTENDS RecurringTask, Task

ASSUME WorkersAssumption == Procs = {"owner", "rec", "task"}

VARIABLE ticking    \* of the owner's timer: "no", "set", "cancelled"

workersVars == <<timerVars, recVars, taskVars, ticking>>

WorkersInit == TimerInit /\ RecInit /\ TaskInit /\ ticking = "no"

OwnerSetsTimer ==
  /\ ticking = "no" /\ "owner" \in alive /\ ticking' = "set"
  /\ SendAfterWith("owner", "tick")
  /\ UNCHANGED <<alive, mail, recVars, taskVars>>

OwnerCancelsTimer ==
  /\ ticking = "set" /\ "owner" \in alive /\ ticking' = "cancelled"
  /\ \E t \in Timers : timer[t].term = "tick" /\ CancelTimer(t)
  /\ UNCHANGED <<recVars, taskVars>>

\* What its Runnable still gets, or does, is nothing to the others.
OwnerExits ==
  /\ "owner" \in alive /\ alive' = alive \ {"owner"}
  /\ mail' = [mail EXCEPT !["owner"] = <<>>]
  /\ UNCHANGED <<timer, recVars, taskVars, ticking>>

WorkersStep ==
  \/ (\E t \in Timers : TimerStep(t)) /\ UNCHANGED <<recVars, taskVars, ticking>>
  \/ RecStep /\ UNCHANGED <<taskVars, ticking>>
  \/ TaskStep /\ UNCHANGED <<recVars, ticking>>

WorkersEvent ==
  \/ RecEvent /\ UNCHANGED <<taskVars, ticking>>
  \/ TaskEvent /\ UNCHANGED <<recVars, ticking>>
  \/ OwnerSetsTimer \/ OwnerCancelsTimer \/ OwnerExits

WorkersNext == WorkersStep \/ WorkersEvent

WorkersSpec == WorkersInit /\ [][WorkersNext]_workersVars

\* Goroutines are scheduled and timers fire.  The user's functions need not return, but
\* for a TaskFun of the recurring task and a cleanup.
WorkersFairSpec ==
  /\ WorkersSpec
  /\ \A t \in Timers : WF_workersVars(TimerStep(t) /\ UNCHANGED <<recVars, taskVars, ticking>>)
  /\ WF_workersVars(RecReceives /\ UNCHANGED <<taskVars, ticking>>)
  /\ WF_workersVars(TaskFunReturns /\ UNCHANGED <<taskVars, ticking>>)
  /\ WF_workersVars((RecLoopCloses \/ RecReturned \/ RecKilled \/ RecStopReturns)
             /\ UNCHANGED <<taskVars, ticking>>)
  /\ WF_workersVars(TaskRuns /\ UNCHANGED <<recVars, ticking>>)
  /\ WF_workersVars(TaskParentSignal /\ UNCHANGED <<recVars, ticking>>)
-----------------------------------------------------------------------------
(* What is checked.                                                         *)

WorkersTypeOK ==
  TimerTypeOK /\ RecTypeOK /\ TaskTypeOK /\ ticking \in {"no", "set", "cancelled"}

\* The next run of the TaskFun: sent, about to be sent by a timer, or going on.
Runs ==
  Cardinality({i \in DOMAIN mail["rec"] : mail["rec"][i] = "doTask"})
    + Cardinality({t \in Timers : timer[t].to = "rec"})
    + Cardinality({x \in {"taskFun"} : rpc = x})

\* "only one TaskFun is executing at any one time" (recurring_task.go:7), and, as long as
\* the process runs, one is on its way: never two, never none.
OneRunAhead == Runs <= 1 /\ ("rec" \in alive /\ rpc = "loop" => Runs = 1)

\* "Stops the task fun, synchronously" (recurring_task.go:102): once Stop has returned,
\* no run begins.  A Kill, or any other exit signal, may leave one to a Runnable that was
\* just getting its doTask.
StopEndsRuns ==
  /\ stopper = "stopped" => rpc = "returned" /\ late = 0
  /\ late <= 1

\* The task "will call the [cleanup] function before it exits" (task.go:6), so that the
\* TaskFun does not run on alone.  Two ends of the process break that: a Kill, and any
\* exit signal that comes before TrapExit; the Runnable then starts the TaskFun all the
\* same, or finds its inbox closed.
FunNotAbandoned == tpc = "returned" /\ fun = "running" => cleaned \/ cut

\* While its process runs, the TaskFun runs again and again.
TaskRecurs == rpc = "loop" ~> rpc = "taskFun" \/ "rec" \notin alive

\* Stop, and the end of an owner it is linked to, do end a task, unless the owner ended
\* with Normal before the task trapped exits.
TaskObeys ==
  /\ stopSent ~> "task" \notin alive
  /\ linked /\ "owner" \notin alive ~> "task" \notin alive \/ told = "unheard"
-----------------------------------------------------------------------------
(* What makes these invariants inductive.                                  *)

\* A timer of the recurring task is not cancelled, and each inbox has what is meant for it.
PostsHold ==
  /\ \A t \in Timers : Live(t) =>
       \/ timer[t].to = "rec" /\ timer[t].term = "doTask" /\ ~timer[t].cancel
       \/ timer[t].to = "owner" /\ timer[t].term = "tick"
  /\ mail["rec"] \in Seq({"doTask", "stop"})
  /\ mail["task"] \in Seq({"exit", "stop", "funExited"})

\* The three places of the next run.
InMail(i)  == mail["rec"][i] = "doTask"
OnTimer(t) == timer[t].to = "rec"
Going      == rpc = "taskFun"
Mailed     == \E i \in DOMAIN mail["rec"] : InMail(i)
Timed      == \E t \in Timers : OnTimer(t)

\* It is in one of them, and there once.
RunsHold ==
  /\ \A i, j \in DOMAIN mail["rec"] : InMail(i) /\ InMail(j) => i = j
  /\ \A t, u \in Timers : OnTimer(t) /\ OnTimer(u) => t = u
  /\ ~(Mailed /\ Timed) /\ ~(Mailed /\ Going) /\ ~(Timed /\ Going)
  /\ rpc = "Init" => ~Mailed /\ ~Timed
  /\ rpc = "loop" /\ "rec" \in alive => Mailed \/ Timed

\* Stop has returned when the process is gone.  Only a signal ends it before its Runnable
\* does, and then one message is left to that.
StopHolds ==
  /\ stopper \in {"stopped", "killed"} => "rec" \notin alive
  /\ stopper \notin {"stopped", "killed"} => late = 0
  /\ "rec" \notin alive => late + Len(mail["rec"]) <= 1
  /\ "rec" \notin alive /\ stopper \in {"stop", "stopped"} => rpc = "returned"

\* The TaskFun runs from "go" on, and the task learns that it ended when it has.  Only an
\* exit signal ends the process before its Runnable.
TaskHolds ==
  /\ tpc \in {"Register", "ProcessFlag", "go"} => fun = "none"
  /\ (\E i \in DOMAIN mail["task"] : mail["task"][i] = "funExited") => fun = "ended"
  /\ "task" \notin alive => tpc = "returned" \/ cut

\* Types, the bookkeeping of the recurring task's runs, and what the ends of the two leave.
WorkersIInv ==
  /\ WorkersTypeOK /\ OneRunAhead /\ StopEndsRuns
  /\ PostsHold /\ RunsHold /\ StopHolds /\ TaskHolds
=============================================================================

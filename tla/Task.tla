-------------------------------- MODULE Task --------------------------------
(***************************************************************************)
(* erl/task: a process around a function that runs on a goroutine of its   *)
(* own and a cleanup that makes it return.                                 *)
(*                                                                         *)
(* Process "task" belongs to process "owner".  The TaskFun need not return *)
(* by itself; cleanup returns.                                             *)
(***************************************************************************)
EXTENDS Timer

VARIABLES
  linked,    \* it was started with StartLink
  tpc,       \* where its Runnable is
  trapping,  \* TrapExit is set
  fun,       \* the TaskFun's goroutine
  cleaned,   \* cleanup has run
  told,      \* the owner's exit signal has reached it: "no", "heard", or "unheard"
  cut,       \* history: its process was ended by an exit signal, a Kill or one that came
             \* before TrapExit
  stopSent   \* Stop has been called

taskVars == <<linked, tpc, trapping, fun, cleaned, told, cut, stopSent>>

TaskTypeOK ==
  /\ tpc \in {"Register", "ProcessFlag", "go", "loop", "cleanup", "returned"}
  /\ fun \in {"none", "running", "ended"}
  /\ {linked, trapping, cleaned, cut, stopSent} \subseteq BOOLEAN
  /\ told \in {"no", "heard", "unheard"}

TaskInit ==
  /\ linked \in BOOLEAN /\ tpc = "Register" /\ trapping = FALSE /\ fun = "none"
  /\ cleaned = FALSE /\ told = "no" /\ cut = FALSE /\ stopSent = FALSE

\* The name is free, or refused; then TrapExit is set, then the TaskFun forked.
TaskRegisters ==
  /\ tpc = "Register" /\ tpc' \in {"ProcessFlag", "returned"}
  /\ UNCHANGED <<timerVars, linked, trapping, fun, cleaned, told, cut, stopSent>>
TaskTraps ==
  /\ tpc = "ProcessFlag" /\ tpc' = "go" /\ trapping' = TRUE
  /\ UNCHANGED <<timerVars, linked, fun, cleaned, told, cut, stopSent>>
TaskForks ==
  /\ tpc = "go" /\ tpc' = "loop" /\ fun' = "running"
  /\ UNCHANGED <<timerVars, linked, trapping, cleaned, told, cut, stopSent>>

TaskFunEnds ==
  /\ fun = "running" /\ fun' = "ended" /\ mail' = Sent("task", "funExited")
  /\ UNCHANGED <<alive, timer, linked, tpc, trapping, cleaned, told, cut, stopSent>>

\* Mutants: the owner's ExitMsg ends the task as it stands; stopTask is not understood.
AfterMessageHasty == [exit |-> "returned", stop |-> "cleanup", funExited |-> "returned"]
AfterMessageDeaf == [exit |-> "cleanup", stop |-> "loop", funExited |-> "returned"]
\* The owner's ExitMsg and stopTask lead to cleanup, the TaskFun's end does not.  An ExitMsg
\* of any other process is ignored, and left out.
AfterMessage == [exit |-> "cleanup", stop |-> "cleanup", funExited |-> "returned"]

TaskReceives ==
  /\ tpc = "loop" /\ mail["task"] # <<>>
  /\ mail' = [mail EXCEPT !["task"] = Tail(@)]
  /\ tpc' = AfterMessage[Head(mail["task"])]
  /\ UNCHANGED <<alive, timer, linked, trapping, fun, cleaned, told, cut, stopSent>>

TaskCleansUp ==
  /\ tpc = "cleanup" /\ tpc' = "returned" /\ cleaned' = TRUE
  /\ UNCHANGED <<timerVars, linked, trapping, fun, told, cut, stopSent>>

TaskLoopCloses ==
  /\ tpc = "loop" /\ "task" \notin alive /\ mail["task"] = <<>> /\ tpc' = "returned"
  /\ UNCHANGED <<timerVars, linked, trapping, fun, cleaned, told, cut, stopSent>>

TaskReturned ==
  /\ tpc = "returned" /\ Exited("task")
  /\ UNCHANGED <<timer, taskVars>>

\* An exit signal ends the process.
CutOff == Exited("task") /\ cut' = TRUE

\* The owner's exit: an ExitMsg, or, before TrapExit, the end of the process, or, when the
\* owner ended with Normal, nothing at all.
TaskParentSignal ==
  /\ linked /\ "owner" \notin alive /\ "task" \in alive /\ told = "no"
  /\ \/ told' = "heard" /\ trapping /\ mail' = Sent("task", "exit") /\ UNCHANGED <<alive, cut>>
     \/ told' = "heard" /\ ~trapping /\ CutOff
     \/ told' = "unheard" /\ ~trapping /\ UNCHANGED <<alive, mail, cut>>
  /\ UNCHANGED <<timer, linked, tpc, trapping, fun, cleaned, stopSent>>

\* The exit signals of others, a supervisor's childKiller for one: a Kill, or, before
\* TrapExit, one with any other reason.
TaskSignalled ==
  /\ CutOff
  /\ UNCHANGED <<timer, linked, tpc, trapping, fun, cleaned, told, stopSent>>

\* Stop only sends stopTask.
TaskStop ==
  /\ ~stopSent /\ stopSent' = TRUE /\ mail' = Sent("task", "stop")
  /\ UNCHANGED <<alive, timer, linked, tpc, trapping, fun, cleaned, told, cut>>

TaskRuns ==
  \/ TaskRegisters \/ TaskTraps \/ TaskForks \/ TaskReceives \/ TaskCleansUp
  \/ TaskLoopCloses \/ TaskReturned
TaskStep == TaskRuns \/ TaskParentSignal
TaskEvent == TaskFunEnds \/ TaskStop \/ TaskSignalled
=============================================================================

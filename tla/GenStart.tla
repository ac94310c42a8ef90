------------------------------- MODULE GenStart -------------------------------
(***************************************************************************)
(* erl/genserver: Start, StartLink and StartMonitor of one server.         *)
(*                                                                         *)
(* doStart spawns the server and waits for its initAck, which the server   *)
(* sends on an unbuffered channel once Init has returned.  A caller that   *)
(* traps exits lets a genStarter spawn and monitor the server instead: it  *)
(* wants no exit signal of a server that fails to start, yet wants to know *)
(* that such a server is gone, which the genStarter tells it by closing    *)
(* sig.  Caller and genStarter have a timer each.  The caller's process    *)
(* may crash at any moment; its goroutine runs on in doStart, and exit     *)
(* waits for it.                                                           *)
(*                                                                         *)
(* Of a process' exit this module keeps what Registry and Process show:    *)
(* the name is given back, then the signals go out, then the Runnable is   *)
(* awaited.  No signal is lost here.  Another process may take the name    *)
(* whenever it is free.  The server does not trap exits.                   *)
(***************************************************************************)
CONSTANTS
  Modes,        \* the ways to call Start: [trap, tie, named], see ModesOfStart
  InitResults   \* what the Init callback may do: "ok", "ignore", "error"

ModesOfStart == [trap : BOOLEAN, tie : {"nolink", "link", "monitor"}, named : BOOLEAN]

ASSUME GenStartAssumption ==
  /\ Modes \subseteq ModesOfStart
  /\ InitResults \subseteq {"ok", "ignore", "error"}

VARIABLES
  mode,     \* how this Start is called
  parentUp, \* the caller's process has not exited
  caller,   \* where the caller's goroutine is in doStart
  result,   \* what Start returned
  starter,  \* where the genStarter is
  sig,      \* exitSignalsReceived has been closed
  srv,      \* where the server's Runnable is
  init,     \* what Register and Init came to
  proc,     \* the server's process: "none", "up", "exiting" (Runnable not done), "over"
  ended,    \* why it exits: "normal", or "abnormal"
  name,     \* whom the name stands for
  tied,     \* the server is linked to, or monitored by, the caller
  heard     \* the caller's process got an ExitMsg or DownMsg of the server

vars == <<mode, parentUp, caller, result, starter, sig, srv, init, proc, ended, name,
          tied, heard>>

callerVars == <<caller, result>>
starterVars == <<starter, sig>>
runnable == <<srv, init>>
process == <<proc, ended, name, tied, heard>>

Waiting == {"wait", "sig", "pid"}

TypeOK ==
  /\ mode \in Modes
  /\ parentUp \in BOOLEAN /\ sig \in BOOLEAN /\ tied \in BOOLEAN /\ heard \in BOOLEAN
  /\ caller \in {"begin", "tie", "shutdown", "returned"} \cup Waiting
  /\ result \in {"none", "ok", "ignore", "error", "timeout"}
  /\ starter \in {"none", "spawn", "hand", "loop", "stop", "quit", "down", "late"}
  /\ srv \in {"none", "register", "init", "unregister", "ack", "loop", "returned"}
  /\ init \in {"none", "ok", "ignore", "error"}
  /\ proc \in {"none", "up", "exiting", "over"}
  /\ ended \in {"none", "normal", "abnormal"}
  /\ name \in {"free", "server", "other"}

Init ==
  /\ mode \in Modes
  /\ parentUp = TRUE /\ caller = "begin" /\ result = "none"
  /\ starter = "none" /\ sig = FALSE
  /\ srv = "none" /\ init = "none" /\ proc = "none" /\ ended = "none"
  /\ name \in {"free", "other"}
  /\ tied = FALSE /\ heard = FALSE
-----------------------------------------------------------------------------
(* The server's process ends.                                               *)

\* exit, up to its signals: the name is free, a tied caller hears of the end if its
\* process is there to hear; one that is linked and does not trap exits dies of it.
ServerEnds(why) ==
  /\ proc = "up"
  /\ proc' = IF srv \in {"none", "returned"} THEN "over" ELSE "exiting"
  /\ ended' = why
  /\ name' = IF name = "server" THEN "free" ELSE name
  /\ heard' = (heard \/ (tied /\ parentUp /\ (mode.trap \/ mode.tie = "monitor")))
  /\ parentUp' = (parentUp /\ ~(tied /\ mode.tie = "link" /\ ~mode.trap /\ why = "abnormal"))
  /\ UNCHANGED tied

\* A signal to end, which a process that has exited ignores.
Kill ==
  \/ ServerEnds("abnormal")
  \/ proc # "up" /\ UNCHANGED <<process, parentUp>>

\* What Receive may return, with this outcome of Init.
Ends == [ok |-> {"normal", "abnormal"}, ignore |-> {"normal"}, error |-> {"abnormal"}]

\* The Runnable has returned: exit starts, or need wait no longer.
RunnableReturned ==
  /\ srv = "returned"
  /\ \/ \E why \in Ends[init] : ServerEnds(why)
     \/ /\ proc = "exiting" /\ proc' = "over"
        /\ UNCHANGED <<ended, name, tied, heard, parentUp>>
  /\ UNCHANGED <<mode, callerVars, starterVars, runnable>>
-----------------------------------------------------------------------------
(* doStart, as the caller runs it.                                          *)

\* Spawn, SpawnLink or SpawnMonitor the server.
SpawnServer ==
  /\ proc' = "up" /\ srv' = IF mode.named THEN "register" ELSE "init"
  /\ UNCHANGED <<init, ended, name, heard>>

Begin ==
  /\ caller = "begin"
  /\ IF mode.trap
     THEN /\ caller' = "pid" /\ starter' = "spawn"
          /\ UNCHANGED <<runnable, process>>
     ELSE /\ caller' = "wait" /\ SpawnServer
          /\ tied' = (mode.tie # "nolink")
          /\ UNCHANGED starter
  /\ UNCHANGED <<mode, parentUp, result, sig>>

Return(r) == caller' = "returned" /\ result' = r

\* The server offers its initAck and the caller takes it.
Ack ==
  /\ caller = "wait" /\ srv = "ack"
  /\ IF init = "ok" /\ mode.trap
     THEN caller' = "tie" /\ UNCHANGED result
     ELSE IF mode.trap THEN caller' = "sig" /\ UNCHANGED result
     ELSE Return(init)
  /\ srv' = IF init = "ok" THEN "loop" ELSE "returned"
  /\ UNCHANGED <<mode, parentUp, starterVars, init, process>>

\* Init failed or ignored: wait for the genStarter.
SigClosed ==
  /\ caller = "sig" /\ sig /\ Return(init)
  /\ UNCHANGED <<mode, parentUp, starterVars, runnable, process>>

\* Link or Monitor, only now.  A server that has ended by now answers at once.
TieAfterwards ==
  /\ caller = "tie" /\ caller' = "shutdown"
  /\ IF mode.tie = "nolink" THEN UNCHANGED <<process, parentUp>>
     ELSE /\ tied' = (proc = "up") /\ heard' = (heard \/ (proc # "up" /\ parentUp))
          /\ UNCHANGED <<proc, ended, name, parentUp>>
  /\ UNCHANGED <<mode, result, starterVars, runnable>>

\* genStarterShutdown is sent, and Start returns.
Succeed ==
  /\ caller = "shutdown" /\ Return("ok")
  /\ UNCHANGED <<mode, parentUp, starterVars, runnable, process>>

\* Mutant: the server goes on.
TimesOutMildly ==
  /\ caller = "wait" /\ Return("timeout")
  /\ UNCHANGED <<mode, parentUp, starterVars, runnable, process>>

\* The start timeout: the server is killed, wherever it is.
TimesOut ==
  /\ caller = "wait" /\ Return("timeout") /\ Kill
  /\ UNCHANGED <<mode, starterVars, runnable>>
-----------------------------------------------------------------------------
(* genStarter.Receive.                                                      *)

StarterSpawns ==
  /\ starter = "spawn" /\ starter' = "hand"
  /\ SpawnServer /\ UNCHANGED tied
  /\ UNCHANGED <<mode, parentUp, callerVars, sig>>

StarterHands ==
  /\ starter = "hand" /\ starter' = "loop"
  /\ caller = "pid" /\ caller' = "wait"
  /\ UNCHANGED <<mode, parentUp, result, sig, runnable, process>>

StarterShutdown ==
  /\ starter = "loop" /\ result = "ok" /\ starter' = "quit"
  /\ UNCHANGED <<mode, parentUp, callerVars, sig, runnable, process>>

\* The DownMsg of the server: its name is free and its signals are sent.
StarterSeesDown ==
  /\ starter = "loop" /\ proc \in {"exiting", "over"}
  /\ starter' = "down" /\ sig' = TRUE
  /\ UNCHANGED <<mode, parentUp, callerVars, runnable, process>>

\* The DownMsg of the parent: the server is killed, by a Stop that waits for its end.
StarterSeesParentDown ==
  /\ starter = "loop" /\ ~parentUp /\ starter' = "stop" /\ Kill
  /\ UNCHANGED <<mode, callerVars, sig, runnable>>

StarterStopped ==
  /\ starter = "stop" /\ proc # "up" /\ starter' = "quit"
  /\ UNCHANGED <<mode, parentUp, callerVars, sig, runnable, process>>

\* Mutant: sig stays open.
StarterGivesUp ==
  /\ starter = "loop" /\ starter' = "late"
  /\ UNCHANGED <<mode, parentUp, callerVars, sig, runnable, process>>

\* Its timer: sig is closed "so that we don't block the caller".
StarterTimesOut ==
  /\ starter = "loop" /\ starter' = "late" /\ sig' = TRUE
  /\ UNCHANGED <<mode, parentUp, callerVars, runnable, process>>
-----------------------------------------------------------------------------
(* The server's Runnable, up to its loop.                                   *)

\* Register refuses a name that is taken, and a process that is exiting.
RegisterName ==
  /\ srv = "register"
  /\ IF name = "free" /\ proc = "up"
     THEN srv' = "init" /\ name' = "server" /\ UNCHANGED init
     ELSE srv' = "ack" /\ init' = "error" /\ UNCHANGED name
  /\ UNCHANGED <<mode, parentUp, callerVars, starterVars, proc, ended, tied, heard>>

\* Init returns, or panics, which handleInit makes an error.
InitReturns ==
  /\ srv = "init"
  /\ init' \in InitResults
  /\ srv' = IF init' # "ok" /\ mode.named THEN "unregister" ELSE "ack"
  /\ UNCHANGED <<mode, parentUp, callerVars, starterVars, process>>

\* Mutant: the name is left for exit to free.
UnregisterLater ==
  /\ srv = "unregister" /\ srv' = "ack"
  /\ UNCHANGED <<mode, parentUp, callerVars, starterVars, init, process>>

\* unregisterName, before the initAck: it looks at nothing but nameRegistered.
UnregisterName ==
  /\ srv = "unregister" /\ srv' = "ack" /\ name' = "free"
  /\ UNCHANGED <<mode, parentUp, callerVars, starterVars, init, proc, ended, tied, heard>>

\* The loop is over, for one of the reasons in GenServer, or since the server was killed
\* and finds its inbox closed.
LoopEnds ==
  /\ srv = "loop" /\ srv' = "returned"
  /\ UNCHANGED <<mode, parentUp, callerVars, starterVars, init, process>>
\* Mutant: the loop goes round on a closed inbox.
LoopGoesRound == proc = "up" /\ LoopEnds
LoopCloses == proc = "exiting" /\ LoopEnds
-----------------------------------------------------------------------------
(* The surroundings.                                                        *)

ParentCrashes ==
  /\ parentUp /\ parentUp' = FALSE
  /\ UNCHANGED <<mode, callerVars, starterVars, runnable, process>>

\* A server that is linked to it, or links to a process that is gone, is told to exit.
ParentSignal ==
  /\ ~parentUp /\ tied /\ mode.tie = "link" /\ ServerEnds("abnormal")
  /\ UNCHANGED <<mode, callerVars, starterVars, runnable>>

\* Somebody else registers the name, or gives it back.
OthersUseName ==
  /\ mode.named /\ name # "server"
  /\ name' = IF name = "free" THEN "other" ELSE "free"
  /\ UNCHANGED <<mode, parentUp, callerVars, starterVars, runnable, proc, ended, tied, heard>>

CallerStep == Begin \/ Ack \/ SigClosed \/ TieAfterwards \/ Succeed \/ TimesOut
StarterStep ==
  \/ StarterSpawns \/ StarterHands \/ StarterShutdown \/ StarterSeesDown
  \/ StarterSeesParentDown \/ StarterStopped \/ StarterTimesOut
ServerStep ==
  \/ RegisterName \/ UnregisterName \/ LoopCloses \/ RunnableReturned \/ ParentSignal

Next ==
  \/ CallerStep \/ StarterStep \/ ServerStep
  \/ InitReturns \/ LoopEnds \/ ParentCrashes \/ OthersUseName

Spec == Init /\ [][Next]_vars

\* The goroutines of the program are scheduled; Init need never return.
FairSpec == Spec /\ WF_vars(CallerStep) /\ WF_vars(StarterStep) /\ WF_vars(ServerStep)
-----------------------------------------------------------------------------
(* What is checked.                                                         *)

\* When Start returns an error of Init or Register, or Ignore, "certain resources like
\* process names are released, so a supervisor for instance could proceed to retry"
\* (api.go:457-459), and a caller that traps exits has had no signal of the failure: its
\* server has sent them all, unless the genStarter gave up waiting.
FailedStartIsOver ==
  caller = "returned" /\ result \in {"ignore", "error"} =>
    /\ name # "server"
    /\ mode.trap => ~heard /\ (proc \in {"exiting", "over"} \/ starter = "late")

\* Types, and what the parts know of each other: a caller that waits for sig has an
\* outcome of Init, a genStarter that left because of the server closed sig; and a start
\* that has failed is over.
IInv ==
  /\ TypeOK
  /\ caller = "sig" => init \in {"ignore", "error"} /\ srv = "returned"
  /\ caller \in {"tie", "shutdown"} => init = "ok"
  /\ result \in {"ok", "ignore", "error"} => result = init
  /\ sig <=> starter \in {"down", "late"}
  /\ starter = "down" => proc \in {"exiting", "over"}
  /\ proc = "over" => srv = "returned"
  /\ mode.trap /\ tied => init = "ok"
  /\ FailedStartIsOver

\* Start returns, "in the interest of not blocking a process for any reason"
\* (api.go:461), even if Init never does.  A caller whose own process has crashed may
\* block: the genStarter leaves at its DownMsg without closing sig.
StartReturns == caller = "begin" ~> caller = "returned" \/ ~parentUp

\* A server whose caller crashes during a start that is to link them, or that a
\* genStarter watches over, does not stay behind.
NoOrphan ==
  ~parentUp /\ (mode.trap \/ mode.tie = "link") ~>
    \/ caller = "begin" \/ proc \in {"exiting", "over"}
    \/ result = "ok" /\ mode.tie # "link"

\* The exit of a server is complete in the end, unless its Init never returns, or
\* returns after the start timeout: nobody takes the initAck then.
ExitCompletes ==
  proc = "exiting" ~> proc = "over" \/ srv = "init" \/ (srv = "ack" /\ result = "timeout")
=============================================================================

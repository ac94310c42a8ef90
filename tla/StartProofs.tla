----------------------------- MODULE StartProofs -----------------------------
(***************************************************************************)
(* What becomes of what was started.  First genserver.Start: a start that  *)
(* failed is over when Start returns, for every way to call it and         *)
(* whatever Init may do.  Then the workers of one owner: one run of a      *)
(* recurring task is ahead, never two, and no task leaves its function     *)
(* running alone, for any number of timers.                                *)
(***************************************************************************)
EXTENDS GenStart, Workers, FiniteSetTheorems, TLAPS

(* genserver.Start.                                                         *)


\* Who is where.  The genStarter exists for a caller that traps exits, the server once it
\* is spawned; an initAck is offered with an outcome, and taken once.
Order ==
  /\ caller = "begin" => starter = "none" /\ srv = "none"
  /\ caller = "pid" => mode.trap
  /\ ~mode.trap => starter = "none" /\ caller \notin {"sig", "tie", "shutdown"}
  /\ starter \in {"none", "spawn"} /\ mode.trap => srv = "none"
  /\ srv = "none" <=> proc = "none"
  /\ srv \in {"none", "register", "init"} => init = "none"
  /\ srv \in {"ack", "returned"} => init # "none"
  /\ srv = "register" => mode.named
  /\ srv = "unregister" => init \in {"ignore", "error"} /\ mode.named
  /\ srv = "loop" => init = "ok"
  /\ caller \in {"begin", "pid", "wait", "sig", "tie", "shutdown"} => result = "none"
  /\ caller \in {"sig", "tie", "shutdown"} \/ result \in {"ok", "ignore", "error"} =>
       srv \in {"loop", "returned"}

\* What a server that has not started well has lost: its name before the initAck, and with
\* its end every later use of it.
Names ==
  /\ name = "server" => mode.named /\ srv \notin {"none", "register"}
  /\ srv \in {"ack", "returned"} /\ init \in {"ignore", "error"} => name # "server"

\* What the caller heard: nothing of a server that it is not tied to.
Hearing ==
  /\ mode.trap /\ (tied \/ heard) => caller \in {"shutdown", "returned"} /\ init = "ok"
  /\ mode.trap /\ caller = "returned" /\ result \in {"ignore", "error"} =>
       starter \in {"down", "late"}

Strong == IInv /\ Order /\ Names /\ Hearing

\* The initial states satisfy the strengthening.
LEMMA StrongInit == Init => Strong
<1> SUFFICES ASSUME Init PROVE Strong
  OBVIOUS
<1>1. TypeOK
  <2>1. /\ parentUp \in BOOLEAN /\ sig \in BOOLEAN
        /\ tied \in BOOLEAN /\ heard \in BOOLEAN
    BY Zenon DEF Init
  <2> QED
    BY <2>1 DEF Init, TypeOK, Waiting
<1>2. Order /\ Names /\ Hearing
  BY DEF Init, Order, Names, Hearing
<1>3. IInv
  BY <1>1 DEF Init, IInv, FailedStartIsOver
<1> QED
  BY <1>2, <1>3 DEF Strong

\* The steps of doStart keep it.
LEMMA CallerKeeps ==
  ASSUME Strong, CallerStep
  PROVE  Strong'
<1> USE GenStartAssumption DEF Strong, IInv, TypeOK, Waiting, FailedStartIsOver, Order, Names, Hearing
<1>1. CASE Begin
  BY <1>1 DEF Begin, SpawnServer, starterVars, runnable, process
<1>2. CASE Ack
  BY <1>2 DEF Ack, Return, starterVars, process, runnable
<1>3. CASE SigClosed
  BY <1>3 DEF SigClosed, Return, starterVars, runnable, process
<1>4. CASE TieAfterwards
  <2>1. CASE mode.tie = "nolink"
    BY <1>4, <2>1 DEF TieAfterwards, starterVars, runnable, process
  <2>2. CASE mode.tie # "nolink"
    <3>1. tied' \in BOOLEAN /\ heard' \in BOOLEAN
      BY <1>4, <2>2 DEF TieAfterwards
    <3> QED
      BY <1>4, <2>2, <3>1 DEF TieAfterwards, starterVars, runnable
  <2> QED
    BY <2>1, <2>2
<1>5. CASE Succeed
  BY <1>5 DEF Succeed, Return, starterVars, runnable, process
<1>6. CASE TimesOut
  BY <1>6 DEF TimesOut, Return, Kill, ServerEnds, process, starterVars, runnable
<1> QED
  BY <1>1, <1>2, <1>3, <1>4, <1>5, <1>6 DEF CallerStep

\* So do the steps of the genStarter.
LEMMA StarterKeeps ==
  ASSUME Strong, StarterStep
  PROVE  Strong'
<1> USE GenStartAssumption DEF Strong, IInv, TypeOK, Waiting, FailedStartIsOver, Order, Names, Hearing
<1>1. CASE StarterSpawns
  BY <1>1 DEF StarterSpawns, SpawnServer, callerVars
<1>2. CASE StarterHands
  BY <1>2 DEF StarterHands, runnable, process
<1>3. CASE StarterShutdown
  BY <1>3 DEF StarterShutdown, callerVars, runnable, process
<1>4. CASE StarterSeesDown
  BY <1>4 DEF StarterSeesDown, callerVars, runnable, process
<1>5. CASE StarterSeesParentDown
  BY <1>5 DEF StarterSeesParentDown, Kill, ServerEnds, process, callerVars, runnable
<1>6. CASE StarterStopped
  BY <1>6 DEF StarterStopped, callerVars, runnable, process
<1>7. CASE StarterTimesOut
  BY <1>7 DEF StarterTimesOut, callerVars, runnable, process
<1> QED
  BY <1>1, <1>2, <1>3, <1>4, <1>5, <1>6, <1>7 DEF StarterStep

\* So do the steps of the server that need not wait for a callback.
LEMMA ServerKeeps ==
  ASSUME Strong, ServerStep
  PROVE  Strong'
<1> USE GenStartAssumption DEF Strong, IInv, TypeOK, Waiting, FailedStartIsOver, Order, Names, Hearing
<1>1. CASE RegisterName
  <2>1. CASE name = "free" /\ proc = "up"
    BY <1>1, <2>1 DEF RegisterName, callerVars, starterVars
  <2>2. CASE ~(name = "free" /\ proc = "up")
    BY <1>1, <2>2 DEF RegisterName, callerVars, starterVars
  <2> QED
    BY <2>1, <2>2
<1>2. CASE UnregisterName
  BY <1>2 DEF UnregisterName, callerVars, starterVars
<1>3. CASE LoopCloses
  BY <1>3 DEF LoopCloses, LoopEnds, callerVars, starterVars, process
<1>4. CASE RunnableReturned
  BY <1>4 DEF RunnableReturned, Ends, ServerEnds, callerVars, starterVars, runnable
<1>5. CASE ParentSignal
  BY <1>5 DEF ParentSignal, ServerEnds, callerVars, starterVars, runnable
<1> QED
  BY <1>1, <1>2, <1>3, <1>4, <1>5 DEF ServerStep

\* And so do Init, the end of the loop, a crash of the parent and the others' Register.
LEMMA OthersKeep ==
  ASSUME Strong, InitReturns \/ LoopEnds \/ ParentCrashes \/ OthersUseName
  PROVE  Strong'
<1> USE GenStartAssumption DEF Strong, IInv, TypeOK, Waiting, FailedStartIsOver, Order, Names, Hearing
<1>1. CASE InitReturns
  BY <1>1 DEF InitReturns, callerVars, starterVars, process
<1>2. CASE LoopEnds
  BY <1>2 DEF LoopEnds, callerVars, starterVars, process
<1>3. CASE ParentCrashes
  <2>1. UNCHANGED <<mode, caller, result, starter, sig, srv, init, proc, ended, name, tied, heard>>
    BY <1>3 DEF ParentCrashes, callerVars, starterVars, runnable, process
  <2>2. parentUp' \in BOOLEAN
    BY <1>3, Zenon DEF ParentCrashes
  <2> QED
    BY <2>1, <2>2
<1>4. CASE OthersUseName
  BY <1>4 DEF OthersUseName, callerVars, starterVars, runnable
<1> QED
  BY <1>1, <1>2, <1>3, <1>4

\* When Start returns an error of Init or Register, or Ignore, the server's name is free
\* for a retry and a caller that traps exits has had no signal of the failure; for every
\* way to call Start and every set of outcomes of Init.
THEOREM FailedStartsAreOver == Spec => []IInv
<1>1. Strong /\ [Next]_vars => Strong'
  <2> SUFFICES ASSUME Strong, [Next]_vars PROVE Strong'
    OBVIOUS
  <2>1. CASE CallerStep
    BY <2>1, CallerKeeps
  <2>2. CASE StarterStep
    BY <2>2, StarterKeeps
  <2>3. CASE ServerStep
    BY <2>3, ServerKeeps
  <2>4. CASE InitReturns \/ LoopEnds \/ ParentCrashes \/ OthersUseName
    BY <2>4, OthersKeep
  <2>5. CASE UNCHANGED vars
    BY <2>5 DEF vars, Strong, IInv, TypeOK, Waiting, FailedStartIsOver, Order, Names, Hearing
  <2> QED
    BY <2>1, <2>2, <2>3, <2>4, <2>5 DEF Next
<1>2. Strong => IInv
  BY DEF Strong
<1> QED
  BY <1>1, <1>2, StrongInit, PTL DEF Spec
-----------------------------------------------------------------------------
(* The recurring task and the task.                                         *)

\* What may be in an inbox, and what a timer that has started is.
Words == {"doTask", "stop", "exit", "funExited", "tick"}
Started == [st : {"start", "select"}, to : Procs, term : {"doTask", "tick"}, cancel : BOOLEAN]

\* The types, in the form in which the proofs need them.
LEMMA Types ==
  ASSUME WorkersTypeOK
  PROVE  /\ "owner" \in Procs /\ "rec" \in Procs /\ "task" \in Procs /\ alive \subseteq Procs
         /\ mail \in [Procs -> Seq(Words)]
         /\ timer \in [Timers -> {Idle} \cup Started]
         /\ \A t \in Timers : Live(t) => timer[t] \in Started
         /\ \A t \in Timers : ~Live(t) => timer[t] = Idle /\ ~OnTimer(t)
         /\ \A t \in Timers : OnTimer(t) => Live(t)
         /\ late \in {0, 1}
<1>1. /\ "owner" \in Procs /\ "rec" \in Procs /\ "task" \in Procs
      /\ alive \subseteq Procs /\ mail \in [Procs -> Seq(Words)]
  BY WorkersAssumption DEF WorkersTypeOK, TimerTypeOK, Words
<1>2. late \in {0, 1}
  BY DEF WorkersTypeOK, RecTypeOK
<1>3. timer \in [Timers -> {Idle} \cup Started]
  BY DEF WorkersTypeOK, TimerTypeOK, Started
<1>4. Idle.st = "ended" /\ Idle.to # "rec"
  BY DEF Idle
<1>5. \A r \in Started : r.st # "ended"
  BY DEF Started
<1>6. \A t \in Timers : timer[t] = Idle \/ timer[t] \in Started
  BY <1>3
<1> QED
  BY <1>1, <1>2, <1>3, <1>4, <1>5, <1>6 DEF Live, OnTimer

\* A timer that is not idle, and what may change of it.
LEMMA TimerIs ==
  ASSUME NEW r \in Started
  PROVE  /\ r # Idle
         /\ LET s == [r EXCEPT !.st = "select"]
            IN s \in Started /\ s.to = r.to /\ s.term = r.term /\ s.cancel = r.cancel
         /\ LET s == [r EXCEPT !.cancel = TRUE]
            IN s \in Started /\ s.to = r.to /\ s.term = r.term
<1>1. r.st # "ended"
  BY DEF Started
<1>2. Idle.st = "ended"
  BY DEF Idle
<1> QED
  BY <1>1, <1>2 DEF Started

\* Send.
LEMMA SentIs ==
  ASSUME WorkersTypeOK, NEW p \in Procs, NEW term \in Words, mail' = Sent(p, term)
  PROVE  /\ mail' \in [Procs -> Seq(Words)]
         /\ \A q \in Procs \ {p} : mail'[q] = mail[q]
         /\ p \in alive => mail'[p] = Append(mail[p], term)
         /\ p \notin alive => mail' = mail
<1>1. mail \in [Procs -> Seq(Words)]
  BY Types
<1>2. mail[p] \in Seq(Words)
  BY <1>1
<1>3. Append(mail[p], term) \in Seq(Words)
  BY <1>2
<1> QED
  BY <1>1, <1>3 DEF Sent

\* An exit: one message may be left.
LEMMA ExitedIs ==
  ASSUME WorkersTypeOK, NEW p \in Procs, Exited(p)
  PROVE  /\ p \in alive /\ alive' = alive \ {p}
         /\ mail' \in [Procs -> Seq(Words)]
         /\ \A q \in Procs \ {p} : mail'[q] = mail[q]
         /\ Len(mail'[p]) <= 1
         /\ \A i \in DOMAIN mail'[p] : i \in DOMAIN mail[p] /\ mail'[p][i] = mail[p][i]
<1>1. mail \in [Procs -> Seq(Words)] /\ mail[p] \in Seq(Words)
  BY Types
<1>2. PICK kept \in {0, 1} :
        mail' = [mail EXCEPT ![p] = IF kept <= Len(@) THEN SubSeq(@, 1, kept) ELSE @]
  BY DEF Exited
<1>3. mail'[p] = IF kept <= Len(mail[p]) THEN SubSeq(mail[p], 1, kept) ELSE mail[p]
  BY <1>1, <1>2
<1>4. CASE kept = 0
  <2>1. mail'[p] = <<>>
    BY <1>1, <1>3, <1>4
  <2> QED
    BY <1>1, <1>2, <2>1 DEF Exited
<1>5. CASE kept = 1 /\ Len(mail[p]) >= 1
  <2>1. mail'[p] = SubSeq(mail[p], 1, 1)
    BY <1>3, <1>5
  <2>2. /\ SubSeq(mail[p], 1, 1) \in Seq(Words) /\ Len(SubSeq(mail[p], 1, 1)) = 1
        /\ SubSeq(mail[p], 1, 1)[1] = mail[p][1]
    BY <1>1, <1>5
  <2>3. DOMAIN mail'[p] = {1} /\ DOMAIN mail[p] = 1..Len(mail[p])
    BY <1>1, <2>1, <2>2
  <2>4. mail' \in [Procs -> Seq(Words)]
    BY <1>1, <1>2, <1>5, <2>2
  <2>5. \A q \in Procs \ {p} : mail'[q] = mail[q]
    BY <1>1, <1>2
  <2> QED
    BY <1>5, <2>1, <2>2, <2>3, <2>4, <2>5 DEF Exited
<1>6. CASE kept = 1 /\ Len(mail[p]) = 0
  BY <1>1, <1>2, <1>3, <1>6 DEF Exited
<1> QED
  BY <1>1, <1>4, <1>5, <1>6

\* What is only a part of a sequence over S is one.
LEMMA PartOf ==
  ASSUME NEW S, NEW T, NEW s \in Seq(S), NEW r \in Seq(T),
         \A i \in DOMAIN r : i \in DOMAIN s /\ r[i] = s[i]
  PROVE  r \in Seq(S)
<1>1. r \in [1..Len(r) -> S] /\ Len(r) \in Nat
  OBVIOUS
<1> QED
  BY <1>1

\* A set without two elements.
LEMMA AtMostOne ==
  ASSUME NEW S, \A x, y \in S : x = y
  PROVE  Cardinality(S) = IF S = {} THEN 0 ELSE 1
<1>1. CASE S = {}
  BY <1>1, FS_EmptySet
<1>2. CASE S # {}
  <2>1. PICK x : S = {x}
    BY <1>2
  <2> QED
    BY <1>2, <2>1, FS_Singleton
<1> QED
  BY <1>1, <1>2

\* The run that is ahead, counted.
LEMMA RunsCount == RunsHold => OneRunAhead
<1> SUFFICES ASSUME RunsHold PROVE OneRunAhead
  OBVIOUS
<1> DEFINE M == {i \in DOMAIN mail["rec"] : mail["rec"][i] = "doTask"}
           T == {t \in Timers : timer[t].to = "rec"}
           G == {x \in {"taskFun"} : rpc = x}
<1>1. /\ Cardinality(M) = IF M = {} THEN 0 ELSE 1
      /\ Cardinality(T) = IF T = {} THEN 0 ELSE 1
      /\ Cardinality(G) = IF G = {} THEN 0 ELSE 1
  <2>1. /\ \A x, y \in M : x = y
        /\ \A x, y \in T : x = y
        /\ \A x, y \in G : x = y
    BY DEF RunsHold, InMail, OnTimer
  <2> QED
    BY <2>1, AtMostOne
<1>2. (M # {} <=> Mailed) /\ (T # {} <=> Timed) /\ (G # {} <=> Going)
  BY DEF Mailed, Timed, Going, InMail, OnTimer
<1>3. Runs = Cardinality(M) + Cardinality(T) + Cardinality(G)
  BY DEF Runs
<1> HIDE DEF M, T, G
<1> QED
  BY <1>1, <1>2, <1>3 DEF OneRunAhead, RunsHold, Going

\* A step that moves neither the run nor a timer, and at most takes a doTask away from a
\* process that is gone.
LEMMA RunsFrame ==
  ASSUME RunsHold, UNCHANGED rpc,
         \A i \in DOMAIN mail'["rec"] : InMail(i)' => i \in DOMAIN mail["rec"] /\ InMail(i),
         "rec" \in alive' => "rec" \in alive /\ (Mailed => Mailed'),
         \A t \in Timers : OnTimer(t)' <=> OnTimer(t)
  PROVE  RunsHold'
<1>1. (Mailed' => Mailed) /\ (Timed' <=> Timed) /\ (Going' <=> Going)
  BY DEF Mailed, Timed, Going
<1> QED
  BY <1>1 DEF RunsHold

\* Stop does not hear of the others.
LEMMA StopFrame ==
  ASSUME StopHolds, StopEndsRuns, UNCHANGED recVars, Len(mail'["rec"]) = Len(mail["rec"]),
         "rec" \in alive' <=> "rec" \in alive, "owner" \in alive' => "owner" \in alive
  PROVE  StopHolds' /\ StopEndsRuns'
BY DEF StopHolds, StopEndsRuns, recVars

\* Nor does the task.
LEMMA TaskFrame ==
  ASSUME TaskHolds, FunNotAbandoned, UNCHANGED taskVars, mail'["task"] = mail["task"],
         "task" \in alive' <=> "task" \in alive
  PROVE  TaskHolds' /\ FunNotAbandoned'
BY DEF TaskHolds, FunNotAbandoned, taskVars

\* What is inductive, with what the ends of the task leave of its TaskFun.
WorkersInd == WorkersIInv /\ FunNotAbandoned

\* At first nobody has sent anything.
LEMMA InitHolds == WorkersInit => WorkersInd
<1> SUFFICES ASSUME WorkersInit PROVE WorkersInd
  OBVIOUS
<1> USE DEF WorkersInit, TimerInit, RecInit, TaskInit
<1>1. mail["rec"] = <<>> /\ mail["task"] = <<>> /\ \A t \in Timers : timer[t] = Idle
  BY WorkersAssumption
<1>2. WorkersTypeOK
  <2>1. linked \in BOOLEAN /\ {trapping, cleaned, cut, stopSent} \subseteq BOOLEAN
    BY Zenon
  <2> QED
    BY <2>1 DEF WorkersTypeOK, TimerTypeOK, RecTypeOK, TaskTypeOK
<1>3. PostsHold
  <2>1. \A t \in Timers : ~Live(t)
    BY <1>1 DEF Live, Idle
  <2>2. <<>> \in Seq({"doTask", "stop"}) /\ <<>> \in Seq({"exit", "stop", "funExited"})
    OBVIOUS
  <2> QED
    BY <1>1, <2>1, <2>2, Zenon DEF PostsHold
<1>4. RunsHold
  BY <1>1 DEF RunsHold, InMail, OnTimer, Mailed, Timed, Going, Idle
<1>5. OneRunAhead
  BY <1>4, RunsCount
<1>6. StopEndsRuns /\ StopHolds
  BY WorkersAssumption DEF StopEndsRuns, StopHolds
<1>7. FunNotAbandoned /\ TaskHolds
  BY <1>1, WorkersAssumption DEF FunNotAbandoned, TaskHolds
<1> QED
  BY <1>2, <1>3, <1>4, <1>5, <1>6, <1>7 DEF WorkersInd, WorkersIInv

\* A timer moves on.
LEMMA TimerHolds ==
  ASSUME WorkersInd, NEW t \in Timers, TimerStep(t), UNCHANGED <<recVars, taskVars, ticking>>
  PROVE  WorkersInd'
<1> USE DEF WorkersInd, WorkersIInv
<1>1. /\ timer[t].st = "select" \/ timer[t].st = "start"
      /\ Live(t) /\ alive' = alive
      /\ \/ timer' = [timer EXCEPT ![t].st = "select"] /\ mail' = mail
         \/ /\ timer' = [timer EXCEPT ![t] = Idle]
            /\ \/ mail' = mail /\ (timer[t].cancel \/ timer[t].to \notin alive)
               \/ mail' = Sent(timer[t].to, timer[t].term)
  BY DEF TimerStep, TimerMonitors, TimerLeaves, TimerFires, Live
<1>2. /\ timer[t] \in Started
      /\ \/ timer[t].to = "rec" /\ timer[t].term = "doTask" /\ ~timer[t].cancel
         \/ timer[t].to = "owner" /\ timer[t].term = "tick"
  BY <1>1, Types DEF PostsHold
<1>3. /\ timer' \in [Timers -> {Idle} \cup Started]
      /\ \A u \in Timers \ {t} : timer'[u] = timer[u]
      /\ \/ /\ timer'[t] = Idle
            /\ \/ mail' = mail /\ (timer[t].cancel \/ timer[t].to \notin alive)
               \/ mail' = Sent(timer[t].to, timer[t].term)
         \/ /\ timer'[t] \in Started /\ mail' = mail
            /\ timer'[t].to = timer[t].to /\ timer'[t].term = timer[t].term
            /\ timer'[t].cancel = timer[t].cancel
  <2>1. CASE timer' = [timer EXCEPT ![t].st = "select"] /\ mail' = mail
    <3> DEFINE s == [timer[t] EXCEPT !.st = "select"]
    <3>1. timer' = [timer EXCEPT ![t] = s]
      BY <2>1
    <3>2. s \in Started /\ s.to = timer[t].to /\ s.term = timer[t].term /\ s.cancel = timer[t].cancel
      BY <1>2, TimerIs
    <3> HIDE DEF s
    <3> QED
      BY <2>1, <3>1, <3>2, Types
  <2>2. CASE /\ timer' = [timer EXCEPT ![t] = Idle]
             /\ \/ mail' = mail /\ (timer[t].cancel \/ timer[t].to \notin alive)
                \/ mail' = Sent(timer[t].to, timer[t].term)
    BY <2>2, Types
  <2> QED
    BY <1>1, <2>1, <2>2
<1>4. /\ mail' \in [Procs -> Seq(Words)]
      /\ mail'["task"] = mail["task"]
      /\ mail'["rec"] = mail["rec"] \/ (mail'["rec"] = Append(mail["rec"], "doTask") /\ "rec" \in alive
                                        /\ timer[t].to = "rec" /\ timer'[t] = Idle)
      /\ timer[t].to = "rec" /\ "rec" \in alive /\ timer'[t] = Idle =>
            mail'["rec"] = Append(mail["rec"], "doTask")
  <2>1. CASE mail' = mail /\ (timer'[t] # Idle \/ timer[t].cancel \/ timer[t].to \notin alive)
    <3>1. mail \in [Procs -> Seq(Words)]
      BY Types
    <3> QED
      BY <1>2, <2>1, <3>1
  <2>2. CASE mail' = Sent(timer[t].to, timer[t].term) /\ timer'[t] = Idle
    <3>1. timer[t].term \in Words /\ timer[t].to \in Procs
      BY <1>2 DEF Words, Started
    <3> QED
      BY <1>2, <2>2, <3>1, SentIs, Types
  <2>3. timer'[t] \in Started => timer'[t] # Idle
    BY TimerIs
  <2> QED
    BY <1>3, <2>1, <2>2, <2>3
<1>5. WorkersTypeOK'
  BY <1>1, <1>3, <1>4 DEF WorkersTypeOK, TimerTypeOK, RecTypeOK, TaskTypeOK, recVars, taskVars, Words, Started
<1>6. PostsHold'
  <2>1. ASSUME NEW u \in Timers, Live(u)'
        PROVE  \/ timer'[u].to = "rec" /\ timer'[u].term = "doTask" /\ ~timer'[u].cancel
               \/ timer'[u].to = "owner" /\ timer'[u].term = "tick"
    <3>1. CASE u = t
      BY <1>2, <1>3, <2>1, <3>1 DEF Live, Idle
    <3>2. CASE u # t
      BY <1>3, <2>1, <3>2 DEF PostsHold, Live
    <3> QED
      BY <3>1, <3>2
  <2>2. mail'["rec"] \in Seq({"doTask", "stop"})
    <3>1. mail["rec"] \in Seq({"doTask", "stop"}) /\ "doTask" \in {"doTask", "stop"}
      BY DEF PostsHold
    <3>2. Append(mail["rec"], "doTask") \in Seq({"doTask", "stop"})
      BY <3>1
    <3> QED
      BY <1>4, <3>1, <3>2
  <2> QED
    BY <1>4, <2>1, <2>2 DEF PostsHold
<1>7. RunsHold'
  <2>1. \A u \in Timers : OnTimer(u)' <=> OnTimer(u) /\ (u = t => timer'[t] # Idle)
    BY <1>1, <1>2, <1>3 DEF OnTimer, Idle
  <2>2. CASE mail'["rec"] = mail["rec"] /\ (OnTimer(t)' <=> OnTimer(t))
    <3>1. \A u \in Timers : OnTimer(u)' <=> OnTimer(u)
      BY <2>1, <2>2
    <3>2. /\ \A i \in DOMAIN mail'["rec"] : InMail(i)' => i \in DOMAIN mail["rec"] /\ InMail(i)
          /\ Mailed => Mailed'
      BY <2>2 DEF InMail, Mailed
    <3> QED
      BY <1>1, <2>2, <3>1, <3>2, RunsFrame DEF recVars
  <2>3. CASE mail'["rec"] = mail["rec"] /\ "rec" \notin alive
    <3>1. Mailed' <=> Mailed
      BY <2>3 DEF Mailed, InMail
    <3>2. Timed' => Timed
      BY <2>1 DEF Timed
    <3> QED
      BY <1>1, <2>1, <2>3, <3>1, <3>2 DEF RunsHold, recVars, InMail, Going
  <2>4. CASE mail'["rec"] = Append(mail["rec"], "doTask") /\ "rec" \in alive
             /\ timer[t].to = "rec" /\ timer'[t] = Idle
    <3>1. Timed /\ ~Mailed /\ ~Going
      BY <2>4 DEF RunsHold, Timed, OnTimer
    <3>2. ~Timed'
      BY <2>1, <2>4 DEF Timed, RunsHold, OnTimer
    <3>3. mail["rec"] \in Seq(Words)
      BY Types
    <3>4. \A i \in DOMAIN mail'["rec"] : InMail(i)' => i = Len(mail["rec"]) + 1
      BY <2>4, <3>1, <3>3 DEF Mailed, InMail
    <3>5. Mailed' /\ ~Going'
      <4> DEFINE n == Len(mail["rec"]) + 1
      <4>1. n \in DOMAIN mail'["rec"] /\ mail'["rec"][n] = "doTask"
        BY <2>4, <3>3
      <4> HIDE DEF n
      <4> QED
        BY <3>1, <4>1 DEF Mailed, InMail, Going, recVars
    <3> QED
      BY <2>4, <3>1, <3>2, <3>4, <3>5 DEF RunsHold, recVars, Timed
  <2> QED
    BY <1>1, <1>2, <1>3, <1>4, <2>1, <2>2, <2>3, <2>4 DEF OnTimer
<1>8. StopHolds' /\ StopEndsRuns'
  BY <1>1, <1>4 DEF StopHolds, StopEndsRuns, recVars
<1>9. TaskHolds' /\ FunNotAbandoned'
  BY <1>1, <1>4, TaskFrame
<1>10. OneRunAhead'
  BY <1>7, RunsCount, PTL
<1> QED
  BY <1>5, <1>6, <1>7, <1>8, <1>9, <1>10 DEF WorkersInd, WorkersIInv

\* A SendAfter to a process that runs takes an idle timer.
LEMMA SendAfterIs ==
  ASSUME WorkersTypeOK, PostsHold, NEW p \in Procs, NEW term \in {"doTask", "tick"}, p \in alive,
         (p = "rec" /\ term = "doTask") \/ (p = "owner" /\ term = "tick"),
         SendAfterWith(p, term)
  PROVE  \E t \in Timers :
           /\ ~OnTimer(t)
           /\ timer' \in [Timers -> {Idle} \cup Started]
           /\ timer'[t].to = p /\ timer'[t].term = term /\ ~timer'[t].cancel
           /\ \A u \in Timers \ {t} : timer'[u] = timer[u]
<1> DEFINE s == [st |-> "start", to |-> p, term |-> term, cancel |-> FALSE]
<1>1. PICK t \in Timers : ~Live(t) /\ timer' = [timer EXCEPT ![t] = s]
  BY DEF SendAfterWith
<1>2. s \in Started /\ s.to = p /\ s.term = term /\ ~s.cancel
  BY DEF Started
<1> HIDE DEF s
<1>3. /\ timer' \in [Timers -> {Idle} \cup Started] /\ timer'[t] = s
      /\ \A u \in Timers \ {t} : timer'[u] = timer[u]
  BY <1>1, <1>2, Types
<1>4. ~OnTimer(t)
  BY <1>1, Types
<1> QED
  BY <1>2, <1>3, <1>4

\* The owner sets its timer, cancels it, or exits.
LEMMA OwnerHolds ==
  ASSUME WorkersInd, OwnerSetsTimer \/ OwnerCancelsTimer \/ OwnerExits
  PROVE  WorkersInd'
<1> USE DEF WorkersInd, WorkersIInv
<1>1. /\ UNCHANGED <<recVars, taskVars>> /\ ticking' \in {"no", "set", "cancelled"}
      /\ alive' = alive \/ alive' = alive \ {"owner"}
      /\ mail' \in [Procs -> Seq(Words)]
      /\ mail'["rec"] = mail["rec"] /\ mail'["task"] = mail["task"]
  <2>1. CASE OwnerExits
    BY <2>1, ExitedIs, Types, WorkersAssumption DEF OwnerExits, WorkersTypeOK
  <2>2. CASE OwnerSetsTimer \/ OwnerCancelsTimer
    BY <2>2, Types DEF OwnerSetsTimer, OwnerCancelsTimer, CancelTimer
  <2> QED
    BY <2>1, <2>2
<1>2. /\ timer' \in [Timers -> {Idle} \cup Started]
      /\ \A u \in Timers : Live(u)' =>
           \/ timer'[u].to = "rec" /\ timer'[u].term = "doTask" /\ ~timer'[u].cancel
           \/ timer'[u].to = "owner" /\ timer'[u].term = "tick"
      /\ \A u \in Timers : OnTimer(u)' <=> OnTimer(u)
  <2>1. CASE UNCHANGED timer
    BY <2>1, Types DEF PostsHold, Live, OnTimer
  <2>2. CASE OwnerSetsTimer
    <3>1. PICK t \in Timers :
             /\ ~OnTimer(t) /\ timer' \in [Timers -> {Idle} \cup Started]
             /\ timer'[t].to = "owner" /\ timer'[t].term = "tick" /\ ~timer'[t].cancel
             /\ \A u \in Timers \ {t} : timer'[u] = timer[u]
      BY <2>2, SendAfterIs, WorkersAssumption DEF OwnerSetsTimer
    <3> QED
      BY <3>1 DEF PostsHold, Live, OnTimer
  <2>3. CASE OwnerCancelsTimer
    <3>1. PICK t \in Timers : timer[t].term = "tick" /\ CancelTimer(t)
      BY <2>3 DEF OwnerCancelsTimer
    <3> DEFINE s == [timer[t] EXCEPT !.cancel = TRUE]
    <3>2. CASE Live(t) /\ timer' = [timer EXCEPT ![t] = s]
      <4>1. timer[t] \in Started
        BY <3>2, Types
      <4>2. s \in Started /\ s.to = timer[t].to /\ s.term = timer[t].term
        BY <4>1, TimerIs
      <4> HIDE DEF s
      <4>3. /\ timer' \in [Timers -> {Idle} \cup Started] /\ timer'[t] = s
            /\ \A u \in Timers \ {t} : timer'[u] = timer[u]
        BY <3>2, <4>2, Types
      <4>4. timer[t].to = "owner"
        BY <3>1, <3>2 DEF PostsHold
      <4>5. ASSUME NEW u \in Timers, Live(u)'
            PROVE  \/ timer'[u].to = "rec" /\ timer'[u].term = "doTask" /\ ~timer'[u].cancel
                   \/ timer'[u].to = "owner" /\ timer'[u].term = "tick"
        BY <3>1, <4>2, <4>3, <4>4, <4>5 DEF PostsHold, Live
      <4>6. \A u \in Timers : OnTimer(u)' <=> OnTimer(u)
        BY <4>2, <4>3 DEF OnTimer
      <4> QED
        BY <4>3, <4>5, <4>6
    <3> QED
      BY <2>1, <3>1, <3>2 DEF CancelTimer
  <2> QED
    BY <2>1, <2>2, <2>3 DEF OwnerExits
<1>3. WorkersTypeOK'
  <2>1. alive' \subseteq Procs
    BY <1>1, Types
  <2> QED
    BY <1>1, <1>2, <2>1 DEF WorkersTypeOK, TimerTypeOK, RecTypeOK, TaskTypeOK, recVars, taskVars,
                            Words, Started
<1>4. PostsHold'
  BY <1>1, <1>2 DEF PostsHold
<1>5. RunsHold'
  <2>1. /\ \A i \in DOMAIN mail'["rec"] : InMail(i)' => i \in DOMAIN mail["rec"] /\ InMail(i)
        /\ Mailed => Mailed'
    BY <1>1 DEF InMail, Mailed
  <2> QED
    BY <1>1, <1>2, <2>1, RunsFrame DEF recVars
<1>6. OneRunAhead'
  BY <1>5, RunsCount, PTL
<1>7. StopHolds' /\ StopEndsRuns'
  BY <1>1, StopFrame
<1>8. TaskHolds' /\ FunNotAbandoned'
  BY <1>1, TaskFrame
<1> QED
  BY <1>3, <1>4, <1>5, <1>6, <1>7, <1>8

\* A step of the recurring task leaves the other one alone.
LEMMA RecFrame ==
  ASSUME WorkersInd, UNCHANGED <<taskVars, ticking>>,
         alive' = alive \/ alive' = alive \ {"rec"},
         mail' \in [Procs -> Seq(Words)], mail'["task"] = mail["task"],
         mail'["rec"] \in Seq({"doTask", "stop"}), RecTypeOK',
         timer' \in [Timers -> {Idle} \cup Started],
         \A u \in Timers : Live(u)' =>
            \/ timer'[u].to = "rec" /\ timer'[u].term = "doTask" /\ ~timer'[u].cancel
            \/ timer'[u].to = "owner" /\ timer'[u].term = "tick",
         RunsHold', StopHolds', StopEndsRuns'
  PROVE  WorkersInd'
<1> USE DEF WorkersInd, WorkersIInv
<1>1. WorkersTypeOK'
  <2>1. alive' \subseteq Procs
    BY Types
  <2> QED
    BY <2>1 DEF WorkersTypeOK, TimerTypeOK, TaskTypeOK, taskVars, Words, Started
<1>2. PostsHold'
  BY DEF PostsHold
<1>3. OneRunAhead'
  BY RunsCount, PTL
<1>4. TaskHolds' /\ FunNotAbandoned'
  BY TaskFrame
<1> QED
  BY <1>1, <1>2, <1>3, <1>4

\* Its inbox, as it is.
LEMMA RecMail ==
  ASSUME WorkersInd
  PROVE  /\ mail \in [Procs -> Seq(Words)] /\ mail["rec"] \in Seq({"doTask", "stop"})
         /\ timer \in [Timers -> {Idle} \cup Started]
         /\ \A u \in Timers : Live(u) =>
            \/ timer[u].to = "rec" /\ timer[u].term = "doTask" /\ ~timer[u].cancel
            \/ timer[u].to = "owner" /\ timer[u].term = "tick"
         /\ "rec" \in Procs /\ late \in {0, 1} /\ Len(mail["rec"]) \in Nat
BY Types DEF WorkersInd, WorkersIInv, PostsHold

\* The first doTask is sent.
LEMMA RecInitHolds ==
  ASSUME WorkersInd, RecInitReturns, UNCHANGED <<taskVars, ticking>>
  PROVE  WorkersInd'
<1>1. /\ WorkersTypeOK /\ StopEndsRuns /\ RunsHold /\ StopHolds
      /\ rpc = "Init" /\ UNCHANGED <<alive, timer, stopper, late>>
      /\ \/ rpc' = "loop" /\ mail' = Sent("rec", "doTask")
         \/ rpc' = "returned" /\ UNCHANGED mail
  BY DEF WorkersInd, WorkersIInv, RecInitReturns
<1>2. \A t \in Timers : OnTimer(t)' <=> OnTimer(t)
  BY <1>1 DEF OnTimer
<1>3. RecTypeOK'
  BY <1>1 DEF WorkersTypeOK, RecTypeOK
<1>4. CASE UNCHANGED mail /\ ("rec" \notin alive \/ rpc' = "returned")
  <2>1. (Mailed' <=> Mailed) /\ (Timed' <=> Timed) /\ ~Going'
    BY <1>1, <1>2, <1>4 DEF Mailed, Timed, Going, InMail
  <2>2. RunsHold'
    BY <1>1, <1>2, <1>4, <2>1 DEF RunsHold, InMail
  <2>3. StopHolds' /\ StopEndsRuns'
    BY <1>1, <1>4 DEF StopHolds, StopEndsRuns
  <2>4. \A u \in Timers : Live(u)' <=> Live(u)
    BY <1>1 DEF Live
  <2> QED
    BY <1>1, <1>3, <1>4, <2>2, <2>3, <2>4, RecMail, RecFrame
<1>5. CASE mail' = Sent("rec", "doTask") /\ "rec" \in alive /\ rpc' = "loop"
  <2>1. /\ mail' \in [Procs -> Seq(Words)] /\ mail'["task"] = mail["task"]
        /\ mail'["rec"] = Append(mail["rec"], "doTask")
    BY <1>1, <1>5, SentIs, WorkersAssumption DEF Words
  <2>2. mail["rec"] \in Seq({"doTask", "stop"}) /\ "doTask" \in {"doTask", "stop"}
    BY RecMail
  <2>3. mail'["rec"] \in Seq({"doTask", "stop"})
    BY <2>1, <2>2
  <2>4. ~Mailed /\ ~Timed'
    BY <1>1, <1>2 DEF RunsHold, Timed
  <2>5. \A i \in DOMAIN mail'["rec"] : InMail(i)' => i = Len(mail["rec"]) + 1
    BY <2>1, <2>2, <2>4 DEF Mailed, InMail
  <2> DEFINE n == Len(mail["rec"]) + 1
  <2>6. n \in DOMAIN mail'["rec"] /\ mail'["rec"][n] = "doTask"
    BY <2>1, <2>2
  <2> HIDE DEF n
  <2>7. Mailed' /\ ~Going'
    BY <1>5, <2>6 DEF Mailed, InMail, Going
  <2>8. RunsHold'
    BY <1>5, <2>4, <2>5, <2>7 DEF RunsHold, Timed
  <2>9. StopHolds' /\ StopEndsRuns'
    BY <1>1, <1>5 DEF StopHolds, StopEndsRuns
  <2>10. \A u \in Timers : Live(u)' <=> Live(u)
    BY <1>1 DEF Live
  <2> QED
    BY <1>1, <1>3, <2>1, <2>3, <2>8, <2>9, <2>10, RecMail, RecFrame
<1> QED
  BY <1>1, <1>4, <1>5 DEF Sent

\* A message is taken: the run begins, or the loop ends.
LEMMA RecReceivesHolds ==
  ASSUME WorkersInd, RecReceives, UNCHANGED <<taskVars, ticking>>
  PROVE  WorkersInd'
<1> DEFINE inbox == mail["rec"]
           begins == Head(inbox) = "doTask"
<1>1. /\ WorkersTypeOK /\ StopEndsRuns /\ RunsHold /\ StopHolds
      /\ rpc = "loop" /\ inbox # <<>> /\ UNCHANGED <<alive, timer, stopper>>
      /\ mail' = [mail EXCEPT !["rec"] = Tail(@)]
      /\ rpc' = IF begins THEN "taskFun" ELSE "returned"
      /\ late' = IF begins /\ stopper \in {"stopped", "killed"} THEN late + 1 ELSE late
  BY DEF WorkersInd, WorkersIInv, RecReceives
<1>2. inbox \in Seq({"doTask", "stop"}) /\ inbox \in Seq(Words) /\ late \in {0, 1}
  BY RecMail
<1>3. /\ Tail(inbox) \in Seq({"doTask", "stop"}) /\ Tail(inbox) \in Seq(Words)
      /\ Len(Tail(inbox)) = Len(inbox) - 1 /\ Len(inbox) \in Nat /\ Len(inbox) >= 1
      /\ DOMAIN Tail(inbox) = 1..Len(inbox) - 1 /\ DOMAIN inbox = 1..Len(inbox)
      /\ \A i \in 1..Len(inbox) - 1 : Tail(inbox)[i] = inbox[i + 1]
      /\ Head(inbox) = inbox[1]
  BY <1>1, <1>2
<1>4. /\ mail'["rec"] = Tail(inbox) /\ mail'["task"] = mail["task"]
      /\ mail' \in [Procs -> Seq(Words)]
  BY <1>1, <1>3, RecMail, WorkersAssumption
<1>5. late + Len(inbox) <= 1 \/ "rec" \in alive
  BY <1>1 DEF StopHolds
<1>6. RecTypeOK'
  <2>1. late' \in 0..1
    BY <1>1, <1>2, <1>3, <1>5 DEF StopHolds
  <2> QED
    BY <1>1, <2>1 DEF WorkersTypeOK, RecTypeOK
<1>7. StopHolds' /\ StopEndsRuns'
  <2>1. stopper \in {"stopped", "killed"} => "rec" \notin alive
    BY <1>1 DEF StopHolds
  <2>2. "rec" \notin alive => late' + Len(mail'["rec"]) <= 1
    BY <1>1, <1>2, <1>3, <1>4, <1>5
  <2>3. stopper \notin {"stopped", "killed"} => late' = 0
    BY <1>1 DEF StopHolds
  <2>4. late' <= 1
    BY <1>6 DEF RecTypeOK
  <2>5. ~("rec" \notin alive /\ stopper \in {"stop", "stopped"})
    BY <1>1 DEF StopHolds
  <2> QED
    BY <1>1, <2>1, <2>2, <2>3, <2>4, <2>5 DEF StopHolds, StopEndsRuns
<1>8. RunsHold'
  <2>1. \A i \in DOMAIN mail'["rec"] : InMail(i)' => i + 1 \in DOMAIN inbox /\ InMail(i + 1) /\ i \in Nat
    BY <1>3, <1>4 DEF InMail
  <2>2. \A i, j \in DOMAIN mail'["rec"] : InMail(i)' /\ InMail(j)' => i = j
    BY <1>1, <2>1 DEF RunsHold
  <2>3. Mailed' => Mailed
    BY <2>1 DEF Mailed
  <2>4. \A t \in Timers : OnTimer(t)' <=> OnTimer(t)
    BY <1>1 DEF OnTimer
  <2>5. Timed' <=> Timed
    BY <2>4 DEF Timed
  <2>6. ASSUME begins PROVE ~Mailed' /\ ~Timed
    <3>1. 1 \in DOMAIN inbox /\ InMail(1)
      BY <1>3, <2>6 DEF InMail
    <3>2. ASSUME NEW i \in DOMAIN mail'["rec"], InMail(i)' PROVE FALSE
      <4>1. i + 1 = 1
        BY <1>1, <2>1, <3>1, <3>2 DEF RunsHold
      <4>2. i \in 1..Len(inbox) - 1
        BY <1>3, <1>4
      <4> QED
        BY <1>3, <4>1, <4>2
    <3>3. Mailed
      BY <3>1 DEF Mailed
    <3> QED
      BY <1>1, <3>2, <3>3 DEF Mailed, RunsHold
  <2> QED
    BY <1>1, <2>2, <2>3, <2>4, <2>5, <2>6 DEF RunsHold, Going
<1>9. \A u \in Timers : Live(u)' <=> Live(u)
  BY <1>1 DEF Live
<1> QED
  BY <1>1, <1>3, <1>4, <1>6, <1>7, <1>8, <1>9, RecMail, RecFrame

\* The next run is scheduled.
LEMMA TaskFunReturnsHolds ==
  ASSUME WorkersInd, TaskFunReturns, UNCHANGED <<taskVars, ticking>>
  PROVE  WorkersInd'
<1>1. /\ WorkersTypeOK /\ PostsHold /\ StopEndsRuns /\ RunsHold /\ StopHolds
      /\ rpc = "taskFun" /\ rpc' \in {"loop", "returned"}
      /\ SendAfterWith("rec", "doTask") /\ UNCHANGED <<alive, mail, stopper, late>>
  BY DEF WorkersInd, WorkersIInv, TaskFunReturns
<1>2. RecTypeOK'
  BY <1>1 DEF WorkersTypeOK, RecTypeOK
<1>3. StopHolds' /\ StopEndsRuns'
  BY <1>1 DEF StopHolds, StopEndsRuns
<1>4. ~Mailed' /\ ~Timed /\ ~Going'
  BY <1>1 DEF RunsHold, Going, Mailed, InMail
<1>5. CASE "rec" \in alive
  <2>1. /\ timer' \in [Timers -> {Idle} \cup Started]
        /\ \A u \in Timers : Live(u)' =>
             \/ timer'[u].to = "rec" /\ timer'[u].term = "doTask" /\ ~timer'[u].cancel
             \/ timer'[u].to = "owner" /\ timer'[u].term = "tick"
        /\ \E t \in Timers : \A u \in Timers : OnTimer(u)' <=> OnTimer(u) \/ u = t
    <3>1. PICK t \in Timers :
             /\ ~OnTimer(t) /\ timer' \in [Timers -> {Idle} \cup Started]
             /\ timer'[t].to = "rec" /\ timer'[t].term = "doTask" /\ ~timer'[t].cancel
             /\ \A u \in Timers \ {t} : timer'[u] = timer[u]
      <4>1. WorkersTypeOK /\ PostsHold /\ "rec" \in Procs /\ "rec" \in alive
        BY <1>1, <1>5, RecMail
      <4>2. SendAfterWith("rec", "doTask")
        BY <1>1
      <4> QED
        BY <4>1, <4>2, SendAfterIs
    <3>2. ASSUME NEW u \in Timers
          PROVE  /\ OnTimer(u)' <=> OnTimer(u) \/ u = t
                 /\ Live(u)' =>
                      \/ timer'[u].to = "rec" /\ timer'[u].term = "doTask" /\ ~timer'[u].cancel
                      \/ timer'[u].to = "owner" /\ timer'[u].term = "tick"
      BY <1>1, <3>1, <3>2 DEF PostsHold, Live, OnTimer
    <3> QED
      BY <3>1, <3>2
  <2>2. PICK t \in Timers : \A u \in Timers : OnTimer(u)' <=> u = t
    BY <1>4, <2>1 DEF Timed
  <2>3. Timed'
    BY <2>2 DEF Timed
  <2>4. RunsHold'
    BY <1>1, <1>4, <2>2, <2>3 DEF RunsHold, Mailed
  <2> QED
    BY <1>1, <1>2, <1>3, <2>1, <2>4, RecMail, RecFrame
<1>6. CASE "rec" \notin alive
  <2>1. UNCHANGED timer
    BY <1>1, <1>6 DEF SendAfterWith
  <2>2. \A u \in Timers : (OnTimer(u)' <=> OnTimer(u)) /\ (Live(u)' <=> Live(u))
    BY <2>1 DEF OnTimer, Live
  <2>3. RunsHold'
    BY <1>1, <1>4, <1>6, <2>2 DEF RunsHold, Timed, Mailed
  <2> QED
    BY <1>1, <1>2, <1>3, <2>1, <2>2, <2>3, RecMail, RecFrame
<1> QED
  BY <1>5, <1>6

\* The Runnable returns.
LEMMA RecRunnableEnds ==
  ASSUME WorkersInd, TaskFunPanics \/ RecLoopCloses, UNCHANGED <<taskVars, ticking>>
  PROVE  WorkersInd'
<1>1. /\ WorkersTypeOK /\ StopEndsRuns /\ RunsHold /\ StopHolds
      /\ rpc' = "returned" /\ UNCHANGED <<alive, mail, timer, stopper, late>>
  BY DEF WorkersInd, WorkersIInv, TaskFunPanics, RecLoopCloses, timerVars
<1>2. RecTypeOK'
  BY <1>1 DEF WorkersTypeOK, RecTypeOK
<1>3. StopHolds' /\ StopEndsRuns'
  BY <1>1 DEF StopHolds, StopEndsRuns
<1>4. \A u \in Timers : (OnTimer(u)' <=> OnTimer(u)) /\ (Live(u)' <=> Live(u))
  BY <1>1 DEF OnTimer, Live
<1>5. (Mailed' <=> Mailed) /\ (Timed' <=> Timed) /\ ~Going'
  BY <1>1, <1>4 DEF Mailed, Timed, Going, InMail
<1>6. RunsHold'
  BY <1>1, <1>4, <1>5 DEF RunsHold, InMail
<1> QED
  BY <1>1, <1>2, <1>3, <1>4, <1>6, RecMail, RecFrame

\* The process exits.
LEMMA RecExits ==
  ASSUME WorkersInd, RecReturned \/ RecSignalled \/ RecKilled, UNCHANGED <<taskVars, ticking>>
  PROVE  WorkersInd'
<1>1. /\ WorkersTypeOK /\ StopEndsRuns /\ RunsHold /\ StopHolds
      /\ Exited("rec") /\ UNCHANGED <<timer, rpc, late>>
      /\ \/ rpc = "returned" /\ stopper' = stopper
         \/ stopper' = "cut"
         \/ stopper' = stopper /\ stopper # "stop"
  BY DEF WorkersInd, WorkersIInv, RecReturned, RecSignalled, RecKilled, RecEnds
<1>2. /\ "rec" \in alive /\ alive' = alive \ {"rec"}
      /\ mail' \in [Procs -> Seq(Words)] /\ mail'["task"] = mail["task"] /\ Len(mail'["rec"]) <= 1
      /\ \A i \in DOMAIN mail'["rec"] : i \in DOMAIN mail["rec"] /\ mail'["rec"][i] = mail["rec"][i]
  BY <1>1, ExitedIs, WorkersAssumption
<1>3. mail'["rec"] \in Seq({"doTask", "stop"})
  BY <1>2, RecMail, PartOf
<1>4. RecTypeOK'
  BY <1>1 DEF WorkersTypeOK, RecTypeOK
<1>5. StopHolds' /\ StopEndsRuns'
  <2>1. late = 0 /\ stopper \notin {"stopped", "killed"}
    BY <1>1, <1>2 DEF StopHolds
  <2>2. late' + Len(mail'["rec"]) <= 1
    BY <1>1, <1>2, <1>3, <2>1
  <2> QED
    BY <1>1, <1>2, <2>1, <2>2 DEF StopHolds, StopEndsRuns
<1>6. \A u \in Timers : (OnTimer(u)' <=> OnTimer(u)) /\ (Live(u)' <=> Live(u))
  BY <1>1 DEF OnTimer, Live
<1>7. RunsHold'
  <2>1. \A i \in DOMAIN mail'["rec"] : InMail(i)' => i \in DOMAIN mail["rec"] /\ InMail(i)
    BY <1>2 DEF InMail
  <2>2. "rec" \notin alive'
    BY <1>2
  <2> QED
    BY <1>1, <1>6, <2>1, <2>2, RunsFrame
<1> QED
  BY <1>1, <1>2, <1>3, <1>4, <1>5, <1>6, <1>7, RecMail, RecFrame

\* Stop is called, and returns.
LEMMA RecStopHolds ==
  ASSUME WorkersInd, RecStop \/ RecStopReturns, UNCHANGED <<taskVars, ticking>>
  PROVE  WorkersInd'
<1>1. WorkersTypeOK /\ StopEndsRuns /\ RunsHold /\ StopHolds
  BY DEF WorkersInd, WorkersIInv
<1>2. /\ UNCHANGED <<alive, timer, rpc, late>>
      /\ stopper' \in {"stop", "kill", "stopped", "killed"}
  BY DEF RecStop, RecStopReturns, timerVars
<1>3. RecTypeOK'
  BY <1>1, <1>2 DEF WorkersTypeOK, RecTypeOK
<1>4. \A u \in Timers : (OnTimer(u)' <=> OnTimer(u)) /\ (Live(u)' <=> Live(u))
  BY <1>2 DEF OnTimer, Live
<1>5. mail' = mail \/ (mail' = Sent("rec", "stop") /\ "rec" \in alive)
  BY DEF RecStop, RecStopReturns, timerVars
<1>6. /\ mail' \in [Procs -> Seq(Words)] /\ mail'["task"] = mail["task"]
      /\ mail'["rec"] \in Seq({"doTask", "stop"})
      /\ mail'["rec"] = mail["rec"] \/ mail'["rec"] = Append(mail["rec"], "stop")
  <2>1. CASE mail' = mail
    BY <2>1, RecMail
  <2>2. CASE mail' = Sent("rec", "stop") /\ "rec" \in alive
    <3>1. /\ mail' \in [Procs -> Seq(Words)] /\ mail'["task"] = mail["task"]
          /\ mail'["rec"] = Append(mail["rec"], "stop")
      BY <1>1, <2>2, SentIs, WorkersAssumption DEF Words
    <3>2. mail["rec"] \in Seq({"doTask", "stop"}) /\ "stop" \in {"doTask", "stop"}
      BY RecMail
    <3> QED
      BY <3>1, <3>2
  <2> QED
    BY <1>5, <2>1, <2>2
<1>7. RunsHold'
  <2> DEFINE s == Append(mail["rec"], "stop")
  <2>1. /\ \A i \in DOMAIN mail["rec"] : i \in DOMAIN s /\ s[i] = mail["rec"][i]
        /\ \A i \in DOMAIN s : i \in DOMAIN mail["rec"] \/ s[i] = "stop"
    <3>1. mail["rec"] \in Seq({"doTask", "stop"})
      BY RecMail
    <3> QED
      BY <3>1
  <2> HIDE DEF s
  <2>2. mail'["rec"] = mail["rec"] \/ mail'["rec"] = s
    BY <1>6 DEF s
  <2>3. \A i \in DOMAIN mail'["rec"] : InMail(i)' => i \in DOMAIN mail["rec"] /\ InMail(i)
    BY <2>1, <2>2 DEF InMail
  <2>4. Mailed => Mailed'
    BY <2>1, <2>2 DEF Mailed, InMail
  <2> QED
    BY <1>1, <1>2, <1>4, <2>3, <2>4, RunsFrame
<1>8. StopHolds' /\ StopEndsRuns'
  <2>1. CASE RecStop
    BY <1>1, <1>2, <2>1 DEF RecStop, StopHolds, StopEndsRuns
  <2>2. CASE RecStopReturns
    BY <1>1, <1>2, <2>2 DEF RecStopReturns, timerVars, StopHolds, StopEndsRuns
  <2> QED
    BY <2>1, <2>2
<1> QED
  BY <1>2, <1>3, <1>4, <1>6, <1>7, <1>8, RecMail, RecFrame

\* A step of the task leaves the recurring one alone.
LEMMA TaskStepFrame ==
  ASSUME WorkersInd, UNCHANGED <<timer, recVars, ticking>>,
         alive' = alive \/ alive' = alive \ {"task"},
         mail' \in [Procs -> Seq(Words)], mail'["rec"] = mail["rec"],
         mail'["task"] \in Seq({"exit", "stop", "funExited"}),
         TaskTypeOK', TaskHolds', FunNotAbandoned'
  PROVE  WorkersInd'
<1> USE DEF WorkersInd, WorkersIInv
<1>1. WorkersTypeOK'
  <2>1. alive' \subseteq Procs
    BY Types
  <2> QED
    BY <2>1 DEF WorkersTypeOK, TimerTypeOK, RecTypeOK, recVars, Words
<1>2. PostsHold'
  BY DEF PostsHold, Live
<1>3. RunsHold'
  <2>1. \A t \in Timers : OnTimer(t)' <=> OnTimer(t)
    BY DEF OnTimer
  <2>2. /\ \A i \in DOMAIN mail'["rec"] : InMail(i)' => i \in DOMAIN mail["rec"] /\ InMail(i)
        /\ Mailed => Mailed'
    BY DEF InMail, Mailed
  <2> QED
    BY <2>1, <2>2, RunsFrame DEF recVars
<1>4. OneRunAhead'
  BY <1>3, RunsCount, PTL
<1>5. StopHolds' /\ StopEndsRuns'
  BY StopFrame
<1> QED
  BY <1>1, <1>2, <1>3, <1>4, <1>5

\* A flag that is one stays one.
LEMMA TaskTypes ==
  ASSUME TaskTypeOK,
         tpc' \in {"Register", "ProcessFlag", "go", "loop", "cleanup", "returned"},
         fun' \in {"none", "running", "ended"}, linked' = linked,
         trapping' = trapping \/ trapping' = TRUE, cleaned' = cleaned \/ cleaned' = TRUE,
         told' = told \/ told' \in {"heard", "unheard"}, cut' = cut \/ cut' = TRUE,
         stopSent' = stopSent \/ stopSent' = TRUE
  PROVE  TaskTypeOK'
<1>1. /\ linked' \in BOOLEAN /\ trapping' \in BOOLEAN /\ cleaned' \in BOOLEAN
      /\ cut' \in BOOLEAN /\ stopSent' \in BOOLEAN
  BY Zenon DEF TaskTypeOK
<1>2. {linked', trapping', cleaned', cut', stopSent'} \subseteq BOOLEAN
  BY <1>1, Zenon
<1> QED
  BY <1>2, Zenon DEF TaskTypeOK

\* What Send adds to its inbox.
LEMMA TaskMail ==
  ASSUME WorkersInd, NEW term \in {"exit", "stop", "funExited"}, mail' = Sent("task", term)
  PROVE  /\ mail' \in [Procs -> Seq(Words)] /\ mail'["rec"] = mail["rec"]
         /\ mail'["task"] \in Seq({"exit", "stop", "funExited"})
         /\ \A i \in DOMAIN mail'["task"] :
               mail'["task"][i] = term \/ (i \in DOMAIN mail["task"] /\ mail'["task"][i] = mail["task"][i])
<1>1. WorkersTypeOK /\ mail["task"] \in Seq({"exit", "stop", "funExited"}) /\ term \in Words
  BY DEF WorkersInd, WorkersIInv, PostsHold, Words
<1>2. mail'["task"] = mail["task"] \/ mail'["task"] = Append(mail["task"], term)
  BY <1>1, SentIs, WorkersAssumption
<1>3. /\ Append(mail["task"], term) \in Seq({"exit", "stop", "funExited"})
      /\ \A i \in DOMAIN Append(mail["task"], term) :
            \/ Append(mail["task"], term)[i] = term
            \/ i \in DOMAIN mail["task"] /\ Append(mail["task"], term)[i] = mail["task"][i]
  BY <1>1
<1>4. mail' \in [Procs -> Seq(Words)] /\ mail'["rec"] = mail["rec"]
  BY <1>1, SentIs, WorkersAssumption
<1> QED
  BY <1>1, <1>2, <1>3, <1>4

\* Its start, its cleanup, and the end of its loop when the inbox is closed.
LEMMA TaskMovesHolds ==
  ASSUME WorkersInd, TaskRegisters \/ TaskTraps \/ TaskForks \/ TaskCleansUp \/ TaskLoopCloses,
         UNCHANGED <<recVars, ticking>>
  PROVE  WorkersInd'
<1>1. /\ TaskTypeOK /\ TaskHolds /\ FunNotAbandoned
      /\ mail \in [Procs -> Seq(Words)] /\ mail["task"] \in Seq({"exit", "stop", "funExited"})
  BY RecMail DEF WorkersInd, WorkersIInv, WorkersTypeOK, PostsHold
<1>2. UNCHANGED <<alive, mail, timer>>
  BY DEF TaskRegisters, TaskTraps, TaskForks, TaskCleansUp, TaskLoopCloses, timerVars
<1>3. TaskTypeOK'
  <2>1. /\ tpc' \in {"Register", "ProcessFlag", "go", "loop", "cleanup", "returned"}
        /\ fun' \in {"none", "running", "ended"}
    BY <1>1 DEF TaskTypeOK, TaskRegisters, TaskTraps, TaskForks, TaskCleansUp, TaskLoopCloses
  <2>2. /\ linked' = linked
        /\ trapping' = trapping \/ trapping' = TRUE
        /\ cleaned' = cleaned \/ cleaned' = TRUE
        /\ told' = told /\ cut' = cut
        /\ stopSent' = stopSent \/ stopSent' = TRUE
    BY Zenon DEF TaskRegisters, TaskTraps, TaskForks, TaskCleansUp, TaskLoopCloses
  <2> QED
    BY <1>1, <2>1, <2>2, TaskTypes
<1>4. TaskHolds' /\ FunNotAbandoned'
  <2>1. CASE TaskRegisters \/ TaskTraps
    BY <1>1, <1>2, <2>1 DEF TaskHolds, FunNotAbandoned, TaskRegisters, TaskTraps
  <2>2. CASE TaskForks
    BY <1>1, <1>2, <2>2 DEF TaskHolds, FunNotAbandoned, TaskForks
  <2>3. CASE TaskCleansUp
    BY <1>1, <1>2, <2>3 DEF TaskHolds, FunNotAbandoned, TaskCleansUp
  <2>4. CASE TaskLoopCloses
    BY <1>1, <1>2, <2>4 DEF TaskHolds, FunNotAbandoned, TaskLoopCloses
  <2> QED
    BY <2>1, <2>2, <2>3, <2>4
<1> QED
  BY <1>1, <1>2, <1>3, <1>4, TaskStepFrame

\* It takes a message.
LEMMA TaskReceivesHolds ==
  ASSUME WorkersInd, TaskReceives, UNCHANGED <<recVars, ticking>>
  PROVE  WorkersInd'
<1> DEFINE inbox == mail["task"]
           Known == {"exit", "stop", "funExited"}
<1>1. /\ TaskTypeOK /\ TaskHolds /\ FunNotAbandoned
      /\ mail \in [Procs -> Seq(Words)] /\ inbox \in Seq(Known) /\ inbox \in Seq(Words)
  BY RecMail, WorkersAssumption DEF WorkersInd, WorkersIInv, WorkersTypeOK, PostsHold
<1>2. /\ tpc = "loop" /\ inbox # <<>> /\ mail' = [mail EXCEPT !["task"] = Tail(@)]
      /\ tpc' = AfterMessage[Head(inbox)]
      /\ UNCHANGED <<alive, timer, linked, trapping, fun, cleaned, told, cut, stopSent>>
  BY DEF TaskReceives
<1>3. /\ Tail(inbox) \in Seq(Known) /\ Tail(inbox) \in Seq(Words)
      /\ Head(inbox) \in Known /\ Head(inbox) = inbox[1] /\ 1 \in DOMAIN inbox
      /\ \A i \in DOMAIN Tail(inbox) : i + 1 \in DOMAIN inbox /\ Tail(inbox)[i] = inbox[i + 1]
  BY <1>1, <1>2
<1>4. /\ mail' \in [Procs -> Seq(Words)] /\ mail'["rec"] = mail["rec"]
      /\ mail'["task"] = Tail(inbox)
  BY <1>1, <1>2, <1>3, WorkersAssumption
<1>5. \/ Head(inbox) \in {"exit", "stop"} /\ tpc' = "cleanup"
      \/ Head(inbox) = "funExited" /\ tpc' = "returned"
  BY <1>2, <1>3 DEF AfterMessage
<1>6. TaskTypeOK'
  <2>1. /\ tpc' \in {"Register", "ProcessFlag", "go", "loop", "cleanup", "returned"}
        /\ fun' \in {"none", "running", "ended"}
    BY <1>1, <1>2, <1>5 DEF TaskTypeOK
  <2> QED
    BY <1>1, <1>2, <2>1, TaskTypes
<1>7. TaskHolds'
  <2>1. (\E i \in DOMAIN mail'["task"] : mail'["task"][i] = "funExited") =>
          \E i \in DOMAIN inbox : inbox[i] = "funExited"
    BY <1>3, <1>4
  <2> QED
    BY <1>1, <1>2, <1>5, <2>1 DEF TaskHolds
<1>8. FunNotAbandoned'
  <2>1. Head(inbox) = "funExited" => fun = "ended"
    BY <1>1, <1>3 DEF TaskHolds
  <2> QED
    BY <1>2, <1>5, <2>1 DEF FunNotAbandoned
<1> QED
  BY <1>2, <1>3, <1>4, <1>6, <1>7, <1>8, TaskStepFrame

\* The TaskFun ends, or Stop is called.
LEMMA TaskHearsHolds ==
  ASSUME WorkersInd, TaskFunEnds \/ TaskStop, UNCHANGED <<recVars, ticking>>
  PROVE  WorkersInd'
<1>1. TaskTypeOK /\ TaskHolds /\ FunNotAbandoned
  BY DEF WorkersInd, WorkersIInv, WorkersTypeOK
<1>2. CASE TaskFunEnds
  <2>1. /\ fun = "running" /\ fun' = "ended" /\ mail' = Sent("task", "funExited")
        /\ UNCHANGED <<alive, timer, linked, tpc, trapping, cleaned, told, cut, stopSent>>
    BY <1>2 DEF TaskFunEnds
  <2>2. /\ mail' \in [Procs -> Seq(Words)] /\ mail'["rec"] = mail["rec"]
        /\ mail'["task"] \in Seq({"exit", "stop", "funExited"})
    BY <2>1, TaskMail
  <2>3. TaskTypeOK'
    <3>1. /\ tpc' \in {"Register", "ProcessFlag", "go", "loop", "cleanup", "returned"}
          /\ fun' \in {"none", "running", "ended"}
      BY <1>1, <2>1 DEF TaskTypeOK
    <3> QED
      BY <1>1, <2>1, <3>1, TaskTypes
  <2>4. TaskHolds' /\ FunNotAbandoned'
    BY <1>1, <2>1 DEF TaskHolds, FunNotAbandoned
  <2> QED
    BY <2>1, <2>2, <2>3, <2>4, TaskStepFrame
<1>3. CASE TaskStop
  <2>1. /\ stopSent' = TRUE /\ mail' = Sent("task", "stop")
        /\ UNCHANGED <<alive, timer, linked, tpc, trapping, fun, cleaned, told, cut>>
    BY <1>3 DEF TaskStop
  <2>2. /\ mail' \in [Procs -> Seq(Words)] /\ mail'["rec"] = mail["rec"]
        /\ mail'["task"] \in Seq({"exit", "stop", "funExited"})
        /\ \A i \in DOMAIN mail'["task"] :
              mail'["task"][i] = "stop" \/ (i \in DOMAIN mail["task"] /\ mail'["task"][i] = mail["task"][i])
    BY <2>1, TaskMail
  <2>3. TaskTypeOK'
    <3>1. /\ tpc' \in {"Register", "ProcessFlag", "go", "loop", "cleanup", "returned"}
          /\ fun' \in {"none", "running", "ended"}
      BY <1>1, <2>1 DEF TaskTypeOK
    <3> QED
      BY <1>1, <2>1, <3>1, TaskTypes
  <2>4. TaskHolds' /\ FunNotAbandoned'
    BY <1>1, <2>1, <2>2 DEF TaskHolds, FunNotAbandoned
  <2> QED
    BY <2>1, <2>2, <2>3, <2>4, TaskStepFrame
<1> QED
  BY <1>2, <1>3

\* Its process exits, or gets the owner's ExitMsg.
LEMMA TaskExitsHolds ==
  ASSUME WorkersInd, TaskReturned \/ TaskParentSignal \/ TaskSignalled,
         UNCHANGED <<recVars, ticking>>
  PROVE  WorkersInd'
<1>1. WorkersTypeOK /\ TaskTypeOK /\ TaskHolds /\ FunNotAbandoned
  BY DEF WorkersInd, WorkersIInv, WorkersTypeOK
<1>2. /\ UNCHANGED <<timer, linked, tpc, trapping, fun, cleaned, stopSent>>
      /\ told' = told \/ told' \in {"heard", "unheard"}
      /\ cut' = cut \/ cut' = TRUE
  BY Zenon DEF TaskReturned, TaskParentSignal, TaskSignalled, CutOff, taskVars
<1>3. TaskTypeOK'
  <2>1. /\ tpc' \in {"Register", "ProcessFlag", "go", "loop", "cleanup", "returned"}
        /\ fun' \in {"none", "running", "ended"}
    BY <1>1, <1>2 DEF TaskTypeOK
  <2> QED
    BY <1>1, <1>2, <2>1, TaskTypes
<1>4. CASE Exited("task") /\ (tpc = "returned" \/ cut' = TRUE)
  <2>1. /\ "task" \in alive /\ alive' = alive \ {"task"}
        /\ mail' \in [Procs -> Seq(Words)] /\ mail'["rec"] = mail["rec"]
        /\ \A i \in DOMAIN mail'["task"] : i \in DOMAIN mail["task"] /\ mail'["task"][i] = mail["task"][i]
    BY <1>1, <1>4, ExitedIs, WorkersAssumption
  <2>2. mail'["task"] \in Seq({"exit", "stop", "funExited"})
    <3>1. mail["task"] \in Seq({"exit", "stop", "funExited"}) /\ mail'["task"] \in Seq(Words)
      BY <2>1, WorkersAssumption DEF WorkersInd, WorkersIInv, PostsHold
    <3> QED
      BY <2>1, <3>1, PartOf
  <2>3. FunNotAbandoned'
    <3>1. cut => cut'
      BY <1>2, Zenon
    <3> QED
      BY <1>1, <1>2, <3>1 DEF FunNotAbandoned
  <2>4. TaskHolds'
    BY <1>1, <1>2, <1>4, <2>1 DEF TaskHolds
  <2> QED
    BY <1>2, <1>3, <2>1, <2>2, <2>3, <2>4, TaskStepFrame
<1>5. CASE mail' = Sent("task", "exit") /\ UNCHANGED <<alive, cut>>
  <2>1. /\ mail' \in [Procs -> Seq(Words)] /\ mail'["rec"] = mail["rec"]
        /\ mail'["task"] \in Seq({"exit", "stop", "funExited"})
        /\ \A i \in DOMAIN mail'["task"] :
              mail'["task"][i] = "exit" \/ (i \in DOMAIN mail["task"] /\ mail'["task"][i] = mail["task"][i])
    BY <1>5, TaskMail
  <2>2. TaskHolds' /\ FunNotAbandoned'
    BY <1>1, <1>2, <1>5, <2>1 DEF TaskHolds, FunNotAbandoned
  <2> QED
    BY <1>2, <1>3, <1>5, <2>1, <2>2, TaskStepFrame
<1>6. CASE UNCHANGED <<alive, mail, cut>>
  <2>1. TaskHolds' /\ FunNotAbandoned'
    BY <1>1, <1>2, <1>6 DEF TaskHolds, FunNotAbandoned
  <2>2. mail \in [Procs -> Seq(Words)] /\ mail["task"] \in Seq({"exit", "stop", "funExited"})
    BY RecMail DEF WorkersInd, WorkersIInv, PostsHold
  <2> QED
    BY <1>2, <1>3, <1>6, <2>1, <2>2, TaskStepFrame
<1>7. \/ Exited("task") /\ (tpc = "returned" \/ cut' = TRUE)
      \/ mail' = Sent("task", "exit") /\ UNCHANGED <<alive, cut>>
      \/ UNCHANGED <<alive, mail, cut>>
  BY Zenon DEF TaskReturned, TaskParentSignal, TaskSignalled, CutOff
<1> QED
  BY <1>4, <1>5, <1>6, <1>7

\* Every step keeps the invariant.
LEMMA WorkersKeep == WorkersInd /\ [WorkersNext]_workersVars => WorkersInd'
<1> SUFFICES ASSUME WorkersInd, [WorkersNext]_workersVars PROVE WorkersInd'
  OBVIOUS
<1>1. CASE (\E t \in Timers : TimerStep(t)) /\ UNCHANGED <<recVars, taskVars, ticking>>
  BY <1>1, TimerHolds
<1>2. CASE RecStep /\ UNCHANGED <<taskVars, ticking>>
  BY <1>2, RecReceivesHolds, TaskFunReturnsHolds, RecRunnableEnds, RecExits, RecStopHolds DEF RecStep
<1>3. CASE TaskStep /\ UNCHANGED <<recVars, ticking>>
  BY <1>3, TaskMovesHolds, TaskReceivesHolds, TaskExitsHolds DEF TaskStep, TaskRuns
<1>4. CASE RecEvent /\ UNCHANGED <<taskVars, ticking>>
  BY <1>4, RecInitHolds, RecRunnableEnds, RecExits, RecStopHolds DEF RecEvent
<1>5. CASE TaskEvent /\ UNCHANGED <<recVars, ticking>>
  BY <1>5, TaskHearsHolds, TaskExitsHolds DEF TaskEvent
<1>6. CASE OwnerSetsTimer \/ OwnerCancelsTimer \/ OwnerExits
  BY <1>6, OwnerHolds
<1>7. CASE UNCHANGED workersVars
  <2>1. UNCHANGED <<recVars, ticking, timer, alive, mail, taskVars>>
    BY <1>7 DEF workersVars, timerVars
  <2>2. TaskTypeOK' /\ TaskHolds' /\ FunNotAbandoned'
    BY <2>1, Zenon DEF WorkersInd, WorkersIInv, WorkersTypeOK, TaskTypeOK, TaskHolds, FunNotAbandoned, taskVars
  <2>3. mail["task"] \in Seq({"exit", "stop", "funExited"})
    BY DEF WorkersInd, WorkersIInv, PostsHold
  <2> QED
    BY <2>1, <2>2, <2>3, RecMail, TaskStepFrame
<1> QED
  BY <1>1, <1>2, <1>3, <1>4, <1>5, <1>6, <1>7 DEF WorkersNext, WorkersStep, WorkersEvent

\* Both are kept for ever.
LEMMA WorkersInductive == WorkersSpec => []WorkersInd
<1>1. WorkersInit => WorkersInd
  BY InitHolds
<1>2. WorkersInd /\ [WorkersNext]_workersVars => WorkersInd'
  BY WorkersKeep
<1> QED
  BY <1>1, <1>2, PTL DEF WorkersSpec

\* "only one TaskFun is executing at any one time" (recurring_task.go:7), one is on its
\* way as long as the process runs, and none begins once Stop has returned.
THEOREM WorkersInvariant == WorkersSpec => []WorkersIInv
<1>1. WorkersInd => WorkersIInv
  BY DEF WorkersInd
<1> QED
  BY <1>1, WorkersInductive, PTL

\* The cleanup of a task has run when its Runnable leaves the TaskFun running (task.go:6),
\* unless an exit signal ended its process: a Kill, or any signal before TrapExit.
THEOREM NoFunAbandoned == WorkersSpec => []FunNotAbandoned
<1>1. WorkersInd => FunNotAbandoned
  BY DEF WorkersInd
<1> QED
  BY <1>1, WorkersInductive, PTL
=============================================================================

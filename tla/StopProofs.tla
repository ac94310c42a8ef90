------------------------------ MODULE StopProofs ------------------------------
(***************************************************************************)
(* What may be believed when a call that waits for an end has returned.    *)
(* First App.Stop: the application calls its CancelFunc at most once, and  *)
(* Stop is synchronous, for any number of callers.  Then Wait of a         *)
(* TestReceiver: no verdict without its reason, for every set of           *)
(* expectations a test may set.                                            *)
(***************************************************************************)
EXTENDS Application, Receiver, TLAPS

(* App.Stop.                                                                *)


Early == {"Start", "TrapExit", "ack"}
Ending == {"handleTerminate", "stopSup", "cancel"}

\* Where the Runnable is says what Start has returned, and what the root supervisor is.
Stages ==
  /\ pc \in Early => start = "none"
  /\ pc \in Ending \cup {"loop"} => start = "app"
  /\ pc = "Start" => sup = "none"
  /\ sup = "none" => pc \in {"Start", "returned"} /\ start # "app"
  /\ sup = "asked" => pc = "stopSup"
  /\ pc = "cancel" => sup = "down"

\* Who has called the CancelFunc: nobody before the loop is left, then handleExitMsg or
\* nobody, and after Terminate one of the two.
Cancels ==
  /\ pc \in Early \cup {"loop"} => cancels = 0 /\ ~stopped
  /\ pc \in Ending => cancels = IF stopped THEN 1 ELSE 0
  /\ pc = "returned" => cancels \in 0..1 /\ (stopped => cancels = 1)

\* A process that is not up has either been killed by its supervisor's signal or come to
\* the end of its Runnable; an App that got that far has cancelled unless it was killed.
Endings ==
  /\ signalled => sup = "down"
  /\ proc = "exiting" => signalled
  /\ proc = "over" => pc = "returned"
  /\ pc = "returned" /\ start = "app" =>
       sup = "down" /\ (cancels = 1 \/ (signalled /\ proc # "up"))

\* Whoever was told that the process is gone was told the truth.
Told == \A s \in Stoppers :
  /\ stopper[s] # "idle" => start = "app"
  /\ stopper[s] \in {"ok", "gone"} => proc # "up"

Strong == AppTypeOK /\ Stages /\ Cancels /\ Endings /\ Told

\* The initial state satisfies the strengthening.
LEMMA StrongInit == AppInit => Strong
<1> SUFFICES ASSUME AppInit PROVE Strong
  OBVIOUS
<1>1. AppTypeOK
  <2>1. mailbox \in Seq({"exit", "stop", "stray"})
    BY DEF AppInit
  <2>2. stopper \in [Stoppers -> {"idle", "Stop", "wait", "ok", "gone", "timeout"}]
    BY DEF AppInit
  <2>3. trap \in BOOLEAN /\ stopped \in BOOLEAN /\ signalled \in BOOLEAN /\ flag \in BOOLEAN
    BY Zenon DEF AppInit
  <2>4. cancels \in 0..2
    BY DEF AppInit
  <2>5. /\ pc \in {"Start", "TrapExit", "ack", "loop", "handleTerminate", "stopSup",
                  "cancel", "returned"}
        /\ proc \in {"up", "exiting", "over"}
        /\ sup \in {"none", "up", "asked", "down"}
        /\ start \in {"none", "app", "panic"}
    BY DEF AppInit
  <2> QED
    BY <2>1, <2>2, <2>3, <2>4, <2>5, Zenon DEF AppTypeOK
<1>2. Stages /\ Cancels /\ Endings
  BY DEF AppInit, Stages, Cancels, Endings, Early, Ending
<1>3. Told
  BY DEF AppInit, Told
<1> QED
  BY <1>1, <1>2, <1>3 DEF Strong

\* The steps of the application's Runnable keep it.
LEMMA RunnableKeeps ==
  ASSUME Strong, RunnableStep
  PROVE  Strong'
<1> USE DEF Strong, AppTypeOK, Stages, Cancels, Endings, Told, Early, Ending
<1>1. CASE AppStart
  BY <1>1 DEF AppStart
<1>2. CASE AppTraps
  BY <1>2 DEF AppTraps, handle
<1>3. CASE AppStarted
  BY <1>3 DEF AppStarted
<1>4. CASE HandleExitMsg
  BY <1>4 DEF HandleExitMsg, Taken, handle
<1>5. CASE HandleStop
  BY <1>5 DEF HandleStop, Taken, handle
<1>6. CASE NoHandler
  BY <1>6 DEF NoHandler, Taken, handle
<1>7. CASE LoopCloses
  BY <1>7 DEF LoopCloses, handle
<1>8. CASE HandleTerminate
  BY <1>8 DEF HandleTerminate, handle
<1>9. CASE SupStopped
  BY <1>9 DEF SupStopped, handle
<1>10. CASE EnsureCancelled
  BY <1>10 DEF EnsureCancelled, handle
<1> QED
  BY <1>1, <1>2, <1>3, <1>4, <1>5, <1>6, <1>7, <1>8, <1>9, <1>10, RunnableStep DEF RunnableStep

\* So do the steps of its process, of its root supervisor and of those who send to it.
LEMMA OthersKeep ==
  ASSUME Strong, AppEnds \/ SupEnds \/ SupSignals \/ SendStray
  PROVE  Strong'
<1> USE DEF Strong, AppTypeOK, Stages, Cancels, Endings, Told, Early, Ending
<1>1. CASE AppEnds
  BY <1>1 DEF AppEnds, self, handle
<1>2. CASE SupEnds
  BY <1>2 DEF SupEnds, self, handle
<1>3. CASE SupSignals
  BY <1>3 DEF SupSignals, handle
<1>4. CASE SendStray
  BY <1>4 DEF SendStray, handle
<1> QED
  BY <1>1, <1>2, <1>3, <1>4

\* And so does every App.Stop.
LEMMA StopKeeps ==
  ASSUME Strong, NEW s \in Stoppers, AppStop(s) \/ StopStep(s)
  PROVE  Strong'
<1> USE DEF Strong, AppTypeOK, Stages, Cancels, Endings, Told, Early, Ending
<1>1. CASE AppStop(s)
  BY <1>1 DEF AppStop, self
<1>2. CASE StopRequests(s)
  BY <1>2 DEF StopRequests
<1>3. CASE StopSeesDown(s)
  BY <1>3 DEF StopSeesDown, self
<1>4. CASE StopTimesOut(s)
  BY <1>4 DEF StopTimesOut, self
<1> QED
  BY <1>1, <1>2, <1>3, <1>4 DEF StopStep

\* The strengthening says what the runs check.
LEMMA StrongImplies == Strong => AppIInv
<1> SUFFICES ASSUME Strong PROVE AppIInv
  OBVIOUS
<1>1. AppTypeOK
  BY DEF Strong
<1>2. /\ cancels <= 1 /\ (stopped => cancels = 1)
      /\ pc \notin {"handleTerminate", "stopSup", "cancel", "returned"} => ~stopped
      /\ pc # "returned" /\ cancels = 1 => stopped
  BY DEF Strong, AppTypeOK, Cancels, Early, Ending
<1>3. StopIsSynchronous
  <2> SUFFICES ASSUME NEW s \in Stoppers, stopper[s] \in {"ok", "gone"}
               PROVE  sup = "down" /\ (cancels = 1 \/ (signalled /\ proc # "up"))
    BY DEF StopIsSynchronous
  <2>1. start = "app" /\ proc # "up"
    BY DEF Strong, Told
  <2> QED
    BY <2>1 DEF Strong, AppTypeOK, Endings
<1> QED
  BY <1>1, <1>2, <1>3 DEF AppIInv

\* The CancelFunc is called at most once, whichever of the root supervisor's end, the
\* stopRequests and a stray message comes first, and an App.Stop that returns before its
\* time is over leaves no process, no supervision tree and no live context behind.
THEOREM CancelledOnce == AppSpec => []AppIInv
<1>1. Strong /\ [AppNext]_appVars => Strong'
  <2> SUFFICES ASSUME Strong, [AppNext]_appVars PROVE Strong'
    OBVIOUS
  <2>1. CASE RunnableStep
    BY <2>1, RunnableKeeps
  <2>2. CASE AppEnds \/ SupEnds \/ SupSignals \/ SendStray
    BY <2>2, OthersKeep
  <2>3. CASE \E s \in Stoppers : AppStop(s) \/ StopStep(s)
    BY <2>3, StopKeeps
  <2>4. CASE UNCHANGED appVars
    BY <2>4 DEF appVars, Strong, AppTypeOK, Stages, Cancels, Endings, Told, Early, Ending
  <2> QED
    BY <2>1, <2>2, <2>3, <2>4 DEF AppNext
<1> QED
  BY <1>1, StrongInit, StrongImplies, PTL DEF AppSpec
-----------------------------------------------------------------------------
(* TestReceiver.                                                            *)

\* What a test may set.
LEMMA SetupIs ==
  ASSUME setup \in Setups
  PROVE  /\ Ids \subseteq Nat \ {0}
         /\ \A e \in Ids : /\ setup[e].min \in Nat /\ setup[e].max \in Nat
                           /\ setup[e].min <= setup[e].max
                           /\ setup[e].pre \subseteq Ids
<1>1. setup \in Seq(Expectations)
  BY ReceiverAssumption
<1>2. Ids = 1..Len(setup) /\ Len(setup) \in Nat
  BY <1>1 DEF Ids
<1>3. \A e \in Ids : setup[e] \in Expectations
  BY <1>1, <1>2
<1>4. \A e \in Ids : setup[e].pre \subseteq Ids /\ setup[e].min <= setup[e].max
  BY ReceiverAssumption DEF Ids
<1> QED
  BY <1>2, <1>3, <1>4 DEF Expectations

\* What is inductive: a Wait that is content is honest, because it has its verdict first.
Honest == IInv /\ WaitIsHonest

\* Before the first message nothing has been called, and nothing said.
LEMMA InitHolds == Init => Honest
<1> SUFFICES ASSUME Init PROVE Honest
  OBVIOUS
<1>1. /\ Ids \subseteq Nat \ {0}
      /\ \A e \in Ids : /\ setup[e].min \in Nat /\ setup[e].max \in Nat
                        /\ setup[e].min <= setup[e].max
                        /\ setup[e].pre \subseteq Ids
  BY SetupIs DEF Init
<1>2. TypeOK
  <2>1. failed \in BOOLEAN /\ told \in BOOLEAN
    BY Zenon DEF Init
  <2>2. numCalls \in [Ids -> 0..(MaxMsgs + 1)] /\ done \in [Ids -> 0..(MaxMsgs + 1)]
    BY ReceiverAssumption DEF Init
  <2>3. pre \in [Ids -> SUBSET Ids]
    BY <1>1 DEF Init
  <2>4. inbox \in Seq({"msg", "exit", "TestExit"}) /\ msgs \in 0..MaxMsgs
    BY ReceiverAssumption DEF Init
  <2> QED
    BY <2>1, <2>2, <2>3, <2>4 DEF Init, TypeOK
<1>3. CountsHold
  BY <1>1 DEF Init, CountsHold, Locked, Alive
<1>4. OrderHolds
  BY <1>1 DEF Init, OrderHolds, Satisfied
<1>5. VerdictHolds /\ WaitIsHonest
  BY DEF Init, VerdictHolds, WaitIsHonest
<1> QED
  BY <1>2, <1>3, <1>4, <1>5 DEF Honest, IInv

\* Nothing that the receiver has counted is taken back.
LEMMA ChecksHold ==
  ASSUME Honest, Check
  PROVE  Honest'
<1> USE DEF Honest, IInv
<1>1. /\ Ids \subseteq Nat \ {0}
      /\ \A e \in Ids : setup[e].min \in Nat /\ setup[e].max \in Nat /\ setup[e].pre \subseteq Ids
      /\ Ids' = Ids /\ setup' = setup
  BY SetupIs DEF TypeOK, Check, Ids
<1>2. /\ inbox # <<>> /\ inbox' = Tail(inbox) /\ Head(inbox) # "TestExit"
      /\ inbox \in Seq({"msg", "exit", "TestExit"})
      /\ rpc = "select" /\ current = 0
      /\ UNCHANGED <<setup, why, expected, pre, done, test, verdict, waiter, dep, told, msgs>>
  BY DEF Check, TypeOK, CountsHold, Locked, testVars
<1>3. /\ inbox' \in Seq({"msg", "exit", "TestExit"}) /\ Len(inbox') = Len(inbox) - 1
      /\ Len(inbox) \in Nat
      /\ (\E i \in DOMAIN inbox : inbox[i] = "TestExit") => \E i \in DOMAIN inbox' : inbox'[i] = "TestExit"
  <2>1. inbox' \in Seq({"msg", "exit", "TestExit"}) /\ Len(inbox') = Len(inbox) - 1 /\ Len(inbox) \in Nat
    BY <1>2
  <2>2. ASSUME NEW i \in DOMAIN inbox, inbox[i] = "TestExit"
        PROVE  i - 1 \in DOMAIN inbox' /\ inbox'[i - 1] = "TestExit"
    <3>1. i # 1
      BY <1>2, <2>2
    <3> QED
      BY <1>2, <2>1, <2>2, <3>1
  <2> QED
    BY <2>1, <2>2
<1>4. CASE Matching(Head(inbox)) = {} /\ failed' = TRUE /\ UNCHANGED <<rpc, current, numCalls>>
  <2>1. TypeOK'
    BY <1>1, <1>2, <1>3, <1>4 DEF TypeOK
  <2>2. CountsHold'
    BY <1>1, <1>2, <1>3, <1>4 DEF CountsHold, Locked, Alive, TypeOK
  <2>3. OrderHolds'
    BY <1>1, <1>2, <1>4 DEF OrderHolds, Satisfied
  <2>4. VerdictHolds' /\ WaitIsHonest'
    BY <1>1, <1>2, <1>4 DEF VerdictHolds, WaitIsHonest, Satisfied, Alive
  <2> QED
    BY <2>1, <2>2, <2>3, <2>4
<1>5. ASSUME NEW e \in Ids, IsMatch(e, Head(inbox)), current' = e, rpc' = "Do",
             numCalls' = [numCalls EXCEPT ![e] = @ + 1], UNCHANGED failed
      PROVE  Honest'
  <2>1. /\ e \in expected /\ numCalls[e] < setup[e].max
        /\ \A p \in pre[e] : Satisfied(p)
        /\ numCalls[e] \in Nat /\ e # 0
    BY <1>1, <1>5 DEF IsMatch, Matching, Exhausted, TypeOK
  <2>2. \A f \in Ids : numCalls[f] \in Nat /\ numCalls'[f] = IF f = e THEN numCalls[f] + 1 ELSE numCalls[f]
    BY <1>5 DEF TypeOK
  <2>3. \A f \in Ids : Satisfied(f) => Satisfied(f)'
    <3>1. \A f \in Ids : numCalls[f] <= numCalls'[f]
      BY <2>2
    <3>2. \A f \in Ids : numCalls'[f] \in Nat
      BY <2>2
    <3> QED
      BY SMTT(30), <1>1, <1>2, <2>2, <3>1, <3>2 DEF Satisfied
  <2>4. CountsHold'
    <3>1. ASSUME NEW f \in Ids
          PROVE  /\ done[f] = numCalls'[f] - (IF e = f THEN 1 ELSE 0)
                 /\ numCalls'[f] <= setup[f].max
                 /\ numCalls'[f] <= msgs + (IF told THEN 1 ELSE 0)
                 /\ numCalls'[f] + Len(inbox') <=
                      msgs + (IF told THEN 1 ELSE 0) + (IF test = "wg" THEN 1 ELSE 0)
      <4>1. /\ numCalls[f] + Len(inbox) <= msgs + (IF told THEN 1 ELSE 0) + (IF test = "wg" THEN 1 ELSE 0)
            /\ test = "wg" => Len(inbox') >= 1
            /\ msgs \in Nat
            /\ done[f] = numCalls[f] /\ numCalls[f] <= setup[f].max /\ f # 0
        BY <1>1, <1>2, <1>3 DEF CountsHold, Alive, TypeOK
      <4> DEFINE arrived == msgs + (IF told THEN 1 ELSE 0)
                 wg == IF test = "wg" THEN 1 ELSE 0
      <4>2. arrived \in Nat /\ wg \in {0, 1} /\ (wg = 1 => Len(inbox') >= 1)
            /\ numCalls[f] + Len(inbox) <= arrived + wg
        BY <4>1
      <4>3. numCalls[f] \in Nat /\ numCalls'[f] \in {numCalls[f], numCalls[f] + 1}
            /\ Len(inbox) \in Nat /\ Len(inbox') = Len(inbox) - 1 /\ Len(inbox') \in Nat
        BY <1>3, <2>2
      <4> HIDE DEF arrived, wg
      <4>4. numCalls[f] + 1 <= arrived /\ numCalls'[f] + Len(inbox') <= arrived + wg
        BY <4>2, <4>3
      <4>5. numCalls'[f] <= arrived
        BY <4>2, <4>3, <4>4
      <4>6. done[f] = numCalls'[f] - (IF e = f THEN 1 ELSE 0) /\ numCalls'[f] <= setup[f].max
        <5>1. setup[f].max \in Nat /\ numCalls[f] \in Nat
          BY <1>1, <4>3
        <5>2. CASE f = e
          BY <2>1, <2>2, <4>1, <5>1, <5>2
        <5>3. CASE f # e
          BY <2>2, <4>1, <5>1, <5>3
        <5> QED
          BY <5>2, <5>3
      <4> QED
        BY <4>4, <4>5, <4>6 DEF arrived, wg
    <3>2. Locked' /\ current' # 0 /\ (Alive => Alive')
      BY <1>5, <2>1 DEF Locked, Alive
    <3> QED
      BY <1>1, <1>2, <1>3, <1>5, <3>1, <3>2 DEF CountsHold, Alive
  <2>5. TypeOK'
    <3>1. numCalls' \in [Ids -> 0..(MaxMsgs + 1)]
      <4>1. \A f \in Ids : numCalls'[f] \in Nat /\ numCalls'[f] <= msgs + 1
        BY <1>1, <1>2, <2>2, <2>4 DEF CountsHold, TypeOK
      <4> QED
        BY <1>5, <4>1, ReceiverAssumption DEF TypeOK
    <3> QED
      BY <1>1, <1>2, <1>3, <1>5, <3>1 DEF TypeOK
  <2>6. OrderHolds'
    <3>1. \A p \in setup[e].pre : Satisfied(p)
      BY <1>1, <1>2, <2>1 DEF OrderHolds, CountsHold
    <3> QED
      BY <1>1, <1>2, <2>2, <2>3, <3>1 DEF OrderHolds
  <2>7. VerdictHolds'
    BY <1>1, <1>2, <1>5, <2>2, <2>3 DEF VerdictHolds, Alive
  <2>8. WaitIsHonest'
    BY <1>1, <1>2, <1>5 DEF WaitIsHonest
  <2> QED
    BY <2>4, <2>5, <2>6, <2>7, <2>8
<1> QED
  BY <1>4, <1>5 DEF Check

\* The Do returns: its expectation is counted, and may go, with what it came After.
LEMMA DoHolds ==
  ASSUME Honest, DoReturns
  PROVE  Honest'
<1> USE DEF Honest, IInv
<1>1. /\ Ids \subseteq Nat \ {0}
      /\ \A e \in Ids : /\ setup[e].min \in Nat /\ setup[e].max \in Nat
                        /\ setup[e].min <= setup[e].max /\ setup[e].pre \subseteq Ids
      /\ Ids' = Ids /\ setup' = setup
  BY SetupIs DEF TypeOK, DoReturns, Ids
<1>2. /\ rpc = "Do" /\ rpc' = "select" /\ current' = 0 /\ failed' \in {failed, TRUE}
      /\ done' = [done EXCEPT ![current] = @ + 1]
      /\ expected' = expected \ Removed(current)
      /\ pre' = [pre EXCEPT ![current] = {}]
      /\ UNCHANGED <<setup, inbox, why, numCalls, test, verdict, waiter, dep, told, msgs>>
  BY DEF DoReturns, testVars
<1>3. current \in Ids /\ current # 0
  BY <1>2 DEF TypeOK, CountsHold, Locked
<1>4. \A f \in Ids :
        /\ numCalls[f] \in 0..(MaxMsgs + 1) /\ done[f] \in 0..(MaxMsgs + 1)
        /\ done'[f] = numCalls[f]
        /\ done'[f] = IF f = current THEN done[f] + 1 ELSE done[f]
  BY <1>2, <1>3 DEF TypeOK, CountsHold
<1>5. TypeOK'
  <2>1. done' \in [Ids -> 0..(MaxMsgs + 1)]
    BY <1>2, <1>4 DEF TypeOK
  <2>2. pre' \in [Ids -> SUBSET Ids] /\ expected' \subseteq Ids
    BY <1>2 DEF TypeOK
  <2>3. failed' \in BOOLEAN
    BY <1>2, Zenon DEF TypeOK
  <2> QED
    BY <1>1, <1>2, <2>1, <2>2, <2>3 DEF TypeOK
<1>6. CountsHold'
  <2>1. ~Locked' /\ (Alive' <=> Alive)
    BY <1>2 DEF Locked, Alive
  <2>2. \A f \in Ids : done'[f] = numCalls'[f] - (IF current' = f THEN 1 ELSE 0)
    BY <1>1, <1>2, <1>4
  <2> QED
    BY <1>1, <1>2, <2>1, <2>2 DEF CountsHold
<1>7. Satisfied(current) \/ ~Exhausted(current)
  <2>1. numCalls[current] \in Nat
    BY <1>3, <1>4
  <2>2. /\ setup[current].min \in Nat /\ setup[current].max \in Nat
        /\ setup[current].min <= setup[current].max
    BY <1>1, <1>3
  <2> QED
    BY <2>1, <2>2 DEF Satisfied, Exhausted
<1>8. \A p \in setup[current].pre : Satisfied(p)
  <2>1. numCalls[current] > 0
    BY <1>3, <1>4
  <2> QED
    BY <1>3, <2>1 DEF OrderHolds
<1>9. \A f \in Ids : f \in expected' \/ Satisfied(f)
  BY <1>2, <1>3, <1>7, <1>8 DEF OrderHolds, Removed, TypeOK
<1>10. OrderHolds'
  <2>1. ASSUME NEW f \in Ids
        PROVE  /\ pre'[f] = IF done'[f] = 0 THEN setup[f].pre ELSE {}
               /\ done'[f] > 0 => expected' \cap setup[f].pre = {}
    <3>1. CASE f = current
      <4>1. pre'[f] = {} /\ done'[f] > 0
        BY <1>2, <1>3, <1>4, <3>1 DEF TypeOK
      <4>2. expected' \cap setup[f].pre = {}
        <5>1. done[f] = 0 => pre[f] = setup[f].pre
          BY DEF OrderHolds
        <5>2. done[f] # 0 => expected \cap setup[f].pre = {}
          BY <1>4 DEF OrderHolds
        <5>3. expected' \subseteq expected \ pre[f]
          BY <1>2, <3>1 DEF Removed
        <5> QED
          BY <5>1, <5>2, <5>3
      <4> QED
        BY <4>1, <4>2, <1>4
    <3>2. CASE f # current
      BY <1>2, <1>3, <1>4, <3>2 DEF OrderHolds, TypeOK
    <3> QED
      BY <3>1, <3>2
  <2> QED
    BY <1>1, <1>2, <1>9, <2>1 DEF OrderHolds, Satisfied
<1>11. VerdictHolds'
  <2>1. failed => failed'
    BY <1>2, Zenon
  <2> QED
    BY <1>1, <1>2, <2>1 DEF VerdictHolds, Satisfied, Alive
<1>12. WaitIsHonest'
  <2>1. verdict = "signalled" => 1 \in Ids
    BY DEF VerdictHolds
  <2>2. failed => failed'
    BY <1>2, Zenon
  <2>3. \A e \in Ids : done'[e] >= done[e] /\ done[e] \in Nat /\ done'[e] \in Nat
    BY <1>4
  <2> QED
    BY <1>1, <1>2, <2>1, <2>2, <2>3 DEF WaitIsHonest
<1> QED
  BY <1>5, <1>6, <1>10, <1>11, <1>12

\* The other steps of the receiver: a Do that is stuck, and the ends of its loop.
LEMMA RunnableHolds ==
  ASSUME Honest, DoIsStuck \/ ReceivesTestExit \/ ReceiveTimesOut
  PROVE  Honest'
<1> USE DEF Honest, IInv
<1>1. /\ Ids \subseteq Nat \ {0} /\ Ids' = Ids /\ setup' = setup
      /\ UNCHANGED <<setup, expected, pre, numCalls, done, test, verdict, waiter, dep, told, msgs, current>>
  BY SetupIs DEF TypeOK, DoIsStuck, ReceivesTestExit, ReceiveTimesOut, Return, set, testVars, Ids
<1>2. /\ rpc \in {"select", "Do"}
      /\ \/ rpc = "Do" /\ rpc' = "stuck" /\ UNCHANGED <<inbox, why, failed>>
         \/ rpc = "select" /\ rpc' = "returned" /\ inbox' = <<>> /\ why' \in {"normal", "timeout"}
  BY DEF DoIsStuck, ReceivesTestExit, ReceiveTimesOut, Return
<1>3. failed' = failed \/ failed' = TRUE
  BY Zenon DEF DoIsStuck, ReceivesTestExit, ReceiveTimesOut
<1>4. failed' \in BOOLEAN /\ (failed => failed')
  BY <1>3, Zenon DEF TypeOK
<1>5. TypeOK'
  <2>1. inbox' \in Seq({"msg", "exit", "TestExit"})
    <3>1. inbox' = inbox \/ inbox' = <<>>
      BY <1>2
    <3>2. <<>> \in Seq({"msg", "exit", "TestExit"})
      OBVIOUS
    <3> QED
      BY <3>1, <3>2, Zenon DEF TypeOK
  <2>2. rpc' \in {"stuck", "returned"} /\ why' \in {"none", "normal", "timeout"}
    BY <1>2 DEF TypeOK
  <2> QED
    BY <1>1, <1>4, <2>1, <2>2 DEF TypeOK
<1>6. CountsHold'
  BY <1>1, <1>2 DEF CountsHold, Locked, Alive, TypeOK
<1>7. OrderHolds'
  BY <1>1 DEF OrderHolds, Satisfied
<1>8. VerdictHolds' /\ WaitIsHonest'
  BY <1>1, <1>2, <1>4 DEF VerdictHolds, WaitIsHonest, Satisfied, Alive
<1> QED
  BY <1>5, <1>6, <1>7, <1>8

\* What Send makes of the inbox.
LEMMA SentIs ==
  ASSUME TypeOK, NEW type \in {"msg", "exit", "TestExit"}
  PROVE  /\ Sent(type) \in Seq({"msg", "exit", "TestExit"})
         /\ Alive => Len(Sent(type)) = Len(inbox) + 1 /\ Len(inbox) \in Nat
         /\ Alive => \A i \in DOMAIN inbox : i \in DOMAIN Sent(type) /\ Sent(type)[i] = inbox[i]
         /\ Alive => \E i \in DOMAIN Sent(type) : Sent(type)[i] = type
<1>1. inbox \in Seq({"msg", "exit", "TestExit"})
  BY DEF TypeOK
<1>2. CASE Alive
  <2>1. Sent(type) = Append(inbox, type)
    BY <1>2 DEF Sent
  <2>2. Len(inbox) + 1 \in DOMAIN Append(inbox, type) /\ Append(inbox, type)[Len(inbox) + 1] = type
    BY <1>1
  <2> QED
    BY <1>1, <2>1, <2>2
<1>3. CASE ~Alive
  BY <1>1, <1>3 DEF Sent
<1> QED
  BY <1>2, <1>3

\* The processes under test send, and the dependency ends.
LEMMA SurroundingsHold ==
  ASSUME Honest, Send \/ DepEnds \/ DepSignals
  PROVE  Honest'
<1> USE DEF Honest, IInv
<1>1. /\ Ids \subseteq Nat \ {0} /\ Ids' = Ids /\ setup' = setup
      /\ UNCHANGED <<setup, rpc, current, why, expected, pre, numCalls, done, failed, test, verdict, waiter>>
  BY SetupIs DEF TypeOK, Send, DepEnds, DepSignals, receiver, set, testVars, Ids
<1>2. OrderHolds'
  BY <1>1 DEF OrderHolds, Satisfied
<1>3. VerdictHolds' /\ WaitIsHonest'
  BY <1>1 DEF VerdictHolds, WaitIsHonest, Satisfied, Alive, TypeOK
<1>4. CASE DepEnds
  <2>1. UNCHANGED <<inbox, told, msgs>> /\ dep' = "down"
    BY <1>4 DEF DepEnds
  <2> QED
    BY <1>1, <1>2, <1>3, <2>1 DEF CountsHold, TypeOK, Locked, Alive
<1>5. CASE Send \/ DepSignals
  <2>1. PICK type \in {"msg", "exit"} :
          /\ inbox' = Sent(type)
          /\ msgs' + (IF told' THEN 1 ELSE 0) = msgs + (IF told THEN 1 ELSE 0) + 1
          /\ msgs' \in 0..MaxMsgs /\ dep' = dep /\ told' \in {told, TRUE}
    <3>1. CASE Send
      <4>1. inbox' = Sent("msg") /\ msgs' = msgs + 1 /\ told' = told /\ dep' = dep /\ msgs' \in 0..MaxMsgs
        BY <3>1, ReceiverAssumption DEF Send, TypeOK
      <4> QED
        BY <4>1 DEF TypeOK
    <3>2. CASE DepSignals
      <4>1. inbox' = Sent("exit") /\ msgs' = msgs /\ told' = TRUE /\ ~told /\ dep' = dep
        BY <3>2 DEF DepSignals
      <4> QED
        BY <4>1, ReceiverAssumption DEF TypeOK
    <3> QED
      BY <1>5, <3>1, <3>2
  <2>2. TypeOK'
    <3>1. told' \in BOOLEAN
      BY <2>1, Zenon DEF TypeOK
    <3>2. inbox' \in Seq({"msg", "exit", "TestExit"})
      BY <2>1, SentIs DEF TypeOK
    <3> QED
      BY <1>1, <2>1, <3>1, <3>2 DEF TypeOK
  <2>3. CountsHold'
    <3>1. /\ msgs \in Nat /\ msgs' \in Nat
          /\ \A e \in Ids : numCalls[e] \in Nat
          /\ Alive' <=> Alive
      BY <1>1, <2>1 DEF TypeOK, Alive
    <3>2. Alive /\ test = "wg" => \E i \in DOMAIN inbox' : inbox'[i] = "TestExit"
      BY <2>1, SentIs DEF CountsHold
    <3>3. Alive => Len(inbox') = Len(inbox) + 1 /\ Len(inbox) \in Nat
      BY <2>1, SentIs
    <3> DEFINE before == msgs + (IF told THEN 1 ELSE 0)
               after == msgs' + (IF told' THEN 1 ELSE 0)
               wg == IF test = "wg" THEN 1 ELSE 0
    <3>4. before \in Nat /\ wg \in Nat
      BY <3>1
    <3>5. after = before + 1
      BY <2>1, Zenon
    <3>6. \A e \in Ids : /\ numCalls[e] <= before
                         /\ Alive => numCalls[e] + Len(inbox) <= before + wg
      BY DEF CountsHold
    <3> HIDE DEF before, after, wg
    <3>7. \A e \in Ids : /\ numCalls[e] <= after
                         /\ Alive => numCalls[e] + Len(inbox') <= after + wg
      BY <3>1, <3>3, <3>4, <3>6, <3>5
    <3> QED
      BY <1>1, <3>1, <3>2, <3>7 DEF CountsHold, Locked, after, wg
  <2> QED
    BY <1>2, <1>3, <2>2, <2>3
<1> QED
  BY <1>4, <1>5

\* The test's goroutine: what it leaves alone.
LEMMA TestFrame ==
  ASSUME Honest, TestStep \/ TestGoesOn
  PROVE  /\ UNCHANGED <<setup, rpc, current, why, expected, pre, numCalls, done, told, msgs>>
         /\ Ids' = Ids /\ OrderHolds' /\ (Locked <=> Locked') /\ (Alive <=> Alive')
<1>1. UNCHANGED <<setup, rpc, current, why, expected, pre, numCalls, done, told, msgs>>
  BY DEF TestStep, TestGoesOn, WaitBegins, AsksMustWait, MustWaitIsOver, Poll, WaitOnBegins, PollSignal, WaitReturns,
         StopBegins, NewForDep, KillDep, DepsStopped, SendTestExit, Stopped, surroundings, receiver, set
<1> QED
  BY <1>1 DEF Honest, IInv, OrderHolds, Satisfied, Ids, Locked, Alive

\* Wait and its like: from "test" to "waited".
LEMMA WaitHolds ==
  ASSUME Honest,
         WaitBegins \/ AsksMustWait \/ MustWaitIsOver \/ Poll \/ WaitOnBegins \/ PollSignal \/ WaitReturns \/ TestGoesOn
  PROVE  Honest'
<1> USE DEF Honest, IInv
<1>1. /\ UNCHANGED <<setup, rpc, current, why, expected, pre, numCalls, done, told, msgs>>
      /\ Ids' = Ids /\ OrderHolds' /\ (Locked <=> Locked') /\ (Alive <=> Alive')
  BY TestFrame DEF TestStep
<1>2. UNCHANGED <<inbox, waiter, dep>> /\ test # "wg" /\ test' # "wg" /\ test' # "stopped"
  BY DEF WaitBegins, AsksMustWait, MustWaitIsOver, Poll, WaitOnBegins, PollSignal, WaitReturns, TestGoesOn,
         surroundings, At, Leave
<1>3. CountsHold'
  BY <1>1, <1>2 DEF CountsHold
<1>4. ASSUME NEW v \in {"failed", "satisfied", "signalled", "timeout"},
             test \in {"Wait", "mustWait", "poll", "signal"}, test' = "leave", verdict' = v, failed' = failed,
             v = "failed" => failed, v = "satisfied" => SetIsSatisfied,
             v = "signalled" => 1 \in Ids /\ numCalls[1] > 0
      PROVE  Honest'
  <2>1. TypeOK'
    BY <1>1, <1>2, <1>4 DEF TypeOK
  <2>2. v = "satisfied" => \A e \in Ids : Satisfied(e)
    BY <1>4 DEF SetIsSatisfied, OrderHolds
  <2>3. VerdictHolds' /\ WaitIsHonest'
    BY <1>1, <1>2, <1>4, <2>2 DEF VerdictHolds, WaitIsHonest, Satisfied
  <2> QED
    BY <1>1, <1>3, <2>1, <2>3
<1>5. ASSUME test \in {"test", "Wait", "must", "mustWait", "WaitOn", "waited"},
             test' \in {"Wait", "WaitOn", "Stop", "must", "mustWait", "poll", "signal"},
             test = "waited" => test' = "Stop", verdict' = verdict, failed' = failed
      PROVE  Honest'
  <2>1. TypeOK'
    BY <1>1, <1>2, <1>5 DEF TypeOK
  <2>2. VerdictHolds' /\ WaitIsHonest'
    BY <1>1, <1>2, <1>5 DEF VerdictHolds, WaitIsHonest, Satisfied
  <2> QED
    BY <1>1, <1>3, <2>1, <2>2
<1>6. CASE WaitReturns
  <2>1. /\ ~Locked /\ test = "leave" /\ test' = "waited" /\ verdict' = verdict
        /\ failed' = (failed \/ verdict = "timeout")
    BY <1>6 DEF WaitReturns, Unlocked, At
  <2>2. \A e \in Ids : done[e] = numCalls[e] /\ numCalls[e] \in Nat /\ setup[e].min \in Nat
    BY <2>1, SetupIs DEF CountsHold, TypeOK
  <2>3. failed' \in BOOLEAN
    BY <2>1, Zenon
  <2>4. (failed => failed') /\ (verdict = "timeout" => failed')
    BY <2>1
  <2>5. TypeOK'
    BY <1>1, <1>2, <2>1, <2>3 DEF TypeOK
  <2>6. VerdictHolds'
    BY <1>1, <1>2, <2>1, <2>4 DEF VerdictHolds, Satisfied
  <2>7. WaitIsHonest'
    BY <1>1, <2>1, <2>2, <2>4 DEF VerdictHolds, WaitIsHonest, Satisfied
  <2> QED
    BY <1>1, <1>3, <2>5, <2>6, <2>7
<1>7. CASE WaitBegins \/ AsksMustWait \/ MustWaitIsOver
  BY <1>4, <1>5, <1>7 DEF WaitBegins, AsksMustWait, MustWaitIsOver, Leave, At
<1>8. CASE Poll \/ PollSignal
  BY <1>4, <1>8 DEF Poll, PollSignal, Leave, At
<1>9. CASE WaitOnBegins \/ TestGoesOn
  BY <1>5, <1>9 DEF WaitOnBegins, TestGoesOn, At
<1> QED
  BY <1>6, <1>7, <1>8, <1>9

\* Stop: the dependency is killed, then the TestExit sent.
LEMMA StopHolds ==
  ASSUME Honest, StopBegins \/ NewForDep \/ KillDep \/ DepsStopped \/ SendTestExit \/ Stopped
  PROVE  Honest'
<1> USE DEF Honest, IInv
<1>1. /\ UNCHANGED <<setup, rpc, current, why, expected, pre, numCalls, done, told, msgs>>
      /\ Ids' = Ids /\ OrderHolds' /\ (Locked <=> Locked') /\ (Alive <=> Alive')
  BY TestFrame DEF TestStep
<1>2. /\ test \in {"Stop", "New", "kill", "depWG", "TestExit", "wg"}
      /\ test' \in {"New", "kill", "depWG", "TestExit", "wg", "stopped"}
      /\ verdict' = verdict /\ failed' \in {failed, TRUE}
      /\ test' = "stopped" => ~Alive
      /\ waiter' \in {waiter, "up", "lost"} /\ dep' \in {dep, "killed"}
      /\ \/ inbox' = inbox /\ (test' = "wg" <=> test = "wg")
         \/ inbox' = inbox /\ ~Alive
         \/ inbox' = Sent("TestExit") /\ test # "wg" /\ test' = "wg"
  BY DEF StopBegins, NewForDep, KillDep, DepsStopped, SendTestExit, Stopped, surroundings, At, Unlocked, Sent
<1>3. TypeOK'
  <2>1. failed' \in BOOLEAN
    BY <1>2, Zenon DEF TypeOK
  <2>2. inbox' \in Seq({"msg", "exit", "TestExit"})
    BY <1>2, SentIs DEF TypeOK
  <2> QED
    BY <1>1, <1>2, <2>1, <2>2 DEF TypeOK
<1>4. CountsHold'
  <2>1. CASE inbox' = inbox /\ (test' = "wg" <=> test = "wg")
    BY <1>1, <2>1 DEF CountsHold
  <2>2. CASE ~Alive
    BY <1>1, <2>2 DEF CountsHold
  <2>3. CASE inbox' = Sent("TestExit") /\ test # "wg" /\ test' = "wg" /\ Alive
    <3>1. /\ Len(inbox') = Len(inbox) + 1 /\ Len(inbox) \in Nat /\ msgs \in Nat
          /\ \E i \in DOMAIN inbox' : inbox'[i] = "TestExit"
      BY <2>3, SentIs DEF TypeOK
    <3>2. \A e \in Ids : numCalls[e] \in Nat
      BY DEF TypeOK
    <3> QED
      BY <1>1, <2>3, <3>1, <3>2 DEF CountsHold
  <2> QED
    BY <1>2, <2>1, <2>2, <2>3
<1>5. failed => failed'
  BY <1>2, Zenon
<1>6. VerdictHolds'
  BY <1>1, <1>2, <1>5 DEF VerdictHolds, Satisfied
<1>7. WaitIsHonest'
  BY <1>1, <1>2, <1>5 DEF WaitIsHonest
<1> QED
  BY <1>1, <1>3, <1>4, <1>6, <1>7

\* Every step keeps both.
LEMMA ReceiverInductive == Spec => []Honest
<1>1. Honest /\ [Next]_vars => Honest'
  <2> SUFFICES ASSUME Honest, [Next]_vars PROVE Honest'
    OBVIOUS
  <2>1. CASE ReceiverStep \/ ReceiveTimesOut
    BY <2>1, ChecksHold, DoHolds, RunnableHolds DEF ReceiverStep
  <2>2. CASE TestStep \/ TestGoesOn
    BY <2>2, WaitHolds, StopHolds DEF TestStep
  <2>3. CASE Send \/ DepEnds \/ DepSignals
    BY <2>3, SurroundingsHold
  <2>4. CASE UNCHANGED vars
    <3>1. /\ UNCHANGED <<setup, rpc, current, why, inbox, expected, pre, numCalls, done, failed,
                        test, verdict, waiter, dep, told, msgs>>
          /\ Ids' = Ids
      BY <2>4 DEF vars, receiver, set, testVars, Ids
    <3> QED
      BY <3>1 DEF Honest, IInv, TypeOK, CountsHold, OrderHolds, VerdictHolds, WaitIsHonest, Satisfied, Locked, Alive
  <2> QED
    BY <2>1, <2>2, <2>3, <2>4 DEF Next
<1> QED
  BY <1>1, InitHolds, PTL DEF Spec

\* No expectation is called more often than its maximum or before what it comes After,
\* nothing is taken off the set that is not satisfied, and a verdict has its reason.
THEOREM ReceiverIInv == Spec => []IInv
<1>1. Honest => IInv
  BY DEF Honest
<1> QED
  BY <1>1, ReceiverInductive, PTL

\* A Wait that returns and has not failed the test has seen every expectation satisfied.
THEOREM ReceiverWaitIsHonest == Spec => []WaitIsHonest
<1>1. Honest => WaitIsHonest
  BY DEF Honest
<1> QED
  BY <1>1, ReceiverInductive, PTL
=============================================================================

------------------------------- MODULE Receiver -------------------------------
(***************************************************************************)
(* erl/x/erltest: a TestReceiver, the process that stands for the test     *)
(* among the processes under test, and its Wait and Stop.                  *)
(*                                                                         *)
(* The receiver's Runnable checks each message against the expectations,   *)
(* with tr.mx locked, the Do callback included; the test's goroutine polls *)
(* the expectations under locks of their own.  But whatever that logs      *)
(* names the receiver, and its String takes tr.mx.  A dependency that was  *)
(* started by StartSupervised is linked to the receiver, which traps       *)
(* exits.  Stop kills it, waits for an exitwaiter, and sends TestExit.     *)
(*                                                                         *)
(* Of a message only the type matters here: matchers accept everything.  A *)
(* Call differs from a Cast in the reply.  Time is left out: a timeout may *)
(* come at any moment.                                                     *)
(***************************************************************************)
EXTENDS Naturals, Sequences

CONSTANTS
  Setups,   \* the sequences of expectations a test may set, see below
  MaxMsgs   \* bound on the messages sent to the receiver

\* An Expectation: newExpect, and the methods that change it.  Many is "close enough to
\* infinity".
Many == 100000000
NewExpect(type) == [type |-> type, min |-> 0, max |-> 1, pre |-> {}, locks |-> FALSE]
AnyTimes(e) == [e EXCEPT !.min = 0, !.max = Many]
MinTimes(e, n) == [e EXCEPT !.min = n, !.max = IF @ = 1 THEN Many ELSE @]
MaxTimes(e, n) == [e EXCEPT !.max = n, !.min = IF @ = 1 THEN 0 ELSE @]
Times(e, n) == [e EXCEPT !.min = n, !.max = n]
\* The other one is named by its place in the sequence.
After(e, i) == [e EXCEPT !.pre = @ \cup {i}]
\* A Do that calls a method of the receiver, Self for one; any other Do just runs.
DoLocks(e) == [e EXCEPT !.locks = TRUE]

\* An After may name any other expectation, set earlier or later.  A minimum above the
\* maximum, which MinTimes and MaxTimes let a test ask for, is left out: no messages can
\* satisfy it.
Expectations ==
  [type : {"msg", "exit"}, min : Nat, max : Nat, pre : SUBSET Nat, locks : BOOLEAN]

ASSUME ReceiverAssumption ==
  /\ MaxMsgs \in Nat
  /\ Setups \subseteq Seq(Expectations)
  /\ \A s \in Setups : \A i \in DOMAIN s : s[i].pre \subseteq DOMAIN s \ {i} /\ s[i].min <= s[i].max

VARIABLES
  setup,     \* the expectations of this test
  rpc,       \* the Runnable: "select", "Do" and "stuck" (mx locked), "returned"
  current,   \* the expectation whose Do runs
  inbox,     \* types of messages, and "TestExit"
  why,       \* what the Runnable returned
  expected,  \* the expectations that may match (FindMatch takes them by their numbers)
  pre,       \* of each expectation, those it still comes after
  numCalls,  \* how often each has matched
  done,      \* history: how often its Do has run
  failed,    \* t.Failed
  test,      \* where the test's goroutine is, in Wait and Stop
  verdict,   \* why Wait returns
  waiter,    \* the exitwaiter of the dependency
  dep,       \* the dependency: "none", "up", "killed" (told to), "down"
  told,      \* its exit signal has reached the receiver
  msgs       \* how many messages have been sent

receiver == <<rpc, current, why>>
set == <<expected, pre, numCalls, done>>
testVars == <<test, verdict, waiter>>
vars == <<setup, receiver, inbox, set, failed, testVars, dep, told, msgs>>

Ids == DOMAIN setup
Satisfied(e) == numCalls[e] >= setup[e].min
Exhausted(e) == numCalls[e] >= setup[e].max
Locked == rpc \in {"Do", "stuck"}
Alive == rpc # "returned"

TypeOK ==
  /\ setup \in Setups
  /\ rpc \in {"select", "Do", "stuck", "returned"} /\ why \in {"none", "normal", "timeout"}
  /\ current \in Ids \cup {0}
  /\ inbox \in Seq({"msg", "exit", "TestExit"})
  /\ expected \subseteq Ids /\ pre \in [Ids -> SUBSET Ids]
  /\ {numCalls, done} \subseteq [Ids -> 0..(MaxMsgs + 1)]
  /\ failed \in BOOLEAN /\ told \in BOOLEAN
  /\ test \in {"test", "Wait", "must", "mustWait", "poll", "WaitOn", "signal", "leave",
               "waited", "Stop", "New", "kill", "depWG", "TestExit", "wg", "stopped"}
  /\ verdict \in {"none", "failed", "satisfied", "signalled", "timeout"}
  /\ waiter \in {"none", "up", "lost"}
  /\ dep \in {"none", "up", "killed", "down"}
  /\ msgs \in 0..MaxMsgs

Init ==
  /\ setup \in Setups
  /\ rpc = "select" /\ current = 0 /\ inbox = <<>> /\ why = "none"
  /\ expected = Ids /\ pre = [i \in Ids |-> setup[i].pre]
  /\ numCalls = [i \in Ids |-> 0] /\ done = numCalls
  /\ failed = FALSE /\ test = "test" /\ verdict = "none" /\ waiter = "none"
  /\ dep \in {"none", "up"} /\ told = FALSE /\ msgs = 0
-----------------------------------------------------------------------------
(* The receiver's Runnable.                                                 *)

Matching(type) ==
  {e \in expected : /\ setup[e].type = type
                    /\ \A p \in pre[e] : Satisfied(p)
                    /\ ~Exhausted(e)}

\* FindMatch: the first expectation of the type that Matches.
IsMatch(e, type) == e \in Matching(type) /\ \A f \in Matching(type) : e <= f

\* A message that none of them matches fails the test, exhausted ones or not; one that
\* is matched is counted before its Do is called.
Check ==
  /\ rpc = "select" /\ inbox # <<>> /\ Head(inbox) # "TestExit" /\ inbox' = Tail(inbox)
  /\ \/ /\ Matching(Head(inbox)) = {}
        /\ failed' = TRUE /\ UNCHANGED <<rpc, current, numCalls>>
     \/ \E e \in Ids :
          /\ IsMatch(e, Head(inbox))
          /\ current' = e /\ rpc' = "Do" /\ numCalls' = [numCalls EXCEPT ![e] = @ + 1]
          /\ UNCHANGED failed
  /\ UNCHANGED <<setup, why, expected, pre, done, testVars, dep, told, msgs>>

\* Mutant: the prerequisites stay.
RemovedAlone(e) == IF Exhausted(e) THEN {e} ELSE {}
\* dropPrereqs, and what is not expected any longer after a call of e.
Removed(e) == pre[e] \cup (IF Exhausted(e) THEN {e} ELSE {})

\* Do has returned, or has panicked and failed the test.
DoReturns ==
  /\ rpc = "Do" /\ ~setup[current].locks /\ rpc' = "select" /\ current' = 0
  /\ failed' \in {failed, TRUE}
  /\ done' = [done EXCEPT ![current] = @ + 1]
  /\ expected' = expected \ Removed(current)
  /\ pre' = [pre EXCEPT ![current] = {}]
  /\ UNCHANGED <<setup, inbox, why, numCalls, testVars, dep, told, msgs>>

\* A Do that takes mx waits for itself.
DoIsStuck ==
  /\ rpc = "Do" /\ setup[current].locks /\ rpc' = "stuck"
  /\ UNCHANGED <<setup, current, inbox, why, set, failed, testVars, dep, told, msgs>>

Return(reason) == rpc' = "returned" /\ why' = reason /\ inbox' = <<>> /\ UNCHANGED current

ReceivesTestExit ==
  /\ rpc = "select" /\ inbox # <<>> /\ Head(inbox) = "TestExit" /\ Return("normal")
  /\ UNCHANGED <<setup, set, failed, testVars, dep, told, msgs>>

ReceiveTimesOut ==
  /\ rpc = "select" /\ Return("timeout") /\ failed' = TRUE
  /\ UNCHANGED <<setup, set, testVars, dep, told, msgs>>
-----------------------------------------------------------------------------
(* The processes under test.                                                *)

Sent(type) == IF Alive THEN Append(inbox, type) ELSE inbox

Send ==
  /\ msgs < MaxMsgs /\ msgs' = msgs + 1 /\ inbox' = Sent("msg")
  /\ UNCHANGED <<setup, receiver, set, failed, testVars, dep, told>>

\* By itself, by Stop's Kill, or by the signal of a receiver that has timed out.
DepEnds ==
  /\ dep \in {"up", "killed"} /\ dep' = "down"
  /\ UNCHANGED <<setup, receiver, inbox, set, failed, testVars, told, msgs>>
DepMustEnd == (dep = "killed" \/ why = "timeout") /\ DepEnds

DepSignals ==
  /\ dep = "down" /\ ~told /\ told' = TRUE /\ inbox' = Sent("exit")
  /\ UNCHANGED <<setup, receiver, set, failed, testVars, dep, msgs>>
-----------------------------------------------------------------------------
(* Wait, and WaitOnChannel, WaitOnFunc and WaitOnWaitGroup.                 *)

At(from, to) == test = from /\ test' = to
Unlocked == ~Locked
surroundings == <<setup, receiver, inbox, set, told, msgs>>

\* The test goes on to wait, or to its cleanup.
TestGoesOn ==
  /\ \/ test = "test" /\ test' \in {"Wait", "WaitOn", "Stop"}
     \/ At("waited", "Stop")
  /\ UNCHANGED <<surroundings, failed, verdict, waiter, dep>>

Leave(from, v) == At(from, "leave") /\ verdict' = v

WaitBegins ==
  /\ test = "Wait" /\ Unlocked
  /\ IF failed THEN Leave("Wait", "failed") ELSE At("Wait", "must") /\ UNCHANGED verdict
  /\ UNCHANGED <<surroundings, failed, waiter, dep>>

\* An expectation that has a maximum may be called too often yet: Wait lets the
\* waitTimeout pass first.
MustWait == \E e \in expected : setup[e].max < Many
AsksMustWait ==
  /\ At("must", IF MustWait THEN "mustWait" ELSE "poll")
  /\ UNCHANGED <<surroundings, failed, verdict, waiter, dep>>

\* The end of the waitTimeout is logged, in the receiver's name.
MustWaitIsOver ==
  /\ \/ failed /\ Leave("mustWait", "failed")
     \/ Unlocked /\ At("mustWait", "poll") /\ UNCHANGED verdict
  /\ UNCHANGED <<surroundings, failed, waiter, dep>>

\* IsSatisfied of the set knows of those that are expected still.
SetIsSatisfied == \A e \in expected : Satisfied(e)

\* Mutant: without the waitExit.
PollForEver ==
  /\ \/ failed /\ Leave("poll", "failed")
     \/ ~failed /\ SetIsSatisfied /\ Leave("poll", "satisfied")
  /\ UNCHANGED <<surroundings, failed, waiter, dep>>

Poll ==
  /\ \/ Leave("poll", "timeout")
     \/ failed /\ Leave("poll", "failed")
     \/ ~failed /\ SetIsSatisfied /\ Leave("poll", "satisfied")
  /\ UNCHANGED <<surroundings, failed, waiter, dep>>

\* What the others wait for is given by the first expectation's Do.
WaitOnBegins ==
  /\ Unlocked /\ At("WaitOn", "signal")
  /\ UNCHANGED <<surroundings, failed, verdict, waiter, dep>>

PollSignal ==
  /\ \/ 1 \in Ids /\ numCalls[1] > 0 /\ Leave("signal", "signalled")
     \/ Leave("signal", "timeout")
     \/ failed /\ Leave("signal", "failed")
  /\ UNCHANGED <<surroundings, failed, waiter, dep>>

\* Mutant: nothing is logged.
WaitReturnsAtOnce ==
  /\ At("leave", "waited")
  /\ failed' = (failed \/ verdict = "timeout")
  /\ UNCHANGED <<surroundings, verdict, waiter, dep>>
\* The log, and the error of the timeout, name the receiver.
WaitReturns ==
  /\ Unlocked /\ At("leave", "waited")
  /\ failed' = (failed \/ verdict = "timeout")
  /\ UNCHANGED <<surroundings, verdict, waiter, dep>>
-----------------------------------------------------------------------------
(* Stop.                                                                    *)

StopBegins ==
  /\ test = "Stop" /\ Unlocked
  /\ test' = IF ~Alive THEN "stopped" ELSE IF dep = "none" THEN "TestExit" ELSE "New"
  /\ UNCHANGED <<surroundings, failed, verdict, waiter, dep>>

\* exitwaiter.New, in the name of the receiver's process.  When that is gone, the
\* genStarter may take the exitwaiter with it, before or after New has returned.
NewForDep ==
  /\ Unlocked
  /\ \/ At("New", "kill") /\ waiter' = "up" /\ UNCHANGED failed
     \/ ~Alive /\ At("New", "kill") /\ waiter' = "lost" /\ UNCHANGED failed
     \/ ~Alive /\ At("New", "stopped") /\ failed' = TRUE /\ UNCHANGED waiter
  /\ UNCHANGED <<surroundings, verdict, dep>>

\* Mutant: the dependency is awaited only.
KillNoDep ==
  /\ At("kill", "depWG")
  /\ UNCHANGED <<surroundings, failed, verdict, waiter, dep>>
KillDep ==
  /\ At("kill", "depWG")
  /\ dep' = IF dep = "up" THEN "killed" ELSE dep
  /\ UNCHANGED <<surroundings, failed, verdict, waiter>>

\* The exitwaiter counts the WaitGroup down at the DownMsg.
DepsStopped ==
  /\ waiter = "up" /\ dep = "down" /\ Unlocked /\ At("depWG", "TestExit")
  /\ UNCHANGED <<surroundings, failed, verdict, waiter, dep>>

SendTestExit ==
  /\ Unlocked
  /\ IF Alive THEN At("TestExit", "wg") ELSE At("TestExit", "stopped")
  /\ inbox' = Sent("TestExit")
  /\ UNCHANGED <<setup, receiver, set, failed, verdict, waiter, dep, told, msgs>>

Stopped ==
  /\ ~Alive /\ At("wg", "stopped")
  /\ UNCHANGED <<surroundings, failed, verdict, waiter, dep>>

ReceiverStep == Check \/ DoReturns \/ DoIsStuck \/ ReceivesTestExit
TestStep ==
  \/ WaitBegins \/ AsksMustWait \/ MustWaitIsOver \/ Poll \/ WaitOnBegins \/ PollSignal
  \/ WaitReturns
  \/ StopBegins \/ NewForDep \/ KillDep \/ DepsStopped \/ SendTestExit \/ Stopped

Next ==
  \/ ReceiverStep \/ ReceiveTimesOut \/ TestStep \/ TestGoesOn \/ Send \/ DepEnds \/ DepSignals

Spec == Init /\ [][Next]_vars

\* Goroutines are scheduled, and a process that is killed ends.
FairSpec ==
  /\ Spec /\ WF_vars(ReceiverStep) /\ WF_vars(TestStep) /\ WF_vars(DepMustEnd)
-----------------------------------------------------------------------------
(* What is checked.                                                         *)

\* No expectation is called more often than it may, nor a message counted twice, and no Do
\* is skipped or run again.
CountsHold ==
  LET arrived == msgs + (IF told THEN 1 ELSE 0)
  IN
  /\ Locked <=> current # 0
  /\ Alive /\ test = "wg" => \E i \in DOMAIN inbox : inbox[i] = "TestExit"
  /\ \A e \in Ids :
       /\ done[e] = numCalls[e] - (IF current = e THEN 1 ELSE 0)
       /\ numCalls[e] <= setup[e].max /\ numCalls[e] <= arrived
       /\ Alive => numCalls[e] + Len(inbox) <= arrived + (IF test = "wg" THEN 1 ELSE 0)

\* None is called before those it comes after are satisfied, though these are removed
\* then.  What is removed has been satisfied, so that the set's IsSatisfied may pass over
\* it.
OrderHolds ==
  \A e \in Ids :
    /\ pre[e] = IF done[e] = 0 THEN setup[e].pre ELSE {}
    /\ numCalls[e] > 0 => \A p \in setup[e].pre : Satisfied(p)
    /\ done[e] > 0 => expected \cap setup[e].pre = {}
    /\ e \in expected \/ Satisfied(e)

\* Wait has its verdict when it leaves, of a set that was satisfied then; what it was told
\* stays true.  Stop sends TestExit or finds the receiver gone.
VerdictHolds ==
  /\ test \in {"test", "Wait", "must", "mustWait", "poll", "WaitOn", "signal"} =>
       verdict = "none"
  /\ verdict = "satisfied" => \A e \in Ids : Satisfied(e)
  /\ verdict = "signalled" => 1 \in Ids /\ numCalls[1] > 0
  /\ verdict = "failed" \/ (verdict = "timeout" /\ test # "leave") => failed
  /\ test = "stopped" => ~Alive

\* A Wait that is content has seen every expectation called as often as it must be, and
\* each of these calls' Do has returned: a test asserts on what a Do has written.  Wait
\* polls the counts, which run ahead of Do; that it logs the receiver's name makes it
\* wait for mx.
WaitIsHonest ==
  test \notin {"Wait", "must", "mustWait", "poll", "signal", "leave"} =>
    /\ verdict = "satisfied" => \A e \in Ids : done[e] >= setup[e].min
    /\ verdict = "signalled" => done[1] > 0
    /\ verdict \in {"failed", "timeout"} => failed

\* Types, what the counts and the order of expectations come to, and what Wait knows.
IInv == TypeOK /\ CountsHold /\ OrderHolds /\ VerdictHolds

\* Wait returns, by its timeout if by nothing else, unless a Do waits for itself.
WaitEnds == test \in {"Wait", "WaitOn"} ~> test = "waited" \/ rpc = "stuck"

\* Stop is the end of the dependency and of the receiver.  A Do that waits for itself
\* holds it up, and a receiver that times out meanwhile may, with the exitwaiter lost.
StopEndsAll ==
  test = "Stop" ~> \/ test = "stopped" /\ ~Alive /\ dep \in {"none", "down"}
                   \/ rpc = "stuck" \/ (why = "timeout" /\ waiter = "lost")
=============================================================================

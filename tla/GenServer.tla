------------------------------ MODULE GenServer ------------------------------
(***************************************************************************)
(* erl/genserver: one server, and the processes that Call and Stop it.     *)
(*                                                                         *)
(* The server is a process: its Runnable (pc) is GenServerS.Receive, a     *)
(* loop of callbacks; its signal loop (run) ends it, when the Runnable has *)
(* returned or an exit signal comes.  Call and Stop each spawn a helper    *)
(* process (genCaller, genStopper) that monitors the server, sends the     *)
(* request, waits for a reply or a DownMsg, and offers the outcome on an   *)
(* unbuffered channel; helper and caller have a timer each.                *)
(*                                                                         *)
(* The callbacks are the user's: they return, ask for a continuation,      *)
(* return an error, or panic.  Signals are those of Process.tla; whether a *)
(* monitor signal is lost while the server exits is a choice here.         *)
(***************************************************************************)
EXTENDS Naturals, Sequences

CONSTANTS
  Calls,        \* the uses of Call; each has a genCaller of its own
  Stops,        \* the uses of Stop
  StopReasons,  \* the reasons they may pass
  Patient,      \* the Stops without a timeout
  Errors,       \* the exit reasons that callbacks return as errors
  MaxCasts      \* bound on the other messages the server gets

ASSUME GenServerAssumption ==
  /\ Calls \cap Stops = {} /\ Patient \subseteq Stops
  /\ "none" \notin Calls \cup Stops
  /\ StopReasons \subseteq {"normal", "shutdown", "kill"}
  /\ Errors \subseteq {"normal", "shutdown", "error"}
  /\ MaxCasts \in Nat

Clients == Calls \cup Stops

VARIABLES
  trap,         \* the server traps exits
  StopReason,   \* the reason each Stop passes
  run,          \* the signal loop: "loop" is status running, then Process.exit
  exitReason,   \* what the process exits with
  signals,      \* the exit signals on their way to the server
  monitors,     \* the clients whose helper the server will send a DownMsg
  inbox,        \* the Runnable's inbox
  pc,           \* what Receive is doing
  client,       \* the Call it handles
  reason,       \* what Receive returns, and Terminate gets
  nets,         \* the deferred recovers above the callback that is running
  owed,         \* the Calls that got NoReply, to be answered with Reply
  helper,       \* where each genCaller or genStopper is
  box,          \* the inbox of each
  offer,        \* what each puts on its channel
  result,       \* what Call or Stop returned
  sent,         \* messages other than requests so far
  answer,       \* history: whether a Call was answered, and in the server's lifetime
  lost,         \* history: the helpers whose monitor signal was lost
  terminated,   \* history: calls of Terminate
  panics,       \* history: and how many of them panicked
  dropped       \* history: HandleContinue returned an error

flags   == <<trap, StopReason>>
server  == <<pc, client, reason, nets, owed>>
helpers == <<helper, box, offer, result>>
past    == <<answer, lost, terminated, panics, dropped>>
vars == <<flags, run, exitReason, signals, monitors, inbox, server, helpers, sent, past>>

Init ==
  /\ trap \in BOOLEAN /\ StopReason \in [Stops -> StopReasons]
  /\ run = "loop" /\ exitReason = "none"
  /\ signals = {} /\ monitors = {} /\ inbox = <<>>
  /\ pc \in {"receive", "continue"}       \* Init may ask for a continuation
  /\ client = "none" /\ reason = "none" /\ nets = 0 /\ owed = {}
  /\ helper = [k \in Clients |-> "none"]
  /\ box = [k \in Clients |-> <<>>]
  /\ offer = [k \in Clients |-> "none"]
  /\ result = [k \in Clients |-> "none"]
  /\ sent = 0
  /\ answer = [k \in Calls |-> "none"]
  /\ lost = {}
  /\ terminated = 0 /\ panics = 0 /\ dropped = FALSE

Running == run = "loop"

Message(t, k, why) == [type |-> t, client |-> k, reason |-> why]

\* A message to the server: a process that is not running takes none.
Arrives(m) == inbox' = IF Running THEN Append(inbox, m) ELSE inbox

\* Mutant: a DownMsg overtakes what is in the inbox.
DeliveredDownFirst(k, m) == IF m.type = "down" THEN <<m>> \o box[k] ELSE Append(box[k], m)

\* A message to a helper: one that has its outcome reads no more.
Delivered(k, m) == IF helper[k] \in {"offer", "ended"} THEN box[k] ELSE Append(box[k], m)

-----------------------------------------------------------------------------
(* Call, Stop, and their helpers.                                          *)

\* Call spawns the genCaller.
BeginCall(k) ==
  /\ k \in Calls /\ helper[k] = "none"
  /\ helper' = [helper EXCEPT ![k] = "check"]
  /\ UNCHANGED <<flags, run, exitReason, signals, monitors, inbox, server, box, offer, result,
                 sent, past>>

\* Stop looks whether the server is alive, and spawns the genStopper.
BeginStop(k) ==
  /\ k \in Stops /\ helper[k] = "none" /\ result[k] = "none"
  /\ IF Running
       THEN helper' = [helper EXCEPT ![k] = "check"] /\ UNCHANGED result
       ELSE result' = [result EXCEPT ![k] = "noproc"] /\ UNCHANGED helper
  /\ UNCHANGED <<flags, run, exitReason, signals, monitors, inbox, server, box, offer, sent, past>>

\* Monitor looks at the status: a server that is not running is down at once.
HelperChecks(k) ==
  /\ helper[k] = "check"
  /\ IF Running
       THEN helper' = [helper EXCEPT ![k] = "monitor"] /\ UNCHANGED box
       ELSE /\ helper' = [helper EXCEPT ![k] = "send"]
            /\ box' = [box EXCEPT ![k] = Append(@, Message("down", k, "noproc"))]
  /\ UNCHANGED <<flags, run, exitReason, signals, monitors, inbox, server, offer, result, sent, past>>

\* The monitor signal is enqueued; once the server has begun to exit it may come
\* too late to be seen.
HelperMonitors(k) ==
  /\ helper[k] = "monitor"
  /\ helper' = [helper EXCEPT ![k] = "send"]
  /\ \/ run \in {"loop", "notify"} /\ monitors' = monitors \cup {k} /\ UNCHANGED lost
     \/ run # "loop" /\ lost' = lost \cup {k} /\ UNCHANGED monitors
  /\ UNCHANGED <<flags, run, exitReason, signals, inbox, server, box, offer, result, sent,
                 answer, terminated, panics, dropped>>

\* The request: a CallRequest, a stopRequest, or a Kill signal.
HelperSends(k) ==
  /\ helper[k] = "send"
  /\ helper' = [helper EXCEPT ![k] = "wait"]
  /\ \/ k \in Calls /\ Arrives(Message("call", k, "none")) /\ UNCHANGED signals
     \/ /\ k \in Stops /\ StopReason[k] # "kill"
        /\ Arrives(Message("stop", k, StopReason[k])) /\ UNCHANGED signals
     \/ /\ k \in Stops /\ StopReason[k] = "kill"
        /\ signals' = (IF Running THEN signals \cup {"kill"} ELSE {}) /\ UNCHANGED inbox
  /\ UNCHANGED <<flags, run, exitReason, monitors, server, box, offer, result, sent, past>>

\* What a helper makes of a message.
Outcome(k, m) ==
  CASE k \in Stops -> m.reason
    [] m.type = "reply" -> "ok"
    [] m.reason \in {"normal", "shutdown"} -> "stopped"
    [] OTHER -> "other"

HelperTakes(k) ==
  /\ helper[k] = "wait" /\ box[k] # <<>>
  /\ offer' = [offer EXCEPT ![k] = Outcome(k, Head(box[k]))]
  /\ box' = [box EXCEPT ![k] = <<>>]
  /\ helper' = [helper EXCEPT ![k] = "offer"]
  /\ UNCHANGED <<flags, run, exitReason, signals, monitors, inbox, server, result, sent, past>>

HelperTimesOut(k) ==
  /\ helper[k] = "wait" /\ k \notin Patient
  /\ offer' = [offer EXCEPT ![k] = "timeout"]
  /\ helper' = [helper EXCEPT ![k] = "offer"]
  /\ box' = [box EXCEPT ![k] = <<>>]
  /\ UNCHANGED <<flags, run, exitReason, signals, monitors, inbox, server, result, sent, past>>

Waiting(k) == helper[k] # "none" /\ result[k] = "none"

\* Mutant: any end of the server will do.
VerdictAnyEnd(k, o) == IF k \in Stops /\ o # "timeout" THEN "nil" ELSE o

\* Stop returns nil when the server ended with the reason it was given.
Verdict(k, o) == IF k \in Stops /\ o = StopReason[k] THEN "nil" ELSE o

\* Helper and caller meet at the channel, and the helper ends.
Meet(k) ==
  /\ helper[k] = "offer" /\ Waiting(k)
  /\ result' = [result EXCEPT ![k] = Verdict(k, offer[k])]
  /\ helper' = [helper EXCEPT ![k] = "ended"]
  /\ UNCHANGED <<flags, run, exitReason, signals, monitors, inbox, server, box, offer, sent, past>>

\* Call or Stop gives up: nobody will take what the helper offers.
GiveUp(k) ==
  /\ Waiting(k) /\ k \notin Patient
  /\ result' = [result EXCEPT ![k] = "timeout"]
  /\ UNCHANGED <<flags, run, exitReason, signals, monitors, inbox, server, helper, box, offer,
                 sent, past>>

-----------------------------------------------------------------------------
(* The server's Runnable: GenServerS.Receive and the user's callbacks.     *)

Return(why) == pc' = "returned" /\ reason' = why /\ UNCHANGED nets

\* Terminate is about to be called; n deferred recovers are above it.
CallTerminate(why, n) == pc' = "terminate" /\ reason' = why /\ nets' = n

\* The next message.  A stopRequest, and the ExitMsg of the parent, end the server.
Receive ==
  /\ pc = "receive" /\ inbox # <<>>
  /\ inbox' = Tail(inbox)
  /\ LET m == Head(inbox) IN
       IF m.type \in {"stop", "exit"}
         THEN CallTerminate(m.reason, 0) /\ client' = "none"
         ELSE /\ pc' = m.type /\ client' = m.client
              /\ UNCHANGED <<reason, nets>>
  /\ UNCHANGED <<flags, run, exitReason, signals, monitors, owed, helpers, sent, past>>

\* The process has exited and closed the inbox.
ReceiveClosed ==
  /\ pc = "receive" /\ run = "await" /\ inbox = <<>>
  /\ Return("normal")
  /\ UNCHANGED <<flags, run, exitReason, signals, monitors, inbox, client, owed, helpers, sent, past>>

\* A callback returns: back to the loop, on to HandleContinue, or, with an error, to
\* Terminate, inside the handler's recover.
CallbackReturns ==
  \/ pc' = "receive" /\ UNCHANGED <<reason, nets>>
  \/ pc' = "continue" /\ nets' = 1 /\ UNCHANGED reason
  \/ \E why \in Errors : CallTerminate(why, 1)

\* A CallReply goes to the genCaller.
Replies(k) ==
  /\ box' = [box EXCEPT ![k] = Delivered(k, Message("reply", k, "none"))]
  /\ answer' = [answer EXCEPT ![k] = IF Running THEN "given" ELSE "late"]

\* HandleCall returns.  Its reply goes out before anything else happens.
HandleCall ==
  /\ pc = "call"
  /\ \/ Replies(client) /\ UNCHANGED owed
     \/ owed' = owed \cup {client} /\ UNCHANGED <<box, answer>>     \* NoReply
  /\ CallbackReturns
  /\ client' = "none"
  /\ UNCHANGED <<flags, run, exitReason, signals, monitors, inbox, helper, offer, result, sent,
                 lost, terminated, panics, dropped>>

\* HandleCast and HandleInfo return.
HandleCast ==
  /\ pc = "cast"
  /\ CallbackReturns
  /\ UNCHANGED <<flags, run, exitReason, signals, monitors, inbox, client, owed, helpers, sent, past>>

\* Any of them panics: the handler's recover calls Terminate.
CallbackPanics ==
  /\ pc \in {"call", "cast"}
  /\ CallTerminate("error", 0)
  /\ client' = "none"
  /\ UNCHANGED <<flags, run, exitReason, signals, monitors, inbox, owed, helpers, sent, past>>

\* doContinue: HandleContinue until it asks for no more.
ContinueEnds ==
  /\ pc = "continue"
  /\ pc' = "receive" /\ nets' = 0
  /\ UNCHANGED <<flags, run, exitReason, signals, monitors, inbox, client, reason, owed, helpers,
                 sent, past>>

\* It returns an error, which is passed up and returned.
ContinueFails ==
  /\ pc = "continue"
  /\ \E why \in Errors : Return(why)
  /\ dropped' = TRUE
  /\ UNCHANGED <<flags, run, exitReason, signals, monitors, inbox, client, owed, helpers, sent,
                 answer, lost, terminated, panics>>

\* It panics: doContinue's recover calls Terminate, inside the handler's own.
ContinuePanics ==
  /\ pc = "continue"
  /\ CallTerminate("error", nets)
  /\ UNCHANGED <<flags, run, exitReason, signals, monitors, inbox, client, owed, helpers, sent, past>>

Terminate ==
  /\ pc = "terminate"
  /\ terminated' = terminated + 1
  /\ Return(reason)
  /\ UNCHANGED <<flags, run, exitReason, signals, monitors, inbox, client, owed, helpers, sent,
                 answer, lost, panics, dropped>>

\* Terminate panics: the next recover above calls it again, or Process' own ends
\* the Runnable.
TerminatePanics ==
  /\ pc = "terminate"
  /\ terminated' = terminated + 1 /\ panics' = panics + 1
  /\ IF nets > 0 THEN CallTerminate("error", nets - 1) ELSE Return("error")
  /\ UNCHANGED <<flags, run, exitReason, signals, monitors, inbox, client, owed, helpers, sent,
                 answer, lost, dropped>>

\* Reply, called for a client that got NoReply, from wherever.
ReplyLater(k) ==
  /\ k \in owed
  /\ owed' = owed \ {k}
  /\ Replies(k)
  /\ UNCHANGED <<flags, run, exitReason, signals, monitors, inbox, pc, client, reason, nets,
                 helper, offer, result, sent, lost, terminated, panics, dropped>>

-----------------------------------------------------------------------------
(* The server's process.                                                   *)

Exits(why) ==
  /\ Running
  /\ run' = "notify" /\ exitReason' = why /\ signals' = {}

RunnableReturned ==
  /\ pc = "returned" /\ Exits(reason)
  /\ UNCHANGED <<flags, monitors, inbox, server, helpers, sent, past>>

ExitSignal ==
  /\ \E why \in signals : Exits(why)
  /\ UNCHANGED <<flags, monitors, inbox, server, helpers, sent, past>>

\* Mutant: exit closes down without a DownMsg.
NotifyNobody ==
  /\ run = "notify"
  /\ run' = "close"
  /\ UNCHANGED <<flags, exitReason, signals, monitors, inbox, server, helpers, sent, past>>

\* DownMsgs to all that monitor the server.
Notify ==
  /\ run = "notify"
  /\ run' = "close"
  /\ box' = [k \in Clients |-> IF k \in monitors
                                 THEN Delivered(k, Message("down", k, exitReason)) ELSE box[k]]
  /\ UNCHANGED <<flags, exitReason, signals, monitors, inbox, server, helper, offer, result,
                 sent, past>>

\* The Runnable's inbox is closed; its pump may still hold one message.
CloseInbox ==
  /\ run = "close"
  /\ run' = "await"
  /\ inbox' \in {<<>>} \cup {<<inbox[i]>> : i \in DOMAIN inbox \cap {1}}
  /\ UNCHANGED <<flags, exitReason, signals, monitors, server, helpers, sent, past>>

\* Somebody casts, or sends a message.
Cast ==
  /\ Running /\ sent < MaxCasts
  /\ sent' = sent + 1
  /\ Arrives(Message("cast", "none", "none"))
  /\ UNCHANGED <<flags, run, exitReason, signals, monitors, server, helpers, past>>

\* The parent ends, or a supervisor stops the server: a message if the server traps
\* exits, the end of it if not.
ParentExits ==
  /\ Running /\ sent < MaxCasts
  /\ sent' = sent + 1
  /\ IF trap THEN Arrives(Message("exit", "none", "supervisor")) /\ UNCHANGED signals
             ELSE signals' = signals \cup {"supervisor"} /\ UNCHANGED inbox
  /\ UNCHANGED <<flags, run, exitReason, monitors, server, helpers, past>>

-----------------------------------------------------------------------------
HelperStep(k) ==
  HelperChecks(k) \/ HelperMonitors(k) \/ HelperSends(k) \/ HelperTakes(k) \/ HelperTimesOut(k)

RunnableStep ==
  \/ Receive \/ ReceiveClosed \/ HandleCall \/ HandleCast \/ CallbackPanics
  \/ ContinueEnds \/ ContinueFails \/ ContinuePanics \/ Terminate \/ TerminatePanics

ProcessStep == RunnableReturned \/ ExitSignal \/ Notify \/ CloseInbox

Next ==
  \/ \E k \in Clients :
       BeginCall(k) \/ BeginStop(k) \/ HelperStep(k) \/ Meet(k) \/ GiveUp(k) \/ ReplyLater(k)
  \/ RunnableStep \/ ProcessStep \/ Cast \/ ParentExits

Spec == Init /\ [][Next]_vars

\* Goroutines run, timers fire, and the user's callbacks return.  Nobody has to
\* call, stop or send anything, nor to answer what got NoReply.
Fairness ==
  /\ WF_vars(RunnableStep) /\ WF_vars(ProcessStep)
  /\ \A k \in Clients : WF_vars(HelperStep(k)) /\ WF_vars(Meet(k)) /\ WF_vars(GiveUp(k))

FairSpec == Spec /\ Fairness

-----------------------------------------------------------------------------
EndReasons == {"normal", "shutdown", "supervisor", "error", "kill"}

Requests == [type : {"call"}, client : Calls, reason : {"none"}]
              \cup [type : {"cast"}, client : {"none"}, reason : {"none"}]
              \cup [type : {"stop"}, client : Stops, reason : {"normal", "shutdown"}]
              \cup [type : {"exit"}, client : {"none"}, reason : {"supervisor"}]

Letters == [type : {"reply"}, client : Calls, reason : {"none"}]
             \cup [type : {"down"}, client : Clients, reason : EndReasons \cup {"noproc"}]

CallOutcomes == {"none", "ok", "stopped", "other", "timeout"}

Outcomes == EndReasons \cup {"none", "ok", "stopped", "other", "timeout", "noproc"}

ServerTypes ==
  /\ trap \in BOOLEAN /\ StopReason \in [Stops -> StopReasons]
  /\ run \in {"loop", "notify", "close", "await"}
  /\ exitReason \in EndReasons \cup {"none"} /\ (Running <=> exitReason = "none")
  /\ signals \subseteq {"kill", "supervisor"} /\ monitors \subseteq Clients
  /\ inbox \in Seq(Requests)
  /\ pc \in {"receive", "call", "cast", "continue", "terminate", "returned"}
  /\ client \in Calls \cup {"none"} /\ (pc = "call" <=> client # "none")
  /\ reason \in EndReasons \cup {"none"}
  /\ pc \in {"terminate", "returned"} => reason # "none"
  /\ nets \in {0, 1} /\ owed \subseteq Calls

HelperTypes ==
  /\ helper \in [Clients -> {"none", "check", "monitor", "send", "wait", "offer", "ended"}]
  /\ box \in [Clients -> Seq(Letters)]
  /\ offer \in [Clients -> Outcomes] /\ result \in [Clients -> Outcomes \cup {"nil"}]
  /\ \A k \in Calls : offer[k] \in CallOutcomes /\ result[k] \in CallOutcomes
  /\ \A k \in Clients : helper[k] = "offer" => offer[k] # "none"

PastTypes ==
  /\ sent \in Nat /\ answer \in [Calls -> {"none", "given", "late"}] /\ lost \subseteq Clients
  /\ terminated \in Nat /\ panics \in Nat /\ dropped \in BOOLEAN

TypeOK == ServerTypes /\ HelperTypes /\ PastTypes

Asked(k) == helper[k] \in {"wait", "offer", "ended"}

RequestAt(k, i) == inbox[i].type = "call" /\ inbox[i].client = k

\* A call's request is in one place: in the inbox, in HandleCall, with whoever is to
\* answer it later, or answered.
RequestOnce ==
  \A k \in Calls :
    /\ answer[k] # "none" => Asked(k)
    /\ k \in owed => Asked(k) /\ answer[k] = "none"
    /\ client = k => Asked(k) /\ answer[k] = "none" /\ k \notin owed
    /\ \A i \in DOMAIN inbox : RequestAt(k, i) =>
         /\ Asked(k) /\ answer[k] = "none" /\ k \notin owed /\ client # k
         /\ \A j \in DOMAIN inbox : RequestAt(k, j) => i = j

\* What may be in a helper's inbox; an answer of the living server comes first.
BoxOK ==
  \A k \in Clients :
    /\ \A i \in DOMAIN box[k] :
         /\ box[k][i].type = "reply" => k \in Calls /\ answer[k] # "none"
         /\ box[k][i].type = "down" => ~Running /\ box[k][i].reason \in {"noproc", exitReason}
    /\ k \in Calls /\ answer[k] = "given" /\ helper[k] = "wait" =>
         box[k] # <<>> /\ box[k][1].type = "reply"

\* What a helper may offer.
OfferOK ==
  /\ \A k \in Calls :
       /\ offer[k] = "ok" => answer[k] # "none"
       /\ offer[k] \in {"stopped", "other"} => ~Running /\ answer[k] # "given"
       /\ offer[k] = "stopped" => exitReason \in {"normal", "shutdown"}
  /\ \A k \in Stops :
       /\ offer[k] \in EndReasons => offer[k] = exitReason
       /\ result[k] = "nil" => exitReason = StopReason[k]

\* How often Terminate has been called, and that it was before the server ends.
EndOK ==
  /\ pc # "returned" => terminated = panics
  /\ pc = "returned" => terminated <= 1 + panics
  /\ pc = "returned" /\ Running => terminated > 0 \/ dropped
  /\ exitReason \in {"normal", "shutdown", "error"} => terminated > 0 \/ dropped

\* The inductive invariant.
IInv == TypeOK /\ RequestOnce /\ BoxOK /\ OfferOK /\ EndOK

\* "Terminate is invoked ... when any callback panics or returns an error"
\* (gen_server.go:139-142), and on every other way out that Receive chooses: once, and
\* again only when it panics itself.  An error of HandleContinue is the exception: it
\* ends the server with no Terminate (dropped).
TerminateOnTheWayOut ==
  /\ pc = "returned" /\ Running => terminated > 0 \/ dropped
  /\ terminated <= 1 + panics

\* "Returns nil if the GenServer exits with the expected reason" (api.go:257): when
\* Stop returns nil the server has left its loop and will answer no one, and, unless it
\* was to be killed, Terminate has run.
StopMeansTerminated ==
  \A k \in Stops : result[k] = "nil" =>
    /\ ~Running /\ exitReason = StopReason[k]
    /\ StopReason[k] # "kill" => terminated > 0 \/ dropped

\* No helper is left behind: it ends, or its caller gave up before it had the outcome;
\* and the genStopper of a Stop without timeout can lose its monitor signal.
HelpersEnd ==
  \A k \in Clients :
    helper[k] # "none" ~> helper[k] = "ended" \/ result[k] = "timeout" \/ k \in lost

\* A Call returns once, with the server's answer if there was one before it ended, and
\* the server's end only if there was none.
Promise == INSTANCE RemoteCall
  WITH ended  <- IF Running THEN "no" ELSE exitReason,
       result <- [k \in Calls |-> result[k]]

ImplementsRemoteCall == Promise!CallSpec
=============================================================================

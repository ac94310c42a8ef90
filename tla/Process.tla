------------------------------- MODULE Process -------------------------------
(***************************************************************************)
(* erl/process.go and the signal half of erl/erl.go: processes that link   *)
(* to, monitor, message and kill each other.                               *)
(*                                                                         *)
(* Every process is two goroutines.  `run' is the signal loop of           *)
(* Process.run and, at the end, Process.exit.  `rbl' is the user's         *)
(* Runnable, which may call the API at any time.  A call only puts signals *)
(* into inboxes, and each of them takes two steps: Process.send looks at   *)
(* the status of the target (Check) and later enqueues (Deposit); the      *)
(* target may begin to exit, and drain its inbox, in between.              *)
(*                                                                         *)
(* The signal inbox and its pump are those of Inbox.tla.  The pump's hand  *)
(* shows only when exit drains the inbox, so it is a choice made there.    *)
(***************************************************************************)
EXTENDS Naturals, Sequences, FiniteSets, SequencesExt

CONSTANTS
  Procs,        \* every process there will ever be
  Initial,      \* those that are running at the start
  Ops,          \* the API calls the Runnables make
  Reasons,      \* the reasons they exit and are killed with
  MaxCalls,     \* bound on the API calls of a behaviour
  MaxRefs       \* bound on the monitors made

ASSUME ProcessAssumption ==
  /\ Initial \subseteq Procs
  /\ Reasons \subseteq {"normal", "kill", "other"}
  /\ MaxCalls \in Nat /\ MaxRefs \in Nat

VARIABLES
  status,       \* p._status
  trap,         \* p._trapExits
  receive,      \* the signal inbox
  closed,       \* the signal inbox was drained or closed
  links,        \* p.links
  monitors,     \* p.monitors: the monitors others hold on p (in exit's order, any)
  monitoring,   \* p.monitoring: the monitors p holds
  pc,           \* where run is
  rbl,          \* what the Runnable's goroutine does
  reason,       \* the reason the Runnable returns, then p.exitReason
  parent,       \* p.spawnLink and p.spawnMonitor
  out,          \* the signals each goroutine still has to send, in order
  mailbox,      \* what run has put on runnableReceive, in order
  monitor,      \* history: who monitors whom under each Ref
  calls,        \* API calls so far
  past          \* history: see Past

procVars == <<links, monitors, monitoring, pc, parent>>
vars == <<status, trap, receive, closed, links, monitors, monitoring, pc, rbl, reason,
          parent, out, mailbox, monitor, calls, past>>

Refs == 1 .. MaxRefs
Run(p) == <<"run", p>>
Rbl(p) == <<"rbl", p>>
Goroutines == {"run", "rbl"} \X Procs

LinkSig(p)           == [type |-> "link", pid |-> p]
UnlinkSig(p)         == [type |-> "unlink", pid |-> p]
MonitorSig(r, p, q)  == [type |-> "monitor", ref |-> r, monitor |-> p, monitored |-> q]
DemonitorSig(r, p)   == [type |-> "demonitor", ref |-> r, origin |-> p]
ExitSig(p, why, lnk) == [type |-> "exit", sender |-> p, reason |-> why, link |-> lnk]
DownSig(p, r, why)   == [type |-> "down", proc |-> p, ref |-> r, reason |-> why]
MessageSig(p)        == [type |-> "msg", sender |-> p]

Letter(q, sig) == [to |-> q, sig |-> sig, checked |-> FALSE]

\* What is remembered for the properties: link and monitor signals that reached
\* nobody (lost), Refs that Demonitor was called with (demonitored) and those
\* whose process still ran when the call returned (silenced), pairs that were
\* unlinked, pairs <<p, q>> where p has taken the exit signal of its link to q
\* (told), processes that exited because their Runnable had returned, processes
\* that somebody called Exit on with Kill (killed).
Past == [lost : SUBSET [to : Procs, sig : [type : {"link"}, pid : Procs] \cup
                   [type : {"monitor"}, ref : Refs, monitor : Procs, monitored : Procs]],
         demonitored : SUBSET Refs,
         silenced : SUBSET Refs,
         unlinked : SUBSET SUBSET Procs,
         told : SUBSET (Procs \X Procs),
         returned : SUBSET Procs,
         killed : SUBSET Procs]

NoParent  == [kind |-> "none"]

Init ==
  /\ status = [p \in Procs |-> IF p \in Initial THEN "RUNNING" ELSE "unborn"]
  /\ trap = [p \in Procs |-> FALSE]
  /\ receive = [p \in Procs |-> <<>>]
  /\ closed = [p \in Procs |-> FALSE]
  /\ links = [p \in Procs |-> {}]
  /\ monitors = [p \in Procs |-> {}]
  /\ monitoring = [p \in Procs |-> {}]
  /\ pc = [p \in Procs |-> IF p \in Initial THEN "loop" ELSE "unborn"]
  /\ rbl = [p \in Procs |-> IF p \in Initial THEN "active" ELSE "none"]
  /\ reason = [p \in Procs |-> "none"]
  /\ parent = [p \in Procs |-> NoParent]
  /\ out = [g \in Goroutines |-> <<>>]
  /\ mailbox = [p \in Procs |-> <<>>]
  /\ monitor = <<>>
  /\ calls = 0
  /\ past = [lost |-> {}, demonitored |-> {}, silenced |-> {}, unlinked |-> {},
             told |-> {}, returned |-> {}, killed |-> {}]

-----------------------------------------------------------------------------
(* Sending: Process.send and sendSignal.                                   *)

\* Mutant: only monitors of a dead process are answered.
AnsweredMonitors(l) == l.sig.type = "monitor"

Answered(l) == l.sig.type \in {"link", "monitor"}

\* What the sender sends instead when the target is not running: whoever links
\* to or monitors a dead process hears NoProc at once.
DeadReply(l) ==
  IF l.sig.type = "link" THEN Letter(l.sig.pid, ExitSig(l.to, "noproc", TRUE))
                         ELSE Letter(l.sig.monitor, DownSig(l.to, l.sig.ref, "noproc"))

ToSend(g) == out[g] # <<>> /\ ~Head(out[g]).checked

SendsOn(g, l) == out' = [out EXCEPT ![g] = [@ EXCEPT ![1] = l]]
SentOne(g) == out' = [out EXCEPT ![g] = Tail(@)]

\* The sender looks at the target's status.  sendSignal and send both do; when
\* either finds it not running the same reply goes out.
Check(g) ==
  /\ ToSend(g)
  /\ LET l == Head(out[g]) IN
       \/ status[l.to] = "RUNNING" /\ SendsOn(g, [l EXCEPT !.checked = TRUE])
       \/ status[l.to] # "RUNNING" /\ Answered(l) /\ SendsOn(g, DeadReply(l))
       \/ status[l.to] # "RUNNING" /\ ~Answered(l) /\ SentOne(g)
  /\ UNCHANGED <<status, trap, receive, closed, procVars, rbl, reason, mailbox, monitor,
                 calls, past>>

Matters(l) == l.sig.type \in {"link", "monitor"}

Loss(l) == IF Matters(l) THEN {[to |-> l.to, sig |-> l.sig]} ELSE {}

\* Demonitor has done its part: the signal is on its way and the process that
\* was monitored still runs.
Silenced(l) ==
  IF /\ l.sig.type = "demonitor" /\ l.sig.origin = l.to
     /\ status[monitor[l.sig.ref].target] = "RUNNING"
    THEN {l.sig.ref} ELSE {}

\* Mutant: send goes on to its switch after a successful Enqueue.
DepositAndReply(g) ==
  /\ out[g] # <<>> /\ Head(out[g]).checked
  /\ LET l == Head(out[g]) IN
       /\ receive' = IF closed[l.to] THEN receive ELSE [receive EXCEPT ![l.to] = Append(@, l.sig)]
       /\ IF Answered(l) THEN SendsOn(g, DeadReply(l)) ELSE SentOne(g)
       /\ past' = [past EXCEPT !.lost = @ \cup (IF closed[l.to] THEN Loss(l) ELSE {}),
                               !.silenced = @ \cup Silenced(l)]
  /\ UNCHANGED <<status, trap, closed, procVars, rbl, reason, mailbox, monitor, calls>>

\* Mutant: exit and down signals overtake the messages in the inbox.
DepositUrgent(g) ==
  /\ out[g] # <<>> /\ Head(out[g]).checked
  /\ LET l == Head(out[g]) IN
       /\ receive' = IF closed[l.to] THEN receive
                     ELSE [receive EXCEPT ![l.to] =
                             IF l.sig.type \in {"exit", "down"} THEN <<l.sig>> \o @
                                                                ELSE Append(@, l.sig)]
       /\ SentOne(g)
       /\ past' = [past EXCEPT !.lost = @ \cup (IF closed[l.to] THEN Loss(l) ELSE {}),
                               !.silenced = @ \cup Silenced(l)]
  /\ UNCHANGED <<status, trap, closed, procVars, rbl, reason, mailbox, monitor, calls>>

\* p.receive.Enqueue(sig): its result, FALSE when the inbox is closed by now, is
\* ignored.
Deposit(g) ==
  /\ out[g] # <<>> /\ Head(out[g]).checked
  /\ LET l == Head(out[g]) IN
       /\ receive' = IF closed[l.to] THEN receive ELSE [receive EXCEPT ![l.to] = Append(@, l.sig)]
       /\ SentOne(g)
       /\ past' = [past EXCEPT !.lost = @ \cup (IF closed[l.to] THEN Loss(l) ELSE {}),
                               !.silenced = @ \cup Silenced(l)]
  /\ UNCHANGED <<status, trap, closed, procVars, rbl, reason, mailbox, monitor, calls>>

-----------------------------------------------------------------------------
(* The API, called by the Runnable of p.                                   *)

\* The Runnable of p makes call `op', which sends the letters `ls'.
Call(p, op, ls) ==
  /\ op \in Ops
  /\ rbl[p] = "active" /\ out[Rbl(p)] = <<>>
  /\ calls < MaxCalls
  /\ calls' = calls + 1
  /\ out' = [out EXCEPT ![Rbl(p)] = ls]

Known(q) == status[q] # "unborn"

\* MakeRef.
NextRef == Len(monitor) + 1

Monitors(p, q, spawned) ==
  /\ NextRef \in Refs
  /\ monitor' = Append(monitor, [owner |-> p, target |-> q, spawned |-> spawned])

\* Mutant: the other process is told, the caller's own is not.
CallLinkOneWay(p, q) ==
  /\ Known(q)
  /\ Call(p, "Link", <<Letter(q, LinkSig(p))>>)
  /\ UNCHANGED <<status, trap, receive, closed, procVars, rbl, reason, mailbox, monitor, past>>

\* Link: both processes get a link signal, the caller's own first.
CallLink(p, q) ==
  /\ Known(q)
  /\ Call(p, "Link", <<Letter(p, LinkSig(q)), Letter(q, LinkSig(p))>>)
  /\ UNCHANGED <<status, trap, receive, closed, procVars, rbl, reason, mailbox, monitor, past>>

CallUnlink(p, q) ==
  /\ Known(q)
  /\ Call(p, "Unlink", <<Letter(p, UnlinkSig(q)), Letter(q, UnlinkSig(p))>>)
  /\ past' = [past EXCEPT !.unlinked = @ \cup {{p, q}}]
  /\ UNCHANGED <<status, trap, receive, closed, procVars, rbl, reason, mailbox, monitor>>

CallMonitor(p, q) ==
  /\ Known(q) /\ Monitors(p, q, FALSE)
  /\ LET sig == MonitorSig(NextRef, p, q) IN
       Call(p, "Monitor", <<Letter(p, sig), Letter(q, sig)>>)
  /\ UNCHANGED <<status, trap, receive, closed, procVars, rbl, reason, mailbox, past>>

CallDemonitor(p, r) ==
  /\ monitor[r].owner = p
  /\ Call(p, "Demonitor", <<Letter(p, DemonitorSig(r, p))>>)
  /\ past' = [past EXCEPT !.demonitored = @ \cup {r}]
  /\ UNCHANGED <<status, trap, receive, closed, procVars, rbl, reason, mailbox, monitor>>

CallSend(p, q) ==
  /\ Known(q)
  /\ Call(p, "Send", <<Letter(q, MessageSig(p))>>)
  /\ UNCHANGED <<status, trap, receive, closed, procVars, rbl, reason, mailbox, monitor, past>>

CallExit(p, q, why) ==
  /\ Known(q)
  /\ Call(p, "Exit", <<Letter(q, ExitSig(p, why, FALSE))>>)
  /\ past' = [past EXCEPT !.killed = @ \cup (IF why = "kill" THEN {q} ELSE {})]
  /\ UNCHANGED <<status, trap, receive, closed, procVars, rbl, reason, mailbox, monitor>>

CallTrapExit(p) ==
  /\ ~trap[p]
  /\ Call(p, "TrapExit", <<>>)
  /\ trap' = [trap EXCEPT ![p] = TRUE]
  /\ UNCHANGED <<status, receive, closed, procVars, rbl, reason, mailbox, monitor, past>>

\* Spawn, SpawnLink and SpawnMonitor: the process is running at once; what ties
\* it to p happens when its own goroutine gets to it.
CallSpawn(p, q, how) ==
  /\ ~Known(q)
  /\ Call(p, "Spawn", <<>>)
  /\ status' = [status EXCEPT ![q] = "RUNNING"]
  /\ pc' = [pc EXCEPT ![q] = "boot"]
  /\ parent' = [parent EXCEPT ![q] = how]
  /\ UNCHANGED <<trap, receive, closed, links, monitors, monitoring, rbl, reason, mailbox, past>>

CallSpawnAlone(p, q) == CallSpawn(p, q, NoParent) /\ UNCHANGED monitor

CallSpawnLink(p, q) ==
  CallSpawn(p, q, [kind |-> "link", pid |-> p]) /\ UNCHANGED monitor

CallSpawnMonitor(p, q) ==
  /\ Monitors(p, q, TRUE)
  /\ CallSpawn(p, q, [kind |-> "monitor", pid |-> p, ref |-> NextRef])

\* The Runnable returns: p.done <- reason blocks until run receives it.
Return(p, why) ==
  /\ rbl[p] = "active" /\ out[Rbl(p)] = <<>>
  /\ rbl' = [rbl EXCEPT ![p] = "returning"]
  /\ reason' = [reason EXCEPT ![p] = IF pc[p] = "loop" THEN why ELSE @]
  /\ UNCHANGED <<status, trap, receive, closed, procVars, out, mailbox, monitor, calls, past>>

\* The Runnable panics: the deferred function sends Exception on p.done, and
\* nobody closes the channel afterwards.
Panic(p) ==
  /\ "Panic" \in Ops
  /\ rbl[p] = "active" /\ out[Rbl(p)] = <<>>
  /\ rbl' = [rbl EXCEPT ![p] = "panicked"]
  /\ reason' = [reason EXCEPT ![p] = IF pc[p] = "loop" THEN "other" ELSE @]
  /\ UNCHANGED <<status, trap, receive, closed, procVars, out, mailbox, monitor, calls, past>>

-----------------------------------------------------------------------------
(* What run does with link, unlink, monitor and demonitor signals, in its  *)
(* loop and in exit: p's own lists, and what it sends meanwhile.           *)

Local(p) == [links |-> links[p], monitors |-> monitors[p], monitoring |-> monitoring[p],
             sends |-> <<>>]

AfterLink(p, sig) == [Local(p) EXCEPT !.links = @ \cup {sig.pid}]

AfterUnlink(p, sig) == [Local(p) EXCEPT !.links = @ \ {sig.pid}]

AfterMonitor(p, sig) ==
  IF sig.monitor = p
    THEN [Local(p) EXCEPT !.monitoring = @ \cup {[ref |-> sig.ref, pid |-> sig.monitored]}]
    ELSE [Local(p) EXCEPT !.monitors = @ \cup {[pid |-> sig.monitor, ref |-> sig.ref]}]

\* The filter keeps a monitor when its Ref and its owner both differ.
Kept(m, sig) == m.ref # sig.ref /\ m.pid # sig.origin

\* Its own demonitor is passed on to the process it monitors, if it still knows
\* the Ref; another's demonitor shortens p.monitors.
Passed(p, sig) ==
  LET known == {e \in monitoring[p] : e.ref = sig.ref} IN
  IF known = {} THEN <<>> ELSE <<Letter((CHOOSE e \in known : TRUE).pid, sig)>>

AfterDemonitor(p, sig) ==
  IF sig.origin = p
    THEN [Local(p) EXCEPT !.monitoring = {e \in @ : e.ref # sig.ref}, !.sends = Passed(p, sig)]
    ELSE [Local(p) EXCEPT !.monitors = {m \in @ : Kept(m, sig)}]

Bookkeeping == {"link", "unlink", "monitor", "demonitor"}

Absorb(p, sig) ==
  CASE sig.type = "link"      -> AfterLink(p, sig)
    [] sig.type = "unlink"    -> AfterUnlink(p, sig)
    [] sig.type = "monitor"   -> AfterMonitor(p, sig)
    [] sig.type = "demonitor" -> AfterDemonitor(p, sig)
    [] OTHER                  -> Local(p)

Absorbs(p, sig) ==
  LET L == Absorb(p, sig) IN
  /\ links' = [links EXCEPT ![p] = L.links]
  /\ monitors' = [monitors EXCEPT ![p] = L.monitors]
  /\ monitoring' = [monitoring EXCEPT ![p] = L.monitoring]
  /\ out' = [out EXCEPT ![Run(p)] = L.sends]

-----------------------------------------------------------------------------
(* The signal loop of Process.run.                                         *)

\* run receives the next signal from the pump.
Receive(p, sig) ==
  /\ pc[p] = "loop" /\ out[Run(p)] = <<>>
  /\ receive[p] # <<>> /\ sig = Head(receive[p])
  /\ receive' = [receive EXCEPT ![p] = Tail(@)]

\* handleMonitorSignal, handleDemonitorSignal, handleLinkSignal,
\* handleUnlinkSignal.  Their own tests of the status never fail: run is past
\* the loop when it is not RUNNING.
OnBookkeeping(p, sig) ==
  /\ Receive(p, sig) /\ sig.type \in Bookkeeping
  /\ Absorbs(p, sig)
  /\ UNCHANGED <<status, trap, closed, pc, rbl, reason, parent, mailbox, monitor, calls, past>>

OnMessage(p, sig) ==
  /\ Receive(p, sig) /\ sig.type = "msg"
  /\ mailbox' = [mailbox EXCEPT ![p] = Append(@, sig)]
  /\ UNCHANGED <<status, trap, closed, procVars, rbl, reason, out, monitor, calls, past>>

\* A DOWN signal is passed on when its Ref is known.  The entry stays.
KnownRef(p, r) == \E e \in monitoring[p] : e.ref = r

OnDown(p, sig) ==
  /\ Receive(p, sig) /\ sig.type = "down"
  /\ mailbox' = IF KnownRef(p, sig.ref) THEN [mailbox EXCEPT ![p] = Append(@, sig)] ELSE mailbox
  /\ UNCHANGED <<status, trap, closed, procVars, rbl, reason, out, monitor, calls, past>>

\* Mutant: a trapping process traps Kill too.
TrapsKill(sig) == FALSE

\* Mutant: the reason of a linked process is as fatal as a Kill.
LinkKills(sig) == sig.reason = "kill"

\* Kill, unless it is the reason of a linked process.
Untrappable(sig) == sig.reason = "kill" /\ ~sig.link

\* Only the normal exit of a linked process is ignored.
Ignored(p, sig) == sig.reason = "normal" /\ sig.link /\ sig.sender # p

Told(p, sig) ==
  [past EXCEPT !.told = @ \cup (IF sig.link THEN {<<p, sig.sender>>} ELSE {})]

\* An exit signal that p survives.
OnExitSurvived(p, sig) ==
  /\ Receive(p, sig) /\ sig.type = "exit" /\ ~Untrappable(sig)
  /\ trap[p] \/ Ignored(p, sig)
  /\ mailbox' = IF trap[p] THEN [mailbox EXCEPT ![p] = Append(@, sig)] ELSE mailbox
  /\ past' = Told(p, sig)
  /\ UNCHANGED <<status, trap, closed, procVars, rbl, reason, out, monitor, calls>>

-----------------------------------------------------------------------------
(* Process.exit.                                                           *)

NowExiting(p) == [status EXCEPT ![p] = "EXITING"]

\* p.setStatus(exiting).  (The name is given back next: Registry.tla.)
BeginExit(p, why) ==
  /\ status' = NowExiting(p)
  /\ pc' = [pc EXCEPT ![p] = "drain"]
  /\ reason' = [reason EXCEPT ![p] = why]

\* An exit signal that p does not survive.
OnExitFatal(p, sig) ==
  /\ Receive(p, sig) /\ sig.type = "exit"
  /\ Untrappable(sig) \/ ~(trap[p] \/ Ignored(p, sig))
  /\ BeginExit(p, sig.reason)
  /\ past' = Told(p, sig)
  /\ UNCHANGED <<trap, closed, links, monitors, monitoring, rbl, parent, out, mailbox, monitor,
                 calls>>

\* The Runnable has returned or panicked: its reason arrives on p.done.  After a
\* return the channel is closed at once; after a panic it never is.
OnDone(p) ==
  /\ pc[p] = "loop" /\ out[Run(p)] = <<>>
  /\ rbl[p] \in {"returning", "panicked"}
  /\ rbl' = [rbl EXCEPT ![p] = IF @ = "returning" THEN "finished" ELSE "vanished"]
  /\ BeginExit(p, reason[p])
  /\ past' = [past EXCEPT !.returned = @ \cup {p}]
  /\ UNCHANGED <<trap, receive, closed, links, monitors, monitoring, parent, out, mailbox,
                 monitor, calls>>

\* p.receive.Drain() closes the inbox and returns what is in it.  A signal that the
\* pump already has in its hand is not found and is read by nobody any more.
Drain(p) ==
  /\ pc[p] = "drain"
  /\ \/ UNCHANGED <<receive, past>>
     \/ /\ receive[p] # <<>>
        /\ receive' = [receive EXCEPT ![p] = Tail(@)]
        /\ past' = [past EXCEPT !.lost = @ \cup Loss(Letter(p, Head(receive[p])))]
  /\ closed' = [closed EXCEPT ![p] = TRUE]
  /\ pc' = [pc EXCEPT ![p] = "absorb"]
  /\ UNCHANGED <<status, trap, links, monitors, monitoring, rbl, reason, parent, out, mailbox,
                 monitor, calls>>

\* The signals found there, one by one.  (receive stands for the slice now.)
DrainNext(p) ==
  /\ pc[p] = "absorb" /\ out[Run(p)] = <<>> /\ receive[p] # <<>>
  /\ Absorbs(p, Head(receive[p]))
  /\ receive' = [receive EXCEPT ![p] = Tail(@)]
  /\ UNCHANGED <<status, trap, closed, pc, rbl, reason, parent, mailbox, monitor, calls, past>>

DrainDone(p) ==
  /\ pc[p] = "absorb" /\ out[Run(p)] = <<>> /\ receive[p] = <<>>
  /\ pc' = [pc EXCEPT ![p] = "notify"]
  /\ UNCHANGED <<status, trap, receive, closed, links, monitors, monitoring, rbl, reason,
                 parent, out, mailbox, monitor, calls, past>>

\* The three loops of exit: exit signals to the links, DOWN signals to the monitors,
\* demonitor signals to the monitored (a Go map, in any order).  Nothing reads the
\* lists any more; they stand for what a loop has not come to yet.
NotifyLink(p, q) ==
  /\ q \in links[p]
  /\ links' = [links EXCEPT ![p] = @ \ {q}]
  /\ out' = [out EXCEPT ![Run(p)] = <<Letter(q, ExitSig(p, reason[p], TRUE))>>]
  /\ UNCHANGED <<monitors, monitoring>>

NotifyMonitor(p, m) ==
  /\ links[p] = {} /\ m \in monitors[p]
  /\ monitors' = [monitors EXCEPT ![p] = @ \ {m}]
  /\ out' = [out EXCEPT ![Run(p)] = <<Letter(m.pid, DownSig(p, m.ref, reason[p]))>>]
  /\ UNCHANGED <<links, monitoring>>

NotifyMonitored(p, e) ==
  /\ links[p] = {} /\ monitors[p] = {} /\ e \in monitoring[p]
  /\ monitoring' = [monitoring EXCEPT ![p] = @ \ {e}]
  /\ out' = [out EXCEPT ![Run(p)] = <<Letter(e.pid, DemonitorSig(e.ref, p))>>]
  /\ UNCHANGED <<links, monitors>>

Notify(p) ==
  /\ pc[p] = "notify" /\ out[Run(p)] = <<>>
  /\ \/ \E q \in links[p] : NotifyLink(p, q)
     \/ \E m \in monitors[p] : NotifyMonitor(p, m)
     \/ \E e \in monitoring[p] : NotifyMonitored(p, e)
  /\ UNCHANGED <<status, trap, receive, closed, pc, rbl, reason, parent, mailbox, monitor,
                 calls, past>>

Notified(p) == /\ pc[p] = "notify" /\ out[Run(p)] = <<>>
               /\ links[p] = {} /\ monitors[p] = {} /\ monitoring[p] = {}

\* Mutant: exit does not wait for the Runnable.
NotWaited(p) == TRUE

\* <-p.done: the Runnable is at its send, or the channel is closed.
DoneReady(p) == rbl[p] \in {"returning", "panicked", "finished"}

\* Mutant: exit waits for the Runnable before it closes the Runnable's inbox.
CloseMailboxLate(p) ==
  /\ Notified(p) /\ DoneReady(p)
  /\ pc' = [pc EXCEPT ![p] = "await"]
  /\ UNCHANGED <<status, trap, receive, closed, links, monitors, monitoring, rbl, reason,
                 parent, out, mailbox, monitor, calls, past>>

\* p.runnableReceive.Close().
CloseMailbox(p) ==
  /\ Notified(p)
  /\ pc' = [pc EXCEPT ![p] = "await"]
  /\ UNCHANGED <<status, trap, receive, closed, links, monitors, monitoring, rbl, reason,
                 parent, out, mailbox, monitor, calls, past>>

\* The end of exit, and of run: nobody reads the mailbox any more.
EndExit(p) ==
  /\ pc[p] = "await" /\ DoneReady(p)
  /\ rbl' = [rbl EXCEPT ![p] = IF @ \in {"returning", "panicked"} THEN "finished" ELSE @]
  /\ status' = [status EXCEPT ![p] = "EXITED"]
  /\ mailbox' = [mailbox EXCEPT ![p] = <<>>]
  /\ pc' = [pc EXCEPT ![p] = "stopped"]
  /\ UNCHANGED <<trap, links, monitors, monitoring, receive, closed, reason, parent, out, monitor, calls, past>>

-----------------------------------------------------------------------------
(* A new process: the head of Process.run, before its loop.                *)

\* p.spawnLink or p.spawnMonitor: the parent's half is a signal ...
BootLetters(p) ==
  LET from == parent[p] IN
  CASE from.kind = "link"    -> <<Letter(from.pid, LinkSig(p))>>
    [] from.kind = "monitor" -> <<Letter(from.pid, MonitorSig(from.ref, from.pid, p))>>
    [] OTHER                 -> <<>>

\* Mutant: ... and the process' own half is forgotten.
BootForgetful(p) ==
  /\ pc[p] = "boot"
  /\ pc' = [pc EXCEPT ![p] = "start"]
  /\ out' = [out EXCEPT ![Run(p)] = BootLetters(p)]
  /\ UNCHANGED <<status, trap, receive, closed, links, monitors, monitoring, rbl, reason,
                 parent, mailbox, monitor, calls, past>>

\* ... and its own half is set at once, before the Runnable starts.
Boot(p) ==
  /\ pc[p] = "boot"
  /\ pc' = [pc EXCEPT ![p] = "start"]
  /\ out' = [out EXCEPT ![Run(p)] = BootLetters(p)]
  /\ links' = [links EXCEPT ![p] = IF parent[p].kind = "link" THEN {parent[p].pid} ELSE @]
  /\ monitors' = [monitors EXCEPT ![p] =
                    IF parent[p].kind = "monitor"
                      THEN {[pid |-> parent[p].pid, ref |-> parent[p].ref]} ELSE @]
  /\ UNCHANGED <<status, trap, receive, closed, monitoring, rbl, reason, parent, mailbox,
                 monitor, calls, past>>

Start(p) ==
  /\ pc[p] = "start" /\ out[Run(p)] = <<>>
  /\ pc' = [pc EXCEPT ![p] = "loop"]
  /\ rbl' = [rbl EXCEPT ![p] = "active"]
  /\ UNCHANGED <<status, trap, receive, closed, links, monitors, monitoring, reason, parent,
                 out, mailbox, monitor, calls, past>>

-----------------------------------------------------------------------------
OnSignal(p) ==
  LET sig == Head(receive[p]) IN
  /\ receive[p] # <<>>
  /\ \/ OnBookkeeping(p, sig) \/ OnMessage(p, sig) \/ OnDown(p, sig)
     \/ OnExitSurvived(p, sig) \/ OnExitFatal(p, sig)

\* Everything the goroutine of Process.run does by itself.
RunStep(p) ==
  \/ Boot(p) \/ Start(p) \/ OnSignal(p) \/ OnDone(p)
  \/ Drain(p) \/ DrainNext(p) \/ DrainDone(p) \/ Notify(p) \/ CloseMailbox(p) \/ EndExit(p)

\* A process that links to, monitors or messages itself only hears itself, and is
\* left out.
ApiCall(p) ==
  \/ \E q \in Procs \ {p} :
       \/ CallLink(p, q) \/ CallUnlink(p, q) \/ CallMonitor(p, q) \/ CallSend(p, q)
       \/ CallSpawnAlone(p, q) \/ CallSpawnLink(p, q) \/ CallSpawnMonitor(p, q)
  \/ \E q \in Procs, why \in Reasons : CallExit(p, q, why)
  \/ \E r \in DOMAIN monitor : CallDemonitor(p, r)
  \/ CallTrapExit(p)

\* When its mailbox is closed, a Runnable returns.
ReturnOnClose(p) == pc[p] = "await" /\ \E why \in Reasons : Return(p, why)

Next ==
  \/ \E g \in Goroutines : Check(g) \/ Deposit(g)
  \/ \E p \in Procs :
       \/ ApiCall(p) \/ RunStep(p) \/ Panic(p)
       \/ \E why \in Reasons : Return(p, why)

Spec == Init /\ [][Next]_vars

\* Goroutines that can run do.  A Runnable need not call anything nor return by
\* itself, but its Receive loop ends when its inbox is closed.
Fairness ==
  /\ \A g \in Goroutines : WF_vars(Check(g) \/ Deposit(g))
  /\ \A p \in Procs : WF_vars(RunStep(p)) /\ WF_vars(ReturnOnClose(p))

FairSpec == Spec /\ Fairness

-----------------------------------------------------------------------------
ExitReasons == Reasons \cup {"noproc", "other"}

Signals ==
  [type : {"link", "unlink"}, pid : Procs] \cup [type : {"msg"}, sender : Procs]
    \cup [type : {"monitor"}, ref : Refs, monitor : Procs, monitored : Procs]
    \cup [type : {"demonitor"}, ref : Refs, origin : Procs]
    \cup [type : {"exit"}, sender : Procs, reason : ExitReasons, link : BOOLEAN]
    \cup [type : {"down"}, proc : Procs, ref : Refs, reason : ExitReasons]

Pid     == [pid : Procs, ref : Refs]
Parents == {NoParent} \cup [kind : {"link"}, pid : Procs]
             \cup [kind : {"monitor"}, pid : Procs, ref : Refs]
Letters == [to : Procs, sig : Signals, checked : BOOLEAN]

TypeOK ==
  /\ status \in [Procs -> {"unborn", "RUNNING", "EXITING", "EXITED"}]
  /\ {trap, closed} \subseteq [Procs -> BOOLEAN]
  /\ {receive, mailbox} \subseteq [Procs -> Seq(Signals)]
  /\ links \in [Procs -> SUBSET Procs]
  /\ {monitors, monitoring} \subseteq [Procs -> SUBSET Pid]
  /\ pc \in [Procs -> {"unborn", "boot", "start", "loop", "drain", "absorb", "notify", "await",
                      "stopped"}]
  /\ rbl \in [Procs -> {"none", "active", "returning", "panicked", "finished", "vanished"}]
  /\ reason \in [Procs -> ExitReasons \cup {"none"}]
  /\ parent \in [Procs -> Parents]
  /\ out \in [Goroutines -> Seq(Letters)]
  /\ monitor \in Seq([owner : Procs, target : Procs, spawned : BOOLEAN])
  /\ Len(monitor) <= MaxRefs /\ calls \in 0 .. MaxCalls
  /\ past \in Past

\* run and every sender are done with p: its inbox is empty and no letter is
\* addressed to p or would be answered to p.
Settled(p) ==
  /\ pc[p] = "loop" /\ receive[p] = <<>> /\ out[Run(p)] = <<>>
  /\ \A g \in Goroutines : \A i \in DOMAIN out[g] :
       LET l == out[g][i] IN
       /\ l.to # p
       /\ l.sig.type = "link" => l.sig.pid # p
       /\ l.sig.type = "monitor" => l.sig.monitor # p

IsDown(sig, r) == sig.type = "down" /\ sig.ref = r

Downs(r) ==
  UNION {{<<p, i>> : i \in {j \in DOMAIN mailbox[p] : IsDown(mailbox[p][j], r)}} : p \in Procs}

LostMonitor(r) == \E l \in past.lost : l.sig.type = "monitor" /\ l.sig.ref = r

\* Another monitor of the same two processes was demonitored.
Sibling(r) ==
  \E s \in past.demonitored : s # r /\ r \in DOMAIN monitor
                                    /\ monitor[s].owner = monitor[r].owner
                                    /\ monitor[s].target = monitor[r].target

\* A DownMsg tells the truth: the process is not running any more, and the
\* reason is the one it exits with, or NoProc.  It goes to the owner of the Ref.
DownIsTruthful ==
  \A p \in Procs : \A i \in DOMAIN mailbox[p] :
    LET d == mailbox[p][i] IN
    d.type = "down" =>
      /\ status[d.proc] \in {"EXITING", "EXITED"}
      /\ d.reason \in {reason[d.proc], "noproc"}
      /\ monitor[d.ref].owner = p /\ monitor[d.ref].target = d.proc

\* A monitor signal is answered by the sender (send), by the drained inbox of
\* exit or by p.monitors, and by one of them only.
AtMostOneDown == \A r \in DOMAIN monitor : Cardinality(Downs(r)) <= 1

\* exit has told everybody of the end of p.  It may wait for the Runnable yet, and
\* for ever when it began with a panic.
Reported(p) == pc[p] \in {"await", "stopped"}

\* erl.go:201-207, as far as it goes: when the monitored process has ended and
\* every signal has arrived, the owner has its DownMsg -- unless it demonitored,
\* or the monitor signal fell into the window around Drain.  A SpawnMonitor
\* cannot fall into it: the new process sends that signal itself.
MonitorAccounted ==
  \A r \in DOMAIN monitor :
    LET m == monitor[r] IN
    /\ Settled(m.owner) /\ Reported(m.target)
    /\ r \notin past.demonitored /\ ~Sibling(r)
    => Downs(r) # {} \/ (LostMonitor(r) /\ ~m.spawned)

\* erl.go:112-126, as far as it goes: p has been told of the end of a process it
\* is linked to, unless the link was taken back or its signal was lost.
LinkAccounted ==
  \A p, q \in Procs :
    /\ p # q /\ q \in links[p] /\ {p, q} \notin past.unlinked
    /\ Settled(p) /\ Reported(q)
    => <<p, q>> \in past.told \/ [to |-> q, sig |-> LinkSig(p)] \in past.lost

\* "A bi-directional relationship" (erl.go:110): two processes that nobody
\* unlinked agree whether they are linked.
LinksMutual ==
  \A p, q \in Procs :
    Settled(p) /\ Settled(q) /\ {p, q} \notin past.unlinked
    => (q \in links[p] <=> p \in links[q])

\* What a process sent before its Runnable returned arrives before its DownMsg:
\* a reply is never overtaken by the end of the one who replied.  (A killed
\* process' Runnable goes on sending until it notices.)
MessagesBeforeDown ==
  \A p \in Procs : \A i, j \in DOMAIN mailbox[p] :
    /\ i < j /\ mailbox[p][i].type = "down" /\ mailbox[p][j].type = "msg"
    /\ mailbox[p][i].proc = mailbox[p][j].sender
    => mailbox[p][j].sender \notin past.returned

\* erl.go:224-226: after Demonitor no DownMsg comes for that Ref when the process
\* was still running.  (A SpawnMonitor may not have been set yet by then.)
DemonitorSilences ==
  \A r \in past.silenced : monitor[r].spawned \/ Downs(r) = {}

\* A process is EXITED only when its Runnable has returned and everything it or
\* its Runnable had to send has been sent.
ExitedIsOver ==
  \A p \in Procs : status[p] = "EXITED" =>
    rbl[p] = "finished" /\ out[Run(p)] = <<>> /\ out[Rbl(p)] = <<>>

\* The state is well-formed, and exit leaves nothing behind it.
Inv == TypeOK /\ ExitedIsOver

\* What a DownMsg may say and when it may come: the truth, once, and not after a
\* Demonitor (process.go:170-177, 205-243, 309-318).
DownsAreTrue == DownIsTruthful /\ AtMostOneDown /\ DemonitorSilences

\* Whoever monitors or links to a process hears of its end, whichever of send, the
\* drained inbox and exit has to answer.
SignalsAccounted == MonitorAccounted /\ LinkAccounted

\* Once a process begins to exit it finishes, unless the exit began with a panic of
\* its Runnable: nobody sends on p.done, or closes it, a second time.
ExitCompletes ==
  \A p \in Procs : status[p] = "EXITING" ~> status[p] = "EXITED" \/ rbl[p] = "vanished"

\* erl.go:522: a Kill signal that has arrived ends the process, trapping or not.
KillIsFatal ==
  \A p \in Procs :
    (\E i \in DOMAIN receive[p] :
       receive[p][i].type = "exit" /\ receive[p][i].reason = "kill" /\ ~receive[p][i].link)
      ~> status[p] # "RUNNING"

\* process.go:177-199: that is the only exit signal that ends a process that traps
\* exits: it ends because its Runnable did or because somebody asked for its Kill,
\* never because a linked process ended, whatever the reason of that one was.
LinkSparesTrapping ==
  [][\A p \in Procs : trap[p] /\ status[p] = "RUNNING" /\ status'[p] # "RUNNING"
        => p \in past'.returned \/ p \in past.killed]_vars

\* erl.go:243-260: whoever called SpawnMonitor hears of the end of the process,
\* however fast that comes, as long as it lives itself and did not demonitor.
SpawnMonitorAnswered ==
  \A r \in Refs : \A p \in Procs : \A q \in Procs \ {p} :
    r \in DOMAIN monitor /\ monitor[r] = [owner |-> p, target |-> q, spawned |-> TRUE] /\ Reported(q)
      ~> \/ Downs(r) # {} \/ r \in past.demonitored \/ Sibling(r)
         \/ status[p] # "RUNNING"

\* erl.go:162-177: a process that called SpawnLink and does not trap exits does
\* not survive an abnormal end of the new process.
SpawnLinkPropagates ==
  \A p \in Procs : \A q \in Procs \ {p} :
    parent[q] = [kind |-> "link", pid |-> p] /\ Reported(q) /\ reason[q] # "normal"
      ~> status[p] # "RUNNING" \/ trap[p] \/ {p, q} \in past.unlinked

\* Whoever spawns a process with a tie to it hears of its end.
SpawnerHears == SpawnMonitorAnswered /\ SpawnLinkPropagates

\* "You'll always got a DownMsg/ExitMsg if you link to a process even if it's
\* already dead" (process.go:352-353): no link or monitor signal is lost.
NoSignalLost == past.lost = {}

-----------------------------------------------------------------------------
(* What makes these invariants inductive.                                  *)

Gone(p) == status[p] \in {"EXITING", "EXITED"}

\* How status, run, the Runnable and the signal inbox go together.
Control ==
  \A p \in Procs :
    /\ status[p] = "unborn" <=> pc[p] = "unborn"
    /\ status[p] = "RUNNING" <=> pc[p] \in {"boot", "start", "loop"}
    /\ status[p] = "EXITED" <=> pc[p] = "stopped"
    /\ rbl[p] = "none" <=> pc[p] \in {"unborn", "boot", "start"}
    /\ rbl[p] \in {"finished", "vanished"} => Gone(p)
    /\ pc[p] = "stopped" => rbl[p] = "finished"
    /\ rbl[p] # "active" => out[Rbl(p)] = <<>>
    /\ pc[p] \in {"unborn", "boot", "drain", "await", "stopped"} => out[Run(p)] = <<>>
    /\ closed[p] <=> pc[p] \in {"absorb", "notify", "await", "stopped"}
    /\ pc[p] \in {"notify", "await", "stopped"} => receive[p] = <<>>
    /\ pc[p] \in {"unborn", "boot", "await", "stopped"} =>
         links[p] = {} /\ monitors[p] = {} /\ monitoring[p] = {}
    /\ rbl[p] \in {"returning", "panicked"} \/ Gone(p) => reason[p] # "none"

Owner(r)  == monitor[r].owner
Target(r) == monitor[r].target
MonSig(r) == MonitorSig(r, Owner(r), Target(r))

\* What a signal that is for q says is so.
Sound(q, sig) ==
  /\ Known(q)
  /\ sig.type \in {"monitor", "demonitor", "down"} => sig.ref \in DOMAIN monitor
  /\ sig.type = "monitor" => sig = MonSig(sig.ref) /\ q \in {Owner(sig.ref), Target(sig.ref)}
  /\ sig.type = "demonitor" =>
       /\ sig.origin = Owner(sig.ref) /\ q \in {Owner(sig.ref), Target(sig.ref)}
       /\ sig.ref \in past.demonitored \/ Gone(sig.origin)
  /\ sig.type = "down" =>
       /\ q = Owner(sig.ref) /\ sig.proc = Target(sig.ref)
       /\ Gone(sig.proc) /\ sig.reason \in {reason[sig.proc], "noproc"}
  /\ sig.type = "link" => Known(sig.pid)
  /\ sig.type = "unlink" => {q, sig.pid} \in past.unlinked
  /\ sig.type = "exit" /\ sig.link => Gone(sig.sender)
  /\ sig.type = "exit" /\ Untrappable(sig) => q \in past.killed

\* The answer to one's own half of a monitor: it goes nowhere.
Void(l) == ~l.checked /\ l.sig.type = "down" /\ l.sig.proc = l.to /\ Gone(l.to)

\* Which goroutine a signal comes from.
From(g, l) ==
  /\ l.sig.type = "msg" => g = Rbl(l.sig.sender)
  /\ l.sig.type = "demonitor" /\ l.to = l.sig.origin =>
       g = Rbl(l.to) /\ l.sig.ref \in past.demonitored

Valid(g, l) == From(g, l) /\ (Void(l) \/ Sound(l.to, l.sig))

SoundLetters == \A g \in Goroutines : \A i \in DOMAIN out[g] : Valid(g, out[g][i])

SoundInboxes ==
  \A p \in Procs :
    /\ \A i \in DOMAIN receive[p] : Sound(p, receive[p][i])
    /\ \A i \in DOMAIN mailbox[p] : Sound(p, mailbox[p][i])

SoundLists ==
  /\ \A r \in DOMAIN monitor : Owner(r) # Target(r) /\ Known(Owner(r)) /\ Known(Target(r))
  /\ \A p \in Procs :
       /\ \A q \in links[p] : Known(q)
       /\ \A m \in monitors[p] :
            m.ref \in DOMAIN monitor /\ m.pid = Owner(m.ref) /\ p = Target(m.ref)
       /\ \A e \in monitoring[p] :
            e.ref \in DOMAIN monitor /\ p = Owner(e.ref) /\ e.pid = Target(e.ref)
       /\ parent[p].kind # "none" => parent[p].pid # p /\ Known(parent[p].pid)
       /\ parent[p].kind = "monitor" =>
            /\ parent[p].ref \in DOMAIN monitor /\ monitor[parent[p].ref].spawned
            /\ parent[p].pid = Owner(parent[p].ref) /\ p = Target(parent[p].ref)

SoundHistory ==
  /\ \A l \in past.lost : closed[l.to]
  /\ \A t \in past.told : Gone(t[2])
  /\ past.demonitored \subseteq DOMAIN monitor /\ past.silenced \subseteq past.demonitored

Truthful == SoundLetters /\ SoundInboxes /\ SoundLists /\ SoundHistory

\* The end of a process is the last its mailboxes have of a Runnable that returned.
Orderly ==
  /\ \A p \in past.returned : rbl[p] \in {"finished", "vanished"}
  /\ \A q \in Procs : \A i \in DOMAIN receive[q] : receive[q][i].type = "msg" =>
       LET p == receive[q][i].sender IN
       p \in past.returned =>
         /\ \A j \in 1 .. i : receive[q][j].type = "down" => receive[q][j].proc # p
         /\ \A j \in DOMAIN mailbox[q] : mailbox[q][j].type = "down" => mailbox[q][j].proc # p

\* A signal on its way to q.
Posted(q, sig)   == \E g \in Goroutines : \E i \in DOMAIN out[g] :
                      out[g][i].to = q /\ out[g][i].sig = sig
Waiting(q, sig)  == \E i \in DOMAIN receive[q] : receive[q][i] = sig
Underway(q, sig) == Posted(q, sig) \/ Waiting(q, sig)

\* A process that is linked to another, or about to be, is about to be told of its end.
Wants(p, q) == q \in links[p] \/ Underway(p, LinkSig(q))
Tied(p, q) ==
  \/ Gone(p) \/ p \in links[q] \/ Underway(q, LinkSig(p))
  \/ \E why \in ExitReasons : Underway(p, ExitSig(q, why, TRUE))
  \/ <<p, q>> \in past.told \/ [to |-> q, sig |-> LinkSig(p)] \in past.lost

LinksTied ==
  \A p, q \in Procs : p # q /\ {p, q} \notin past.unlinked /\ Wants(p, q) => Tied(p, q)

\* The stages of a monitor: with the process that is being spawned, on its way to the
\* target, with the target, and back as a DOWN signal.
Stages == {"booting", "posted", "waiting", "watched", "sent", "back", "heard"}

Booting(r) ==
  pc[Target(r)] = "boot" /\ parent[Target(r)] = [kind |-> "monitor", pid |-> Owner(r), ref |-> r]

SentAt(r, g, i) == i \in DOMAIN out[g] /\ IsDown(out[g][i].sig, r) /\ ~Void(out[g][i])
BackAt(r, i)    == i \in DOMAIN receive[Owner(r)] /\ IsDown(receive[Owner(r)][i], r)
HeardAt(r, i)   == i \in DOMAIN mailbox[Owner(r)] /\ IsDown(mailbox[Owner(r)][i], r)

At(r, stage) ==
  CASE stage = "booting" -> Booting(r)
    [] stage = "posted"  -> Posted(Target(r), MonSig(r))
    [] stage = "waiting" -> Waiting(Target(r), MonSig(r))
    [] stage = "watched" -> [pid |-> Owner(r), ref |-> r] \in monitors[Target(r)]
    [] stage = "sent"    -> \E g \in Goroutines : \E i \in DOMAIN out[g] : SentAt(r, g, i)
    [] stage = "back"    -> \E i \in DOMAIN receive[Owner(r)] : BackAt(r, i)
    [] stage = "heard"   -> \E i \in DOMAIN mailbox[Owner(r)] : HeardAt(r, i)

\* At most one of them, and once ...
Single(r) ==
  /\ \A s, t \in Stages : At(r, s) /\ At(r, t) => s = t
  /\ \A i, j \in DOMAIN receive[Target(r)] :
       receive[Target(r)][i] = MonSig(r) /\ receive[Target(r)][j] = MonSig(r) => i = j
  /\ \A g, h \in Goroutines : \A i \in DOMAIN out[g], j \in DOMAIN out[h] :
       SentAt(r, g, i) /\ SentAt(r, h, j) => g = h /\ i = j
  /\ \A i, j \in DOMAIN receive[Owner(r)] : BackAt(r, i) /\ BackAt(r, j) => i = j
  /\ \A i, j \in DOMAIN mailbox[Owner(r)] : HeardAt(r, i) /\ HeardAt(r, j) => i = j

\* ... and one of them, but for those that a property excepts.
Answerable(r) ==
  \/ Gone(Owner(r)) \/ r \in past.demonitored \/ Sibling(r)
  \/ \E s \in Stages : At(r, s)
  \/ ~monitor[r].spawned /\ [to |-> Target(r), sig |-> MonSig(r)] \in past.lost

\* The letters of Monitor and SpawnMonitor: the owner's half goes first, and a
\* Demonitor comes after both.
Ordered(r) ==
  LET o == Owner(r)
      t == Target(r)
  IN
  /\ \A g \in Goroutines : \A i \in DOMAIN out[g] : out[g][i].sig = MonSig(r) =>
       IF monitor[r].spawned
         THEN g = Run(t) /\ out[g][i].to = o /\ pc[t] = "start"
         ELSE /\ g = Rbl(o) /\ r \notin past.demonitored
              /\ out[g][i].to = t => i = Len(out[g])
              /\ out[g][i].to = o =>
                   i = 1 /\ Len(out[g]) = 2 /\ out[g][2] = Letter(t, MonSig(r))
  /\ monitor[r].spawned => ~Waiting(t, MonSig(r))
  /\ ~monitor[r].spawned /\ ~Gone(o) =>
       \A j, k \in DOMAIN receive[o] :
         receive[o][j] = DemonitorSig(r, o) /\ receive[o][k] = MonSig(r) => k < j

\* The owner knows the Ref before a DOWN signal comes.
Expected(r) ==
  LET o == Owner(r) IN
  \/ Gone(o) \/ r \in past.demonitored
  \/ /\ Booting(r) \/ Underway(o, MonSig(r)) \/ KnownRef(o, r)
     /\ \A i \in DOMAIN receive[o] : BackAt(r, i) =>
          KnownRef(o, r) \/ \E k \in 1 .. i - 1 : receive[o][k] = MonSig(r)

\* A Ref that was demonitored in time is not known any more when a DOWN signal comes.
Hushed(r) ==
  LET o     == Owner(r)
      knows == KnownRef(o, r) \/ Waiting(o, MonSig(r))
  IN
  r \in past.silenced /\ ~monitor[r].spawned =>
    /\ ~Posted(o, MonSig(r)) /\ ~At(r, "heard")
    /\ ~Gone(o) =>
         /\ knows => Waiting(o, DemonitorSig(r, o))
         /\ \A i \in DOMAIN receive[o] : BackAt(r, i) =>
              ~knows \/ \E j \in 1 .. i - 1 : receive[o][j] = DemonitorSig(r, o)

Monitored == \A r \in DOMAIN monitor :
  Single(r) /\ Answerable(r) /\ Ordered(r) /\ Expected(r) /\ Hushed(r)

\* The inductive invariant: an exited process has nothing left to do, every signal says
\* what is so, and whoever links or monitors has been told or is about to be.
IInv == Inv /\ Control /\ Truthful /\ Orderly /\ LinksTied /\ Monitored
=============================================================================

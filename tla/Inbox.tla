-------------------------------- MODULE Inbox --------------------------------
(***************************************************************************)
(* erl/internal/inbox: the queue behind every process.  Enqueue, Pop,      *)
(* Drain and Close each hold the mutex from start to end, so each is one   *)
(* step; BlockingPop gives the mutex up inside cond.Wait, so a consumer    *)
(* that finds the queue empty joins the waiters and looks again after a    *)
(* Broadcast.  Channel starts a pump: a goroutine that pops one message    *)
(* and then blocks on an unbuffered channel until the reader takes it.     *)
(*                                                                         *)
(* Messages are numbered in the order Enqueue accepts them.                *)
(***************************************************************************)
EXTENDS Naturals, Sequences, FiniteSets

CONSTANTS
  Iterators,    \* goroutines ranging over Iter()
  Pump,         \* the goroutine started by Channel()
  Caller,       \* whoever calls the non-blocking Pop()
  MaxMsgs       \* bound on the messages enqueued

ASSUME GoroutineAssumption ==
  /\ IsFiniteSet(Iterators)
  /\ Pump \notin Iterators
  /\ Caller \notin Iterators \cup {Pump}

ASSUME BoundAssumption == MaxMsgs \in Nat

VARIABLES
  msgQ,       \* i.msgQ
  closed,     \* i.closed
  pc,         \* what each blocking consumer is doing
  hand,       \* the message a consumer has popped and not yet passed on
  reading,    \* the channel's reader still receives from it
  accepted,   \* history: the messages Enqueue returned true for
  delivered   \* history: per consumer, the messages it has passed on

vars == <<msgQ, closed, pc, hand, reading, accepted, delivered>>

Consumers == Iterators \cup {Pump}
Takers    == Consumers \cup {Caller}
None      == 0

TypeOK ==
  /\ msgQ \in Seq(1 .. MaxMsgs)
  /\ closed \in BOOLEAN
  /\ pc \in [Consumers -> {"pop", "wait", "hold", "end"}]
  /\ hand \in [Consumers -> 0 .. MaxMsgs]
  /\ reading \in BOOLEAN
  /\ accepted \in Seq(1 .. MaxMsgs)
  /\ delivered \in [Takers -> Seq(1 .. MaxMsgs)]

Init ==
  /\ msgQ = <<>>
  /\ closed = FALSE
  /\ pc = [g \in Consumers |-> "pop"]
  /\ hand = [g \in Consumers |-> None]
  /\ reading = TRUE
  /\ accepted = <<>>
  /\ delivered = [t \in Takers |-> <<>>]

-----------------------------------------------------------------------------
\* Mutant: cond.Signal, which wakes one waiter only.
BroadcastOne ==
  LET waiters == {g \in Consumers : pc[g] = "wait"} IN
  IF waiters = {} THEN pc ELSE [pc EXCEPT ![CHOOSE g \in waiters : TRUE] = "pop"]

\* cond.Broadcast: every waiter competes for the mutex again.
Broadcast == [g \in Consumers |-> IF pc[g] = "wait" THEN "pop" ELSE pc[g]]

\* Mutant: Enqueue without its test of closed.
EnqueueAnyway ==
  LET m == Len(accepted) + 1 IN
  /\ m <= MaxMsgs
  /\ msgQ' = Append(msgQ, m)
  /\ accepted' = Append(accepted, m)
  /\ pc' = Broadcast
  /\ UNCHANGED <<closed, hand, reading, delivered>>

\* On a closed inbox Enqueue returns false and changes nothing.
Enqueue ==
  LET m == Len(accepted) + 1 IN
  /\ ~closed
  /\ m <= MaxMsgs
  /\ msgQ' = Append(msgQ, m)
  /\ accepted' = Append(accepted, m)
  /\ pc' = Broadcast
  /\ UNCHANGED <<closed, hand, reading, delivered>>

\* i.msgQ = i.msgQ[1:]
Remainder == Tail(msgQ)

\* Pop: an error once closed (even when messages remain), else the head if any.
Pop ==
  /\ ~closed
  /\ msgQ # <<>>
  /\ delivered' = [delivered EXCEPT ![Caller] = Append(@, Head(msgQ))]
  /\ msgQ' = Remainder
  /\ UNCHANGED <<closed, pc, hand, reading, accepted>>

\* BlockingPop's loop condition holds: the consumer waits and frees the mutex.
BlockingPopWaits(g) ==
  /\ pc[g] = "pop" /\ msgQ = <<>> /\ ~closed
  /\ pc' = [pc EXCEPT ![g] = "wait"]
  /\ UNCHANGED <<msgQ, closed, hand, reading, accepted, delivered>>

\* BlockingPop returns an error: Iter returns, the pump closes its channel.
BlockingPopClosed(g) ==
  /\ pc[g] = "pop" /\ closed
  /\ pc' = [pc EXCEPT ![g] = "end"]
  /\ UNCHANGED <<msgQ, closed, hand, reading, accepted, delivered>>

\* Mutant: `if` in place of `for` around cond.Wait, so that a consumer that was
\* beaten to the message returns the zero value.
BlockingPopUnchecked(g) ==
  /\ pc[g] = "pop" /\ ~closed
  /\ hand' = [hand EXCEPT ![g] = IF msgQ = <<>> THEN None ELSE Head(msgQ)]
  /\ msgQ' = IF msgQ = <<>> THEN msgQ ELSE Remainder
  /\ pc' = [pc EXCEPT ![g] = "hold"]
  /\ UNCHANGED <<closed, reading, accepted, delivered>>

\* BlockingPop returns the head.
BlockingPopTakes(g) ==
  /\ pc[g] = "pop" /\ ~closed /\ msgQ # <<>>
  /\ hand' = [hand EXCEPT ![g] = Head(msgQ)]
  /\ msgQ' = Remainder
  /\ pc' = [pc EXCEPT ![g] = "hold"]
  /\ UNCHANGED <<closed, reading, accepted, delivered>>

BlockingPop(g) == BlockingPopWaits(g) \/ BlockingPopClosed(g) \/ BlockingPopTakes(g)

\* The message in g's hand goes to g's user; g turns to `next`.
PassOn(g, next) ==
  /\ pc[g] = "hold"
  /\ delivered' = [delivered EXCEPT ![g] = Append(@, hand[g])]
  /\ hand' = [hand EXCEPT ![g] = None]
  /\ pc' = [pc EXCEPT ![g] = next]
  /\ UNCHANGED <<msgQ, closed, reading, accepted>>

\* The loop body of a range over Iter: it asks for another message or breaks.
Yield(g) == g \in Iterators /\ \E next \in {"pop", "end"} : PassOn(g, next)

\* c <- item meets a receive of the reader.
ChannelSend == reading /\ PassOn(Pump, "pop")

\* The reader turns away from the channel without telling anyone.
StopReading ==
  /\ reading
  /\ reading' = FALSE
  /\ UNCHANGED <<msgQ, closed, pc, hand, accepted, delivered>>

\* Close, and Drain: both close an open inbox, wake the waiters and leave msgQ
\* where it is; on a closed inbox neither changes anything.  What Drain returns
\* is msgQ as it then stands.
Close ==
  /\ ~closed
  /\ closed' = TRUE
  /\ pc' = Broadcast
  /\ UNCHANGED <<msgQ, hand, reading, accepted, delivered>>

Next ==
  \/ Enqueue \/ Pop \/ Close
  \/ \E g \in Consumers : BlockingPop(g) \/ Yield(g)
  \/ ChannelSend \/ StopReading

Spec == Init /\ [][Next]_vars

\* A goroutine that can run does run, and a loop body is finite.  Nobody has to
\* enqueue, to close, to poll with Pop or to stop reading.
Fairness ==
  /\ \A g \in Consumers : WF_vars(BlockingPop(g))
  /\ \A g \in Iterators : WF_vars(Yield(g))
  /\ WF_vars(ChannelSend)

FairSpec == Spec /\ Fairness

-----------------------------------------------------------------------------
\* No consumer sleeps in cond.Wait while there is a message for it, or after
\* the inbox was closed (inbox.go:84-86 against the Broadcasts of Enqueue,
\* Drain and Close): the lost wake-up a condition variable invites.
NoStrandedWaiter ==
  \A g \in Consumers : pc[g] = "wait" => msgQ = <<>> /\ ~closed

\* A consumer has a message in its hand exactly while it is about to pass it on.
HandsFull == \A g \in Consumers : pc[g] = "hold" <=> hand[g] # None

\* Where message m may be: in the queue, in a hand, or with the user it went to.
Queued(m)  == \E n \in DOMAIN msgQ : msgQ[n] = m
Held(m)    == \E g \in Consumers : hand[g] = m
Used(m)    == \E t \in Takers : \E n \in DOMAIN delivered[t] : delivered[t][n] = m

\* What was accepted, and nothing else, is in one of these, and there once.
Once ==
  /\ \A i \in DOMAIN accepted : accepted[i] = i
  /\ \A m \in 1 .. MaxMsgs :
       /\ m <= Len(accepted) <=> Queued(m) \/ Held(m) \/ Used(m)
       /\ ~(Queued(m) /\ Held(m)) /\ ~(Queued(m) /\ Used(m)) /\ ~(Held(m) /\ Used(m))
  /\ \A i, j \in DOMAIN msgQ : msgQ[i] = msgQ[j] => i = j
  /\ \A g, h \in Consumers : hand[g] = hand[h] /\ hand[g] # None => g = h
  /\ \A t, u \in Takers : \A i \in DOMAIN delivered[t], j \in DOMAIN delivered[u] :
       delivered[t][i] = delivered[u][j] => t = u /\ i = j

\* The inductive invariant: without HandsFull a consumer could pass on the zero
\* value, and the types would not be kept.
IInv == TypeOK /\ HandsFull /\ NoStrandedWaiter /\ Once

\* "closees all iterators and channels" (inbox.go:176): once closed, every
\* iterator ends, and so does the pump as long as somebody reads its channel.
\* When the reader has turned away the pump may hold its message for ever.
CloseEndsConsumers ==
  closed ~> /\ \A g \in Iterators : pc[g] = "end"
            /\ reading => pc[Pump] = "end"

\* While somebody reads the channel, an accepted message does not stay queued:
\* it is taken, or the inbox is closed.
NoMessageStuck ==
  \A m \in 1 .. MaxMsgs :
    (\E i \in DOMAIN msgQ : msgQ[i] = m)
      ~> \/ ~ \E i \in DOMAIN msgQ : msgQ[i] = m
         \/ closed
         \/ ~reading

\* Both: nobody who consumes is left waiting.
ConsumersServed == CloseEndsConsumers /\ NoMessageStuck

\* The inbox keeps the promise of Mailbox: what leaves the queue is its oldest
\* message, and nothing enters or leaves it once it is closed.
Abstract == INSTANCE Mailbox WITH queue <- msgQ, open <- ~closed, history <- accepted

ImplementsMailbox == Abstract!MailboxSpec
=============================================================================

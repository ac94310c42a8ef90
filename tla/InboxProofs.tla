----------------------------- MODULE InboxProofs -----------------------------
(***************************************************************************)
(* Inbox for any number of consumers and messages: its types, that no      *)
(* consumer misses a wake-up, and that it implements Mailbox.              *)
(***************************************************************************)
EXTENDS Inbox, FiniteSetTheorems, TLAPS

\* The inductive invariant without the places of the messages.
Safe == TypeOK /\ HandsFull /\ NoStrandedWaiter

USE BoundAssumption, GoroutineAssumption DEF Consumers, Takers, None

-----------------------------------------------------------------------------
\* The initial state: everybody looks into an empty queue.
LEMMA InitEstablishes == Init => Safe
<1> SUFFICES ASSUME Init PROVE Safe
  OBVIOUS
<1>1. \A S : <<>> \in Seq(S)
  OBVIOUS
<1>2. delivered \in [Takers -> Seq(1 .. MaxMsgs)]
  BY <1>1 DEF Init
<1>3. msgQ \in Seq(1 .. MaxMsgs) /\ accepted \in Seq(1 .. MaxMsgs)
  BY <1>1 DEF Init
<1>4. pc \in [Consumers -> {"pop", "wait", "hold", "end"}] /\ hand \in [Consumers -> 0 .. MaxMsgs]
  BY DEF Init
<1>5. TypeOK
  BY <1>2, <1>3, <1>4 DEF Init, TypeOK
<1>6. HandsFull /\ NoStrandedWaiter
  BY DEF Init, HandsFull, NoStrandedWaiter
<1> QED
  BY <1>5, <1>6 DEF Safe

\* Broadcast leaves nobody waiting, and touches nobody else.
LEMMA BroadcastWakes ==
  ASSUME TypeOK
  PROVE  /\ Broadcast \in [Consumers -> {"pop", "wait", "hold", "end"}]
         /\ \A g \in Consumers : Broadcast[g] # "wait"
         /\ \A g \in Consumers : Broadcast[g] = "hold" <=> pc[g] = "hold"
  BY DEF TypeOK, Broadcast

\* The head of the queue is a message, and what follows it a queue.
LEMMA HeadIsMessage ==
  ASSUME TypeOK, msgQ # <<>>
  PROVE  Head(msgQ) \in 1 .. MaxMsgs /\ Remainder \in Seq(1 .. MaxMsgs)
  BY DEF TypeOK, Remainder

\* Enqueue wakes every waiter, so the queue it fills has nobody sleeping on it.
LEMMA EnqueueKeeps == Safe /\ Enqueue => Safe'
<1> SUFFICES ASSUME Safe, Enqueue PROVE Safe'
  OBVIOUS
<1>1. Len(accepted) + 1 \in 1 .. MaxMsgs
  BY DEF Safe, TypeOK, Enqueue
<1>2. TypeOK'
  BY <1>1, BroadcastWakes DEF Safe, TypeOK, Enqueue
<1>3. HandsFull' /\ NoStrandedWaiter'
  BY BroadcastWakes DEF Safe, HandsFull, NoStrandedWaiter, Enqueue
<1> QED
  BY <1>2, <1>3 DEF Safe

\* Pop only shortens the queue.
LEMMA PopKeeps == Safe /\ Pop => Safe'
<1> SUFFICES ASSUME Safe, Pop PROVE Safe'
  OBVIOUS
<1>1. Head(msgQ) \in 1 .. MaxMsgs /\ Remainder \in Seq(1 .. MaxMsgs)
  BY HeadIsMessage DEF Safe, Pop
<1>2. TypeOK'
  BY <1>1 DEF Safe, TypeOK, Pop
<1>3. HandsFull' /\ NoStrandedWaiter'
  BY DEF Safe, HandsFull, NoStrandedWaiter, Pop
<1> QED
  BY <1>2, <1>3 DEF Safe

\* Close and Drain wake every waiter too.
LEMMA CloseKeeps == Safe /\ Close => Safe'
  BY BroadcastWakes DEF Safe, TypeOK, HandsFull, NoStrandedWaiter, Close

\* BlockingPop: a consumer only goes to sleep on an empty, open queue.
LEMMA BlockingPopKeeps ==
  ASSUME Safe, NEW g \in Consumers, BlockingPop(g)
  PROVE  Safe'
<1>1. CASE BlockingPopWaits(g)
  BY <1>1 DEF Safe, TypeOK, HandsFull, NoStrandedWaiter, BlockingPopWaits
<1>2. CASE BlockingPopClosed(g)
  BY <1>2 DEF Safe, TypeOK, HandsFull, NoStrandedWaiter, BlockingPopClosed
<1>3. CASE BlockingPopTakes(g)
  <2>1. Head(msgQ) \in 1 .. MaxMsgs /\ Remainder \in Seq(1 .. MaxMsgs)
    BY <1>3, HeadIsMessage DEF Safe, BlockingPopTakes
  <2>2. TypeOK'
    BY <1>3, <2>1 DEF Safe, TypeOK, BlockingPopTakes
  <2>3. HandsFull'
    BY <1>3, <2>1 DEF Safe, TypeOK, HandsFull, BlockingPopTakes
  <2>4. NoStrandedWaiter'
    BY <1>3 DEF Safe, TypeOK, NoStrandedWaiter, BlockingPopTakes
  <2> QED
    BY <2>2, <2>3, <2>4 DEF Safe
<1> QED
  BY <1>1, <1>2, <1>3 DEF BlockingPop

\* A message that is passed on was in the hand, so it is a message.
LEMMA PassOnKeeps ==
  ASSUME Safe, NEW g \in Consumers, NEW next \in {"pop", "end"}, PassOn(g, next)
  PROVE  Safe'
<1>1. hand[g] \in 1 .. MaxMsgs
  BY DEF Safe, TypeOK, HandsFull, PassOn
<1>2. delivered' \in [Takers -> Seq(1 .. MaxMsgs)]
  <2>1. Append(delivered[g], hand[g]) \in Seq(1 .. MaxMsgs)
    BY <1>1 DEF Safe, TypeOK
  <2> QED
    BY <2>1 DEF Safe, TypeOK, PassOn
<1>3. TypeOK'
  BY <1>2 DEF Safe, TypeOK, PassOn
<1>4. HandsFull' /\ NoStrandedWaiter'
  BY DEF Safe, TypeOK, HandsFull, NoStrandedWaiter, PassOn
<1> QED
  BY <1>3, <1>4 DEF Safe

\* Every step keeps the invariant.
LEMMA NextKeeps == Safe /\ [Next]_vars => Safe'
<1> SUFFICES ASSUME Safe, [Next]_vars PROVE Safe'
  OBVIOUS
<1>1. ASSUME NEW g \in Consumers, Yield(g) PROVE Safe'
  BY <1>1, PassOnKeeps DEF Yield
<1>2. CASE ChannelSend
  BY <1>2, PassOnKeeps DEF ChannelSend
<1>3. CASE StopReading
  BY <1>3 DEF Safe, TypeOK, HandsFull, NoStrandedWaiter, StopReading
<1>4. CASE UNCHANGED vars
  BY <1>4 DEF Safe, TypeOK, HandsFull, NoStrandedWaiter, vars
<1> QED
  BY <1>1, <1>2, <1>3, <1>4, EnqueueKeeps, PopKeeps, CloseKeeps, BlockingPopKeeps DEF Next

-----------------------------------------------------------------------------
(* Once: where the messages are.                                           *)

\* Nothing has been accepted at the start.
LEMMA InitOnce == Init => Once
  BY DEF Init, Once, Queued, Held, Used

\* The queue after Enqueue, Pop and BlockingPop, entry by entry.
LEMMA Appended ==
  ASSUME NEW S, NEW s \in Seq(S), NEW e \in S
  PROVE  /\ Append(s, e) \in Seq(S)
         /\ Len(Append(s, e)) = Len(s) + 1
         /\ DOMAIN Append(s, e) = DOMAIN s \cup {Len(s) + 1}
         /\ \A i \in DOMAIN s : Append(s, e)[i] = s[i]
         /\ Append(s, e)[Len(s) + 1] = e
  OBVIOUS

LEMMA HeadRemoved ==
  ASSUME TypeOK, msgQ # <<>>
  PROVE  /\ 1 \in DOMAIN msgQ /\ Head(msgQ) = msgQ[1]
         /\ \A i \in DOMAIN Remainder : i + 1 \in DOMAIN msgQ /\ Remainder[i] = msgQ[i + 1]
         /\ \A i \in DOMAIN msgQ : i # 1 => i - 1 \in DOMAIN Remainder /\ Remainder[i - 1] = msgQ[i]
<1>1. msgQ \in Seq(1 .. MaxMsgs) /\ Len(msgQ) \in Nat /\ Len(msgQ) > 0
  BY DEF TypeOK
<1>2. DOMAIN msgQ = 1 .. Len(msgQ) /\ DOMAIN Remainder = 1 .. Len(msgQ) - 1
  BY <1>1 DEF Remainder
<1>3. \A i \in 1 .. Len(msgQ) - 1 : Remainder[i] = msgQ[i + 1]
  BY <1>1 DEF Remainder
<1>4. Head(msgQ) = msgQ[1]
  BY <1>1
<1> QED
  BY <1>1, <1>2, <1>3, <1>4

\* A new message is the next number, so it was nowhere before.
LEMMA EnqueueOnce == TypeOK /\ Once /\ Enqueue => Once'
<1> SUFFICES ASSUME TypeOK, Once, Enqueue PROVE Once'
  OBVIOUS
<1> DEFINE m == Len(accepted) + 1
<1>1. m \in 1 .. MaxMsgs /\ accepted \in Seq(1 .. MaxMsgs) /\ msgQ \in Seq(1 .. MaxMsgs)
  BY DEF TypeOK, Enqueue
<1>2. msgQ' = Append(msgQ, m) /\ accepted' = Append(accepted, m) /\ UNCHANGED <<hand, delivered>>
  BY DEF Enqueue
<1>3. /\ DOMAIN accepted' = DOMAIN accepted \cup {m} /\ Len(accepted') = m
      /\ \A i \in DOMAIN accepted : accepted'[i] = accepted[i]
      /\ accepted'[m] = m
  BY <1>1, <1>2, Appended
<1>4. /\ DOMAIN msgQ' = DOMAIN msgQ \cup {Len(msgQ) + 1}
      /\ \A i \in DOMAIN msgQ : msgQ'[i] = msgQ[i]
      /\ msgQ'[Len(msgQ) + 1] = m
  BY <1>1, <1>2, Appended
<1>5. ~Queued(m) /\ ~Held(m) /\ ~Used(m)
  BY <1>1 DEF Once
<1>6. \A k : /\ Queued(k)' <=> Queued(k) \/ k = m
             /\ Held(k)' <=> Held(k)
             /\ Used(k)' <=> Used(k)
  BY <1>2, <1>4 DEF Queued, Held, Used
<1>7. \A i \in DOMAIN accepted' : accepted'[i] = i
  BY <1>3 DEF Once
<1>8. \A k \in 1 .. MaxMsgs :
        /\ k <= Len(accepted') <=> Queued(k)' \/ Held(k)' \/ Used(k)'
        /\ ~(Queued(k)' /\ Held(k)') /\ ~(Queued(k)' /\ Used(k)') /\ ~(Held(k)' /\ Used(k)')
  <2> SUFFICES ASSUME NEW k \in 1 .. MaxMsgs
      PROVE  /\ k <= Len(accepted') <=> Queued(k)' \/ Held(k)' \/ Used(k)'
             /\ ~(Queued(k)' /\ Held(k)') /\ ~(Queued(k)' /\ Used(k)') /\ ~(Held(k)' /\ Used(k)')
    OBVIOUS
  <2>1. k <= Len(accepted') <=> k <= Len(accepted) \/ k = m
    BY <1>1, <1>3
  <2>2. /\ k <= Len(accepted) <=> Queued(k) \/ Held(k) \/ Used(k)
        /\ ~(Queued(k) /\ Held(k)) /\ ~(Queued(k) /\ Used(k)) /\ ~(Held(k) /\ Used(k))
    BY DEF Once
  <2> QED
    BY <2>1, <2>2, <1>5, <1>6
<1>9. \A i, j \in DOMAIN msgQ' : msgQ'[i] = msgQ'[j] => i = j
  BY <1>4, <1>5 DEF Once, Queued
<1> QED
  BY <1>2, <1>7, <1>8, <1>9 DEF Once, Queued, Held, Used

\* A message that leaves the queue is with whoever took it, and with nobody else.
LEMMA QueueShortened ==
  ASSUME TypeOK, Once, msgQ # <<>>, msgQ' = Remainder
  PROVE  /\ \A k : Queued(k)' <=> Queued(k) /\ k # Head(msgQ)
         /\ Head(msgQ) \in 1 .. MaxMsgs /\ Queued(Head(msgQ))
         /\ ~Held(Head(msgQ)) /\ ~Used(Head(msgQ))
         /\ \A i, j \in DOMAIN msgQ' : msgQ'[i] = msgQ'[j] => i = j
<1>1. Head(msgQ) \in 1 .. MaxMsgs /\ Queued(Head(msgQ))
  BY HeadIsMessage, HeadRemoved DEF Queued
<1>2. ~Held(Head(msgQ)) /\ ~Used(Head(msgQ))
  BY <1>1 DEF Once
<1>3. ASSUME NEW i \in DOMAIN msgQ', NEW j \in DOMAIN msgQ', msgQ'[i] = msgQ'[j]
      PROVE  i = j
  <2>1. i \in Int /\ j \in Int
    BY HeadIsMessage
  <2>2. msgQ[i + 1] = msgQ[j + 1] /\ i + 1 \in DOMAIN msgQ /\ j + 1 \in DOMAIN msgQ
    BY <1>3, HeadRemoved
  <2>3. i + 1 = j + 1
    BY <2>2 DEF Once
  <2> QED
    BY <2>1, <2>3
<1>4. ASSUME NEW k, Queued(k)' PROVE Queued(k) /\ k # Head(msgQ)
  <2>1. PICK i \in DOMAIN msgQ' : msgQ'[i] = k
    BY <1>4 DEF Queued
  <2>2. i \in Nat /\ i + 1 \in DOMAIN msgQ /\ msgQ[i + 1] = k
    BY <2>1, HeadRemoved, HeadIsMessage
  <2>3. i + 1 # 1
    BY <2>2, <2>1, HeadIsMessage
  <2>4. k # msgQ[1]
    BY <2>2, <2>3, HeadRemoved DEF Once
  <2> QED
    BY <2>2, <2>4, HeadRemoved DEF Queued
<1>5. ASSUME NEW k, Queued(k), k # Head(msgQ) PROVE Queued(k)'
  BY <1>5, HeadRemoved DEF Queued
<1> QED
  BY <1>1, <1>2, <1>3, <1>4, <1>5

\* What a user gets is with that user from then on, and with no other.
LEMMA UserGets ==
  ASSUME TypeOK, Once, NEW t \in Takers, NEW m \in 1 .. MaxMsgs, ~Used(m),
         delivered' = [delivered EXCEPT ![t] = Append(@, m)]
  PROVE  /\ \A k : Used(k)' <=> Used(k) \/ k = m
         /\ \A u, v \in Takers : \A i \in DOMAIN delivered'[u], j \in DOMAIN delivered'[v] :
              delivered'[u][i] = delivered'[v][j] => u = v /\ i = j
<1> DEFINE n == Len(delivered[t]) + 1
<1>1. \A u \in Takers : delivered[u] \in Seq(1 .. MaxMsgs)
  BY DEF TypeOK
<1>2. \A u \in Takers : delivered'[u] = IF u = t THEN Append(delivered[t], m) ELSE delivered[u]
  BY DEF TypeOK
<1>3. /\ DOMAIN Append(delivered[t], m) = DOMAIN delivered[t] \cup {n}
      /\ \A i \in DOMAIN delivered[t] : Append(delivered[t], m)[i] = delivered[t][i]
      /\ Append(delivered[t], m)[n] = m
  BY <1>1, Appended
<1>4. n \notin DOMAIN delivered[t]
  BY <1>1
<1> HIDE DEF n
<1>5. ASSUME NEW k PROVE Used(k)' <=> Used(k) \/ k = m
  <2>1. ASSUME Used(k)' PROVE Used(k) \/ k = m
    BY <1>2, <1>3, <2>1 DEF Used
  <2>2. ASSUME Used(k) PROVE Used(k)'
    BY <1>2, <1>3, <2>2 DEF Used
  <2>3. delivered'[t][n] = m /\ n \in DOMAIN delivered'[t]
    BY <1>2, <1>3
  <2>4. Used(m)'
    BY <2>3 DEF Used
  <2> QED
    BY <2>1, <2>2, <2>4
<1>6. ASSUME NEW u \in Takers, NEW v \in Takers,
             NEW i \in DOMAIN delivered'[u], NEW j \in DOMAIN delivered'[v],
             delivered'[u][i] = delivered'[v][j]
      PROVE  u = v /\ i = j
  <2>1. \/ i \in DOMAIN delivered[u] /\ delivered'[u][i] = delivered[u][i]
        \/ u = t /\ i = n /\ delivered'[u][i] = m
    BY <1>2, <1>3
  <2>2. \/ j \in DOMAIN delivered[v] /\ delivered'[v][j] = delivered[v][j]
        \/ v = t /\ j = n /\ delivered'[v][j] = m
    BY <1>2, <1>3
  <2> QED
    BY <1>6, <2>1, <2>2 DEF Once, Used
<1> QED
  BY <1>5, <1>6

\* Pop: from the queue to the caller.
LEMMA PopOnce == TypeOK /\ Once /\ Pop => Once'
<1> SUFFICES ASSUME TypeOK, Once, Pop PROVE Once'
  OBVIOUS
<1> DEFINE m == Head(msgQ)
<1>1. msgQ # <<>> /\ msgQ' = Remainder /\ UNCHANGED <<hand, accepted>>
  BY DEF Pop
<1>2. m \in 1 .. MaxMsgs
  BY <1>1, QueueShortened
<1>3. delivered' = [delivered EXCEPT ![Caller] = Append(@, m)]
  BY DEF Pop
<1> HIDE DEF m
<1>4. /\ \A k : Used(k)' <=> Used(k) \/ k = m
      /\ \A t, u \in Takers : \A i \in DOMAIN delivered'[t], j \in DOMAIN delivered'[u] :
           delivered'[t][i] = delivered'[u][j] => t = u /\ i = j
  BY <1>1, <1>2, <1>3, QueueShortened, UserGets DEF m
<1>5. \A k : Held(k)' <=> Held(k)
  BY <1>1 DEF Held
<1>6. \A k \in 1 .. MaxMsgs :
        /\ k <= Len(accepted') <=> Queued(k)' \/ Held(k)' \/ Used(k)'
        /\ ~(Queued(k)' /\ Held(k)') /\ ~(Queued(k)' /\ Used(k)') /\ ~(Held(k)' /\ Used(k)')
  BY <1>1, <1>4, <1>5, QueueShortened DEF Once, m
<1> QED
  BY <1>1, <1>4, <1>6, QueueShortened DEF Once

\* BlockingPop: from the queue to a hand.
LEMMA BlockingPopOnce ==
  ASSUME TypeOK, HandsFull, Once, NEW g \in Consumers, BlockingPop(g)
  PROVE  Once'
<1>1. CASE BlockingPopWaits(g) \/ BlockingPopClosed(g)
  BY <1>1 DEF BlockingPopWaits, BlockingPopClosed, Once, Queued, Held, Used
<1>2. CASE BlockingPopTakes(g)
  <2> DEFINE m == Head(msgQ)
  <2>1. msgQ # <<>> /\ msgQ' = Remainder /\ UNCHANGED <<accepted, delivered>>
    BY <1>2 DEF BlockingPopTakes
  <2>2. hand[g] = None
    BY <1>2 DEF HandsFull, BlockingPopTakes, TypeOK
  <2>3. m \in 1 .. MaxMsgs /\ ~Held(m)
    BY <2>1, QueueShortened
  <2>4. \A h \in Consumers : hand'[h] = IF h = g THEN m ELSE hand[h]
    BY <1>2 DEF BlockingPopTakes, TypeOK
  <2>5. \A k \in 1 .. MaxMsgs : /\ Queued(k)' <=> Queued(k) /\ k # m
                                /\ Held(k)' <=> Held(k) \/ k = m
                                /\ Used(k)' <=> Used(k)
    BY <2>1, <2>2, <2>4, QueueShortened DEF Held, Used
  <2>6. \A h, f \in Consumers : hand'[h] = hand'[f] /\ hand'[h] # None => h = f
    BY <2>3, <2>4 DEF Once, Held
  <2>7. \A k \in 1 .. MaxMsgs :
          /\ k <= Len(accepted') <=> Queued(k)' \/ Held(k)' \/ Used(k)'
          /\ ~(Queued(k)' /\ Held(k)') /\ ~(Queued(k)' /\ Used(k)') /\ ~(Held(k)' /\ Used(k)')
    BY <2>1, <2>3, <2>5, QueueShortened DEF Once
  <2>8. \A i, j \in DOMAIN msgQ' : msgQ'[i] = msgQ'[j] => i = j
    BY <2>1, QueueShortened
  <2> QED
    BY <2>1, <2>6, <2>7, <2>8 DEF Once
<1> QED
  BY <1>1, <1>2 DEF BlockingPop

\* Iter's loop body, or the channel: from a hand to its user.
LEMMA PassOnOnce ==
  ASSUME TypeOK, HandsFull, Once, NEW g \in Consumers, NEW next \in {"pop", "end"}, PassOn(g, next)
  PROVE  Once'
<1> DEFINE m == hand[g]
<1>1. m \in 1 .. MaxMsgs /\ m # None /\ Held(m)
  BY DEF TypeOK, HandsFull, PassOn, Held
<1>2. ~Queued(m) /\ ~Used(m)
  BY <1>1 DEF Once
<1>3. delivered' = [delivered EXCEPT ![g] = Append(@, m)] /\ UNCHANGED <<msgQ, accepted>>
  BY DEF PassOn
<1>4. \A h \in Consumers : hand'[h] = IF h = g THEN None ELSE hand[h]
  BY DEF PassOn, TypeOK
<1>5. /\ \A k : Used(k)' <=> Used(k) \/ k = m
      /\ \A t, u \in Takers : \A i \in DOMAIN delivered'[t], j \in DOMAIN delivered'[u] :
           delivered'[t][i] = delivered'[u][j] => t = u /\ i = j
  BY <1>1, <1>2, <1>3, UserGets
<1>6. \A k \in 1 .. MaxMsgs : /\ Queued(k)' <=> Queued(k)
                              /\ Held(k)' <=> Held(k) /\ k # m
  BY <1>1, <1>3, <1>4 DEF Queued, Held, Once
<1>7. \A k \in 1 .. MaxMsgs :
        /\ k <= Len(accepted') <=> Queued(k)' \/ Held(k)' \/ Used(k)'
        /\ ~(Queued(k)' /\ Held(k)') /\ ~(Queued(k)' /\ Used(k)') /\ ~(Held(k)' /\ Used(k)')
  BY <1>1, <1>2, <1>3, <1>5, <1>6 DEF Once
<1>8. \A h, f \in Consumers : hand'[h] = hand'[f] /\ hand'[h] # None => h = f
  BY <1>4 DEF Once
<1> QED
  BY <1>3, <1>5, <1>7, <1>8 DEF Once

\* Every step keeps every message in one place.
LEMMA NextOnce == Safe /\ Once /\ [Next]_vars => Once'
<1> SUFFICES ASSUME Safe, Once, [Next]_vars PROVE Once'
  OBVIOUS
<1> USE DEF Safe
<1>1. ASSUME NEW g \in Consumers, Yield(g) PROVE Once'
  BY <1>1, PassOnOnce DEF Yield
<1>2. CASE ChannelSend
  BY <1>2, PassOnOnce DEF ChannelSend
<1>3. CASE StopReading \/ Close \/ UNCHANGED vars
  BY <1>3 DEF StopReading, Close, vars, Once, Queued, Held, Used
<1> QED
  BY <1>1, <1>2, <1>3, EnqueueOnce, PopOnce, BlockingPopOnce DEF Next

-----------------------------------------------------------------------------
\* The inductive invariant holds in every reachable state.
THEOREM Invariance == Spec => []IInv
<1>1. Init => IInv
  BY InitEstablishes, InitOnce DEF Safe, IInv
<1>2. IInv /\ [Next]_vars => IInv'
  BY NextKeeps, NextOnce DEF Safe, IInv
<1> QED
  BY <1>1, <1>2, PTL DEF Spec

\* No consumer sleeps in cond.Wait on a message, or on a closed inbox, however
\* many consumers there are.
THEOREM NoLostWakeUp == Spec => []NoStrandedWaiter
<1>1. IInv => NoStrandedWaiter
  BY DEF IInv
<1> QED
  BY <1>1, Invariance, PTL

\* The places of m, by name.
Places(m) ==
  {<<"queue", n>> : n \in {i \in DOMAIN msgQ : msgQ[i] = m}}
    \cup {<<"hand", g>> : g \in {h \in Consumers : hand[h] = m}}
    \cup UNION {{<<"user", t, n>> : n \in {i \in DOMAIN delivered[t] : delivered[t][i] = m}}
                  : t \in Takers}

\* "This is safe to call from multiple go routines" (inbox.go:53, 74): a message
\* that was accepted is in exactly one place, however many consumers compete.
ExactlyOnePlace ==
  \A i \in DOMAIN accepted : Cardinality(Places(accepted[i])) = 1

\* The one place of an accepted message.
LEMMA OncePlaces == TypeOK /\ HandsFull /\ Once => ExactlyOnePlace
<1> SUFFICES ASSUME TypeOK, HandsFull, Once, NEW a \in DOMAIN accepted
    PROVE  Cardinality(Places(accepted[a])) = 1
  BY DEF ExactlyOnePlace
<1> DEFINE m == accepted[a]
<1>1. m = a /\ m \in 1 .. MaxMsgs /\ m <= Len(accepted) /\ m # None
  BY DEF TypeOK, Once
<1>2. /\ Queued(m) \/ Held(m) \/ Used(m)
      /\ ~(Queued(m) /\ Held(m)) /\ ~(Queued(m) /\ Used(m)) /\ ~(Held(m) /\ Used(m))
  BY <1>1 DEF Once
<1> HIDE DEF m
<1>3. \E w : Places(m) = {w}
  <2>1. CASE Queued(m)
    <3>1. PICK n \in DOMAIN msgQ : msgQ[n] = m
      BY <2>1 DEF Queued
    <3>2. {i \in DOMAIN msgQ : msgQ[i] = m} = {n}
      BY <3>1 DEF Once
    <3>3. {h \in Consumers : hand[h] = m} = {}
      BY <2>1, <1>2 DEF Held
    <3>4. \A t \in Takers : {i \in DOMAIN delivered[t] : delivered[t][i] = m} = {}
      BY <2>1, <1>2 DEF Used
    <3>5. Places(m) = {<<"queue", n>>}
      BY <3>2, <3>3, <3>4 DEF Places
    <3> QED
      BY <3>5
  <2>2. CASE Held(m)
    <3>1. PICK g \in Consumers : hand[g] = m
      BY <2>2 DEF Held
    <3>2. {h \in Consumers : hand[h] = m} = {g}
      BY <3>1, <1>1 DEF Once
    <3>3. {i \in DOMAIN msgQ : msgQ[i] = m} = {}
      BY <2>2, <1>2 DEF Queued
    <3>4. \A t \in Takers : {i \in DOMAIN delivered[t] : delivered[t][i] = m} = {}
      BY <2>2, <1>2 DEF Used
    <3>5. Places(m) = {<<"hand", g>>}
      BY <3>2, <3>3, <3>4 DEF Places
    <3> QED
      BY <3>5
  <2>3. CASE Used(m)
    <3>1. PICK t \in Takers : \E n \in DOMAIN delivered[t] : delivered[t][n] = m
      BY <2>3 DEF Used
    <3>2. PICK n \in DOMAIN delivered[t] : delivered[t][n] = m
      BY <3>1
    <3>3. {i \in DOMAIN delivered[t] : delivered[t][i] = m} = {n}
      BY <3>2 DEF Once
    <3>4. \A u \in Takers \ {t} : {i \in DOMAIN delivered[u] : delivered[u][i] = m} = {}
      BY <3>2 DEF Once
    <3>5. {i \in DOMAIN msgQ : msgQ[i] = m} = {}
      BY <2>3, <1>2 DEF Queued
    <3>6. {h \in Consumers : hand[h] = m} = {}
      BY <2>3, <1>2 DEF Held
    <3>7. UNION {{<<"user", u, i>> : i \in {k \in DOMAIN delivered[u] : delivered[u][k] = m}}
                   : u \in Takers} = {<<"user", t, n>>}
      BY <3>3, <3>4
    <3>8. Places(m) = {<<"user", t, n>>}
      BY <3>5, <3>6, <3>7 DEF Places
    <3> QED
      BY <3>8
  <2> QED
    BY <1>2, <2>1, <2>2, <2>3
<1>4. PICK w : Places(m) = {w}
  BY <1>3
<1>5. Cardinality({w}) = 1
  BY FS_Singleton
<1> QED
  BY <1>4, <1>5 DEF m

\* A message that Enqueue accepted is queued, in the hand of one consumer, or with
\* one user, whoever competes for it with Iter, Channel and Pop; and Close drops none.
THEOREM EveryMessageOnce == Spec => []ExactlyOnePlace
<1>1. IInv => ExactlyOnePlace
  BY OncePlaces DEF IInv
<1> QED
  BY <1>1, Invariance, PTL

-----------------------------------------------------------------------------
\* The inbox starts as an empty, open Mailbox.
LEMMA InitIsMailboxInit == Init => Abstract!MailboxInit
  BY DEF Init, Abstract!MailboxInit

\* A consumer's steps are Take or nothing to Mailbox.
LEMMA BlockingPopIsMailboxStep ==
  ASSUME NEW g \in Consumers, BlockingPop(g)
  PROVE  [Abstract!MailboxNext]_Abstract!mailboxVars
<1> USE DEF Abstract!mailboxVars
<1>1. CASE BlockingPopWaits(g)
  BY <1>1 DEF BlockingPopWaits
<1>2. CASE BlockingPopClosed(g)
  BY <1>2 DEF BlockingPopClosed
<1>3. CASE BlockingPopTakes(g)
  BY <1>3 DEF BlockingPopTakes, Remainder, Abstract!MailboxNext, Abstract!Take
<1> QED
  BY <1>1, <1>2, <1>3 DEF BlockingPop

\* Every step of the inbox is a step of Mailbox or leaves it alone.
LEMMA StepIsMailboxStep == [Next]_vars => [Abstract!MailboxNext]_Abstract!mailboxVars
<1> SUFFICES ASSUME [Next]_vars PROVE [Abstract!MailboxNext]_Abstract!mailboxVars
  OBVIOUS
<1> USE DEF Abstract!mailboxVars
<1>1. CASE Enqueue
  BY <1>1 DEF Enqueue, Abstract!MailboxNext, Abstract!Accept
<1>2. CASE Pop
  BY <1>2 DEF Pop, Remainder, Abstract!MailboxNext, Abstract!Take
<1>3. CASE Close
  BY <1>3 DEF Close, Abstract!MailboxNext, Abstract!Shut
<1>4. ASSUME NEW g \in Consumers, Yield(g) PROVE [Abstract!MailboxNext]_Abstract!mailboxVars
  BY <1>4 DEF Yield, PassOn
<1>5. CASE ChannelSend
  BY <1>5 DEF ChannelSend, PassOn
<1>6. CASE StopReading
  BY <1>6 DEF StopReading
<1>7. CASE UNCHANGED vars
  BY <1>7 DEF vars
<1> QED
  BY <1>1, <1>2, <1>3, <1>4, <1>5, <1>6, <1>7, BlockingPopIsMailboxStep DEF Next

\* The inbox implements Mailbox: first in, first out, and shut for good.
THEOREM InboxImplementsMailbox == Spec => ImplementsMailbox
  BY InitIsMailboxInit, StepIsMailboxStep, PTL
  DEF Spec, ImplementsMailbox, Abstract!MailboxSpec
=============================================================================

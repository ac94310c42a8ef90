--------------------------- MODULE GenServerProofs ---------------------------
(***************************************************************************)
(* Proofs about GenServer, for any calls, stops and bounds: the inductive  *)
(* invariant IInv, what follows from it for Stop and for Terminate, and    *)
(* that Call implements RemoteCall.                                        *)
(***************************************************************************)
EXTENDS GenServer, TLAPS

USE GenServerAssumption DEF Clients, Running, EndReasons, Outcomes, CallOutcomes

-----------------------------------------------------------------------------
\* The initial state.
LEMMA InitEstablishes == Init => IInv
<1> SUFFICES ASSUME Init PROVE IInv
  OBVIOUS
<1> USE DEF Init
<1>1. ServerTypes
  BY DEF ServerTypes
<1>2. HelperTypes
  BY DEF HelperTypes
<1>3. PastTypes
  BY DEF PastTypes
<1>4. RequestOnce /\ BoxOK
  BY DEF RequestOnce, BoxOK, RequestAt, Asked
<1>5. OfferOK /\ EndOK
  BY DEF OfferOK, EndOK
<1> QED
  BY <1>1, <1>2, <1>3, <1>4, <1>5 DEF IInv, TypeOK

-----------------------------------------------------------------------------
\* What can arrive at the server is a request, at a helper a letter.
LEMMA RequestArrives ==
  ASSUME ServerTypes, NEW m \in Requests, Arrives(m)
  PROVE  inbox' \in Seq(Requests)
BY DEF ServerTypes, Arrives

LEMMA LetterDelivered ==
  ASSUME HelperTypes, NEW k \in Clients, NEW m \in Letters
  PROVE  Delivered(k, m) \in Seq(Letters)
BY DEF HelperTypes, Delivered

LEMMA ReplyTypes ==
  ASSUME HelperTypes, PastTypes, NEW k \in Calls, Replies(k)
  PROVE  box' \in [Clients -> Seq(Letters)] /\ answer' \in [Calls -> {"none", "given", "late"}]
<1>1. Message("reply", k, "none") \in Letters
  BY DEF Message, Letters
<1> QED
  BY <1>1, LetterDelivered DEF Replies, HelperTypes, PastTypes

\* The steps of Call, Stop and their helpers keep the types.
LEMMA ClientTypes ==
  ASSUME TypeOK, NEW k \in Clients,
         BeginCall(k) \/ BeginStop(k) \/ HelperStep(k) \/ Meet(k) \/ GiveUp(k) \/ ReplyLater(k)
  PROVE  TypeOK'
<1> USE DEF TypeOK, flags, server, helpers, past
<1>1. CASE BeginCall(k)
  BY <1>1 DEF BeginCall, ServerTypes, HelperTypes, PastTypes
<1>2. CASE BeginStop(k)
  <2>1. Running => HelperTypes'
    BY <1>2 DEF BeginStop, HelperTypes
  <2>2. ASSUME ~Running PROVE HelperTypes'
    <3>1. result' = [result EXCEPT ![k] = "noproc"] /\ k \notin Calls
      BY <1>2, <2>2 DEF BeginStop
    <3>2. helper' = helper /\ box' = box /\ offer' = offer
      BY <1>2, <2>2 DEF BeginStop
    <3> QED
      BY <3>1, <3>2 DEF HelperTypes
  <2>3. HelperTypes'
    BY <2>1, <2>2
  <2> QED
    BY <1>2, <2>3 DEF BeginStop, ServerTypes, PastTypes
<1>3. CASE HelperChecks(k)
  <2>1. Append(box[k], Message("down", k, "noproc")) \in Seq(Letters)
    BY DEF Message, Letters, HelperTypes
  <2>2. box' \in [Clients -> Seq(Letters)]
    BY <1>3, <2>1 DEF HelperChecks, HelperTypes
  <2>3. helper' \in [Clients -> {"none", "check", "monitor", "send", "wait", "offer", "ended"}]
    BY <1>3 DEF HelperChecks, HelperTypes
  <2>4. \A j \in Clients : helper'[j] = "offer" => offer[j] # "none"
    BY <1>3 DEF HelperChecks, HelperTypes
  <2>5. offer' = offer /\ result' = result
    BY <1>3 DEF HelperChecks
  <2>6. HelperTypes'
    BY <2>2, <2>3, <2>4, <2>5 DEF HelperTypes
  <2> QED
    BY <1>3, <2>6 DEF HelperChecks, ServerTypes, PastTypes
<1>4. CASE HelperMonitors(k)
  BY <1>4 DEF HelperMonitors, ServerTypes, HelperTypes, PastTypes
<1>5. CASE HelperSends(k)
  <2>1. k \in Calls => Message("call", k, "none") \in Requests
    BY DEF Message, Requests
  <2>2. k \in Stops /\ StopReason[k] # "kill" => Message("stop", k, StopReason[k]) \in Requests
    BY DEF Message, Requests, ServerTypes
  <2>3. inbox' \in Seq(Requests) /\ signals' \subseteq {"kill", "supervisor"}
    BY <1>5, <2>1, <2>2, RequestArrives DEF HelperSends, ServerTypes
  <2> QED
    BY <1>5, <2>3 DEF HelperSends, ServerTypes, HelperTypes, PastTypes
<1>6. CASE HelperTakes(k)
  <2>1. Head(box[k]) \in Letters
    BY <1>6 DEF HelperTakes, HelperTypes
  <2>2. /\ Outcome(k, Head(box[k])) \in Outcomes \ {"none"}
        /\ k \in Calls => Outcome(k, Head(box[k])) \in {"ok", "stopped", "other"}
    BY <1>6, <2>1 DEF Outcome, Letters, HelperTakes
  <2> QED
    BY <1>6, <2>2 DEF HelperTakes, ServerTypes, HelperTypes, PastTypes
<1>7. CASE HelperTimesOut(k)
  BY <1>7 DEF HelperTimesOut, ServerTypes, HelperTypes, PastTypes
<1>8. CASE Meet(k)
  BY <1>8 DEF Meet, Verdict, ServerTypes, HelperTypes, PastTypes
<1>9. CASE GiveUp(k)
  BY <1>9 DEF GiveUp, ServerTypes, HelperTypes, PastTypes
<1>10. CASE ReplyLater(k)
  BY <1>10, ReplyTypes DEF ReplyLater, ServerTypes, HelperTypes, PastTypes
<1> QED
  BY <1>1, <1>2, <1>3, <1>4, <1>5, <1>6, <1>7, <1>8, <1>9, <1>10 DEF HelperStep

\* So do those of the server's Runnable ...
LEMMA RunnableTypes ==
  ASSUME TypeOK, RunnableStep
  PROVE  TypeOK'
<1> USE DEF TypeOK, flags, server, helpers, past, Return, CallTerminate, CallbackReturns
<1>1. CASE Receive
  <2>1. Head(inbox) \in Requests /\ Tail(inbox) \in Seq(Requests)
    BY <1>1 DEF Receive, ServerTypes
  <2> QED
    BY <1>1, <2>1 DEF Receive, Requests, ServerTypes, HelperTypes, PastTypes
<1>2. CASE ReceiveClosed
  BY <1>2 DEF ReceiveClosed, ServerTypes, HelperTypes, PastTypes
<1>3. CASE HandleCall
  <2>1. client \in Calls
    BY <1>3 DEF HandleCall, ServerTypes
  <2>2. Replies(client) \/ (box' = box /\ answer' = answer)
    BY <1>3 DEF HandleCall
  <2>3. box' \in [Clients -> Seq(Letters)] /\ answer' \in [Calls -> {"none", "given", "late"}]
    BY <2>1, <2>2, ReplyTypes DEF HelperTypes, PastTypes
  <2>4. owed' \subseteq Calls
    BY <1>3, <2>1 DEF HandleCall, ServerTypes
  <2>5. ServerTypes'
    BY <1>3, <2>4 DEF HandleCall, ServerTypes
  <2>6. HelperTypes' /\ PastTypes'
    BY <1>3, <2>3 DEF HandleCall, HelperTypes, PastTypes
  <2> QED
    BY <2>5, <2>6
<1>4. CASE HandleCast
  <2>1. ServerTypes'
    BY <1>4 DEF HandleCast, ServerTypes
  <2>2. HelperTypes' /\ PastTypes'
    BY <1>4 DEF HandleCast, HelperTypes, PastTypes
  <2> QED
    BY <2>1, <2>2
<1>5. CASE CallbackPanics
  BY <1>5 DEF CallbackPanics, ServerTypes, HelperTypes, PastTypes
<1>6. CASE ContinueEnds
  BY <1>6 DEF ContinueEnds, ServerTypes, HelperTypes, PastTypes
<1>7. CASE ContinueFails
  BY <1>7 DEF ContinueFails, ServerTypes, HelperTypes, PastTypes
<1>8. CASE ContinuePanics
  BY <1>8 DEF ContinuePanics, ServerTypes, HelperTypes, PastTypes
<1>9. CASE Terminate
  BY <1>9 DEF Terminate, ServerTypes, HelperTypes, PastTypes
<1>10. CASE TerminatePanics
  BY <1>10 DEF TerminatePanics, ServerTypes, HelperTypes, PastTypes
<1> QED
  BY <1>1, <1>2, <1>3, <1>4, <1>5, <1>6, <1>7, <1>8, <1>9, <1>10 DEF RunnableStep

\* ... and of its process, and of those who send to it.
LEMMA ProcessTypes ==
  ASSUME TypeOK, ProcessStep \/ Cast \/ ParentExits
  PROVE  TypeOK'
<1> USE DEF TypeOK, flags, server, helpers, past
<1>1. CASE RunnableReturned
  BY <1>1 DEF RunnableReturned, Exits, ServerTypes, HelperTypes, PastTypes
<1>2. CASE ExitSignal
  BY <1>2 DEF ExitSignal, Exits, ServerTypes, HelperTypes, PastTypes
<1>3. CASE Notify
  <2>1. \A k \in Clients : Message("down", k, exitReason) \in Letters
    BY <1>3 DEF Notify, Message, Letters, ServerTypes
  <2> QED
    BY <1>3, <2>1, LetterDelivered DEF Notify, ServerTypes, HelperTypes, PastTypes
<1>4. CASE CloseInbox
  <2>1. inbox' = <<>> \/ \E i \in DOMAIN inbox : inbox' = <<inbox[i]>>
    BY <1>4 DEF CloseInbox
  <2>2. ASSUME NEW i \in DOMAIN inbox, inbox' = <<inbox[i]>>
        PROVE  inbox' \in Seq(Requests)
    <3>1. inbox[i] \in Requests
      BY DEF ServerTypes
    <3> QED
      BY <2>2, <3>1
  <2>3. ASSUME inbox' = <<>> PROVE inbox' \in Seq(Requests)
    BY <2>3
  <2>4. inbox' \in Seq(Requests)
    BY <2>1, <2>2, <2>3
  <2> QED
    BY <1>4, <2>4 DEF CloseInbox, ServerTypes, HelperTypes, PastTypes
<1>5. CASE Cast
  <2>1. Message("cast", "none", "none") \in Requests
    BY DEF Message, Requests
  <2> QED
    BY <1>5, <2>1, RequestArrives DEF Cast, ServerTypes, HelperTypes, PastTypes
<1>6. CASE ParentExits
  <2>1. Message("exit", "none", "supervisor") \in Requests
    BY DEF Message, Requests
  <2>2. inbox' \in Seq(Requests) /\ signals' \subseteq {"kill", "supervisor"}
    BY <1>6, <2>1, RequestArrives DEF ParentExits, ServerTypes
  <2> QED
    BY <1>6, <2>2 DEF ParentExits, ServerTypes, HelperTypes, PastTypes
<1> QED
  BY <1>1, <1>2, <1>3, <1>4, <1>5, <1>6 DEF ProcessStep

LEMMA TypesKept ==
  ASSUME TypeOK, [Next]_vars
  PROVE  TypeOK'
<1>1. CASE UNCHANGED vars
  BY <1>1 DEF vars, flags, server, helpers, past, TypeOK, ServerTypes, HelperTypes, PastTypes
<1> QED
  BY <1>1, ClientTypes, RunnableTypes, ProcessTypes DEF Next

-----------------------------------------------------------------------------
(* RequestOnce: every step leaves the requests where they are, or takes one *)
(* from one place to the next.                                              *)

\* Nothing arrives and nothing is answered.
LEMMA RequestStays ==
  ASSUME RequestOnce,
         inbox' = inbox, owed' = owed, answer' = answer, client' \in {client, "none"},
         \A k \in Calls : Asked(k) => Asked(k)'
  PROVE  RequestOnce'
BY DEF RequestOnce, RequestAt

\* A message arrives that is not a request of a call.
LEMMA OtherArrives ==
  ASSUME TypeOK, RequestOnce, NEW m \in Requests, m.type # "call", Arrives(m),
         client' = client, owed' = owed, answer' = answer,
         \A k \in Calls : Asked(k) => Asked(k)'
  PROVE  RequestOnce'
<1>1. inbox \in Seq(Requests)
  BY DEF TypeOK, ServerTypes
<1>2. \A k \in Calls : \A i \in DOMAIN inbox' : RequestAt(k, i)' =>
        i \in DOMAIN inbox /\ RequestAt(k, i)
  BY <1>1 DEF Arrives, RequestAt
<1> QED
  BY <1>2 DEF RequestOnce

\* The request of k arrives: k has not asked before, so there is no other.
LEMMA CallArrives ==
  ASSUME TypeOK, RequestOnce, NEW k \in Calls, helper[k] = "send",
         helper' = [helper EXCEPT ![k] = "wait"], Arrives(Message("call", k, "none")),
         client' = client, owed' = owed, answer' = answer
  PROVE  RequestOnce'
<1>1. inbox \in Seq(Requests)
  BY DEF TypeOK, ServerTypes
<1>2. \A c \in Calls : (Asked(c)' <=> Asked(c) \/ c = k)
  BY DEF Asked, TypeOK, HelperTypes
<1>3. /\ ~Asked(k) /\ answer[k] = "none" /\ k \notin owed /\ client # k
      /\ \A i \in DOMAIN inbox : ~RequestAt(k, i)
  BY DEF Asked, RequestOnce
<1>4. \A c \in Calls : \A i \in DOMAIN inbox' : RequestAt(c, i)' =>
        \/ i \in DOMAIN inbox /\ RequestAt(c, i)
        \/ c = k /\ i = Len(inbox) + 1
  BY <1>1 DEF Arrives, Message, RequestAt
<1> QED
  BY <1>2, <1>3, <1>4 DEF RequestOnce

\* The first message is taken from the inbox.
LEMMA RequestTaken ==
  ASSUME TypeOK, RequestOnce, Receive
  PROVE  RequestOnce'
<1>1. inbox \in Seq(Requests) /\ inbox # <<>> /\ inbox' = Tail(inbox)
  BY DEF TypeOK, ServerTypes, Receive
<1>2. \A k \in Calls : \A i \in DOMAIN inbox' : RequestAt(k, i)' =>
        i + 1 \in DOMAIN inbox /\ RequestAt(k, i + 1) /\ i \in Nat
  BY <1>1 DEF RequestAt
<1>3. 1 \in DOMAIN inbox /\ Head(inbox) = inbox[1] /\ inbox[1] \in Requests
  BY <1>1
<1>4. client' = "none" \/ RequestAt(client', 1)
  BY <1>3 DEF Receive, Requests, RequestAt
<1>5. owed' = owed /\ answer' = answer /\ helper' = helper
  BY DEF Receive, helpers, past
<1>6. \A k \in Calls : Asked(k)' <=> Asked(k)
  BY <1>5 DEF Asked
<1>7. ASSUME NEW k \in Calls, NEW i \in DOMAIN inbox', RequestAt(k, i)'
      PROVE  /\ Asked(k)' /\ answer'[k] = "none" /\ k \notin owed' /\ client' # k
             /\ \A j \in DOMAIN inbox' : RequestAt(k, j)' => i = j
  <2>1. i + 1 \in DOMAIN inbox /\ RequestAt(k, i + 1) /\ i \in Nat /\ i + 1 # 1
    BY <1>1, <1>2, <1>7
  <2>2. client' # k
    BY <1>3, <1>4, <2>1 DEF RequestOnce
  <2>3. \A j \in DOMAIN inbox' : RequestAt(k, j)' => i + 1 = j + 1 /\ j \in Nat
    BY <1>2, <2>1 DEF RequestOnce
  <2> QED
    BY <1>5, <1>6, <2>1, <2>2, <2>3 DEF RequestOnce
<1>8. \A k \in Calls : client' = k => Asked(k)' /\ answer'[k] = "none" /\ k \notin owed'
  BY <1>3, <1>4, <1>5, <1>6 DEF RequestOnce
<1> QED
  BY <1>5, <1>6, <1>7, <1>8 DEF RequestOnce

\* HandleCall answers, or owes the answer; Reply pays it; the inbox is closed.
LEMMA RequestAnswered ==
  ASSUME TypeOK, RequestOnce,
         HandleCall \/ CloseInbox \/ \E k \in Clients : ReplyLater(k)
  PROVE  RequestOnce'
<1>1. CASE HandleCall
  <2>1. client \in Calls /\ helper' = helper /\ inbox' = inbox /\ client' = "none"
    BY <1>1 DEF HandleCall, TypeOK, ServerTypes
  <2>2. /\ Asked(client) /\ answer[client] = "none" /\ client \notin owed
        /\ \A i \in DOMAIN inbox : ~RequestAt(client, i)
    BY <2>1 DEF RequestOnce
  <2>3. \/ owed' = owed /\ \A k \in Calls : k # client => answer'[k] = answer[k]
        \/ owed' = owed \cup {client} /\ answer' = answer
    BY <1>1 DEF HandleCall, Replies, TypeOK, PastTypes
  <2> QED
    BY <2>1, <2>2, <2>3 DEF RequestOnce, RequestAt, Asked
<1>2. CASE CloseInbox
  <2>1. inbox' = <<>> \/ (1 \in DOMAIN inbox /\ inbox' = <<inbox[1]>>)
    BY <1>2 DEF CloseInbox
  <2>2. \A k \in Calls : \A i \in DOMAIN inbox' : RequestAt(k, i)' =>
          i = 1 /\ 1 \in DOMAIN inbox /\ RequestAt(k, 1)
    BY <2>1 DEF RequestAt
  <2>3. client' = client /\ owed' = owed /\ answer' = answer /\ helper' = helper
    BY <1>2 DEF CloseInbox, server, helpers, past
  <2> QED
    BY <2>2, <2>3 DEF RequestOnce, Asked
<1>3. ASSUME NEW k \in Clients, ReplyLater(k) PROVE RequestOnce'
  <2>1. k \in Calls /\ k \in owed
    BY <1>3 DEF ReplyLater, TypeOK, ServerTypes
  <2>2. /\ helper' = helper /\ inbox' = inbox /\ client' = client /\ owed' = owed \ {k}
        /\ \A c \in Calls : c # k => answer'[c] = answer[c]
    BY <1>3 DEF ReplyLater, Replies, TypeOK, PastTypes
  <2>3. Asked(k) /\ client # k /\ \A i \in DOMAIN inbox : ~RequestAt(k, i)
    BY <2>1 DEF RequestOnce
  <2> QED
    BY <2>2, <2>3 DEF RequestOnce, RequestAt, Asked
<1> QED
  BY <1>1, <1>2, <1>3

LEMMA RequestOnceKept ==
  ASSUME TypeOK, RequestOnce, [Next]_vars
  PROVE  RequestOnce'
<1> USE DEF server, helpers, past
<1>1. ASSUME NEW k \in Clients, BeginCall(k) \/ BeginStop(k) \/ Meet(k) \/ GiveUp(k)
      PROVE  RequestOnce'
  <2>1. \A c \in Calls : Asked(c) => Asked(c)'
    BY <1>1 DEF TypeOK, HelperTypes, Asked, BeginCall, BeginStop, Meet, GiveUp
  <2> QED
    BY <1>1, <2>1, RequestStays DEF BeginCall, BeginStop, Meet, GiveUp
<1>2. ASSUME NEW k \in Clients,
             HelperChecks(k) \/ HelperMonitors(k) \/ HelperTakes(k) \/ HelperTimesOut(k)
      PROVE  RequestOnce'
  <2>1. \A c \in Calls : Asked(c) => Asked(c)'
    BY <1>2 DEF TypeOK, HelperTypes, Asked, HelperChecks, HelperMonitors, HelperTakes,
                HelperTimesOut
  <2> QED
    BY <1>2, <2>1, RequestStays DEF HelperChecks, HelperMonitors, HelperTakes, HelperTimesOut
<1>3. ASSUME NEW k \in Clients, HelperSends(k)
      PROVE  RequestOnce'
  <2>1. \A c \in Calls : Asked(c) => Asked(c)'
    BY <1>3 DEF TypeOK, HelperTypes, Asked, HelperSends
  <2>2. CASE k \in Calls
    BY <1>3, <2>2, CallArrives DEF HelperSends
  <2>3. CASE k \in Stops /\ StopReason[k] # "kill"
    <3>1. Message("stop", k, StopReason[k]) \in Requests
      BY <2>3 DEF Message, Requests, TypeOK, ServerTypes
    <3>2. Message("stop", k, StopReason[k]).type # "call"
      BY DEF Message
    <3>3. Arrives(Message("stop", k, StopReason[k]))
      BY <1>3, <2>3 DEF HelperSends
    <3> QED
      BY <1>3, <2>1, <3>1, <3>2, <3>3, OtherArrives DEF HelperSends
  <2>4. CASE k \in Stops /\ StopReason[k] = "kill"
    BY <1>3, <2>1, <2>4, RequestStays DEF HelperSends
  <2> QED
    BY <2>2, <2>3, <2>4
<1>4. CASE Cast \/ ParentExits
  <2>1. \A c \in Calls : Asked(c)' <=> Asked(c)
    BY <1>4 DEF Asked, Cast, ParentExits
  <2>2. \A m \in {Message("cast", "none", "none"), Message("exit", "none", "supervisor")} :
          m \in Requests /\ m.type # "call"
    BY DEF Message, Requests
  <2> QED
    BY <1>4, <2>1, <2>2, OtherArrives, RequestStays DEF Cast, ParentExits
<1>5. CASE RunnableStep
  <2>1. CASE Receive
    BY <2>1, RequestTaken
  <2>2. CASE HandleCall
    BY <2>2, RequestAnswered
  <2>3. CASE ReceiveClosed \/ HandleCast \/ CallbackPanics
    BY <2>3, RequestStays DEF Asked, ReceiveClosed, HandleCast, CallbackPanics
  <2>4. CASE ContinueEnds \/ ContinueFails \/ ContinuePanics
    BY <2>4, RequestStays DEF Asked, ContinueEnds, ContinueFails, ContinuePanics
  <2>5. CASE Terminate \/ TerminatePanics
    BY <2>5, RequestStays DEF Asked, Terminate, TerminatePanics
  <2> QED
    BY <1>5, <2>1, <2>2, <2>3, <2>4, <2>5 DEF RunnableStep
<1>6. CASE ProcessStep
  <2>1. CASE CloseInbox
    BY <2>1, RequestAnswered
  <2>2. CASE RunnableReturned \/ ExitSignal \/ Notify
    BY <2>2, RequestStays DEF Asked, RunnableReturned, ExitSignal, Notify
  <2> QED
    BY <1>6, <2>1, <2>2 DEF ProcessStep
<1>7. CASE UNCHANGED vars
  BY <1>7, RequestStays DEF Asked, vars
<1> QED
  BY <1>1, <1>2, <1>3, <1>4, <1>5, <1>6, <1>7, RequestAnswered DEF Next, HelperStep

-----------------------------------------------------------------------------
(* BoxOK and OfferOK: what is in a helper's inbox, and what it offers.      *)

\* Once the server has begun to exit its reason is settled.
LEMMA ReasonSettled ==
  ASSUME [Next]_vars
  PROVE  ~Running => ~Running' /\ exitReason' = exitReason
<1>1. ASSUME NEW k \in Clients,
             BeginCall(k) \/ BeginStop(k) \/ Meet(k) \/ GiveUp(k) \/ ReplyLater(k)
      PROVE  ~Running => ~Running' /\ exitReason' = exitReason
  BY <1>1 DEF BeginCall, BeginStop, Meet, GiveUp, ReplyLater
<1>2. ASSUME NEW k \in Clients, HelperStep(k)
      PROVE  ~Running => ~Running' /\ exitReason' = exitReason
  BY <1>2 DEF HelperStep, HelperChecks, HelperMonitors, HelperSends, HelperTakes, HelperTimesOut
<1>3. CASE RunnableStep
  BY <1>3 DEF RunnableStep, Receive, ReceiveClosed, HandleCall, HandleCast, CallbackPanics,
              ContinueEnds, ContinueFails, ContinuePanics, Terminate, TerminatePanics
<1>4. CASE ProcessStep \/ Cast \/ ParentExits
  BY <1>4 DEF ProcessStep, RunnableReturned, ExitSignal, Exits, Notify, CloseInbox, Cast,
              ParentExits
<1>5. CASE UNCHANGED vars
  BY <1>5 DEF vars
<1> QED
  BY <1>1, <1>2, <1>3, <1>4, <1>5 DEF Next

BoxAt(k) ==
  /\ \A i \in DOMAIN box[k] :
       /\ box[k][i].type = "reply" => k \in Calls /\ answer[k] # "none"
       /\ box[k][i].type = "down" => ~Running /\ box[k][i].reason \in {"noproc", exitReason}
  /\ k \in Calls /\ answer[k] = "given" /\ helper[k] = "wait" =>
       box[k] # <<>> /\ box[k][1].type = "reply"

\* The inbox of k stays as it is, or is done with.
LEMMA BoxStays ==
  ASSUME NEW k \in Clients, BoxAt(k), [Next]_vars, box'[k] = box[k] \/ box'[k] = <<>>,
         k \in Calls => answer'[k] = answer[k],
         helper'[k] = "wait" /\ k \in Calls /\ answer[k] = "given" =>
           helper[k] = "wait" /\ box'[k] = box[k]
  PROVE  BoxAt(k)'
<1>1. CASE box'[k] = <<>>
  BY <1>1 DEF BoxAt
<1>2. CASE box'[k] = box[k]
  BY <1>2, ReasonSettled DEF BoxAt
<1> QED
  BY <1>1, <1>2

\* A letter is appended.  If it is the answer of the living server, no DownMsg is
\* in front of it.
LEMMA BoxGrows ==
  ASSUME NEW k \in Clients, TypeOK, BoxAt(k), [Next]_vars, NEW m \in Letters,
         box'[k] = Append(box[k], m),
         m.type = "down" => ~Running' /\ m.reason \in {"noproc", exitReason'},
         m.type = "reply" => k \in Calls /\ answer'[k] # "none",
         k \in Calls /\ answer[k] # "none" => answer'[k] # "none",
         k \in Calls /\ answer'[k] = "given" /\ helper'[k] = "wait" =>
           \/ answer[k] = "given" /\ helper[k] = "wait"
           \/ Running /\ m.type = "reply"
  PROVE  BoxAt(k)'
<1>1. box[k] \in Seq(Letters)
  BY DEF TypeOK, HelperTypes
<1>2. /\ DOMAIN box'[k] = 1 .. Len(box[k]) + 1 /\ box'[k][Len(box[k]) + 1] = m
      /\ \A i \in DOMAIN box[k] : box'[k][i] = box[k][i]
  BY <1>1
<1>3. ASSUME NEW i \in DOMAIN box'[k]
      PROVE  /\ box'[k][i].type = "reply" => k \in Calls /\ answer'[k] # "none"
             /\ box'[k][i].type = "down" =>
                  ~Running' /\ box'[k][i].reason \in {"noproc", exitReason'}
  <2>1. CASE i = Len(box[k]) + 1
    BY <1>2, <2>1
  <2>2. CASE i \in DOMAIN box[k]
    BY <1>2, <2>2, ReasonSettled DEF BoxAt
  <2> QED
    BY <1>1, <1>2, <2>1, <2>2
<1>4. ASSUME k \in Calls, answer'[k] = "given", helper'[k] = "wait"
      PROVE  box'[k] # <<>> /\ box'[k][1].type = "reply"
  <2>1. CASE box[k] = <<>>
    BY <1>1, <1>2, <1>4, <2>1 DEF BoxAt
  <2>2. CASE box[k] # <<>>
    <3>1. 1 \in DOMAIN box[k] /\ box[k][1] \in Letters /\ box'[k][1] = box[k][1] /\ box'[k] # <<>>
      BY <1>1, <1>2, <2>2
    <3> QED
      BY <1>4, <3>1 DEF BoxAt, Letters
  <2> QED
    BY <2>1, <2>2
<1> QED
  BY <1>3, <1>4 DEF BoxAt

\* An answer is given to k, by HandleCall or by Reply.
LEMMA BoxAnswered ==
  ASSUME TypeOK, BoxOK, [Next]_vars, NEW k \in Calls, Replies(k), helper' = helper
  PROVE  BoxOK'
<1>1. box \in [Clients -> Seq(Letters)] /\ answer \in [Calls -> {"none", "given", "late"}]
  BY DEF TypeOK, HelperTypes, PastTypes
<1>2. ASSUME NEW c \in Clients, c # k PROVE BoxAt(c)'
  <2>1. box'[c] = box[c] /\ (c \in Calls => answer'[c] = answer[c])
    BY <1>1, <1>2 DEF Replies
  <2> QED
    BY <2>1, BoxStays DEF BoxOK, BoxAt
<1>3. BoxAt(k)'
  <2>1. Message("reply", k, "none") \in Letters /\ Message("reply", k, "none").type = "reply"
    BY DEF Message, Letters
  <2>2. /\ answer'[k] \in {"given", "late"} /\ (answer'[k] = "given" => Running)
        /\ box'[k] = Delivered(k, Message("reply", k, "none"))
    BY <1>1 DEF Replies
  <2>3. CASE helper[k] \in {"offer", "ended"}
    <3>1. box'[k] = box[k] /\ helper'[k] # "wait"
      BY <2>2, <2>3 DEF Delivered
    <3> QED
      BY <2>2, <3>1, ReasonSettled DEF BoxOK, BoxAt
  <2>4. CASE helper[k] \notin {"offer", "ended"}
    <3>1. box'[k] = Append(box[k], Message("reply", k, "none"))
      BY <2>2, <2>4 DEF Delivered
    <3>2. BoxAt(k)
      BY DEF BoxOK, BoxAt
    <3> QED
      BY <2>1, <2>2, <3>1, <3>2, BoxGrows
  <2> QED
    BY <2>3, <2>4
<1> QED
  BY <1>2, <1>3 DEF BoxOK, BoxAt

LEMMA BoxOKKept ==
  ASSUME TypeOK, RequestOnce, BoxOK, [Next]_vars
  PROVE  BoxOK'
<1> USE DEF helpers, past
<1>0. \A c \in Clients : BoxAt(c)
  BY DEF BoxOK, BoxAt
<1>1. ASSUME NEW k \in Clients,
             BeginCall(k) \/ BeginStop(k) \/ HelperMonitors(k) \/ Meet(k) \/ GiveUp(k)
      PROVE  BoxOK'
  <2>1. box' = box /\ answer' = answer
    BY <1>1 DEF BeginCall, BeginStop, HelperMonitors, Meet, GiveUp
  <2>2. \A c \in Clients : helper'[c] = "wait" => helper[c] = "wait"
    BY <1>1 DEF TypeOK, HelperTypes, BeginCall, BeginStop, HelperMonitors, Meet, GiveUp
  <2> QED
    BY <1>0, <2>1, <2>2, BoxStays DEF BoxOK, BoxAt
<1>2. ASSUME NEW k \in Clients, HelperChecks(k)
      PROVE  BoxOK'
  <2>1. ASSUME NEW c \in Clients, c # k \/ Running
        PROVE  BoxAt(c)'
    <3>1. box'[c] = box[c] /\ answer' = answer /\ (helper'[c] = "wait" => helper[c] = "wait")
      BY <1>2, <2>1 DEF HelperChecks, TypeOK, HelperTypes
    <3> QED
      BY <1>0, <3>1, BoxStays
  <2>2. ASSUME ~Running
        PROVE  BoxAt(k)'
    <3>1. /\ box'[k] = Append(box[k], Message("down", k, "noproc"))
          /\ answer' = answer /\ helper'[k] = "send" /\ ~Running'
      BY <1>2, <2>2 DEF HelperChecks, TypeOK, HelperTypes
    <3>2. Message("down", k, "noproc") \in Letters
      BY DEF Message, Letters
    <3>3. Message("down", k, "noproc").type = "down" /\ Message("down", k, "noproc").reason = "noproc"
      BY DEF Message
    <3> QED
      BY <1>0, <3>1, <3>2, <3>3, BoxGrows
  <2> QED
    BY <2>1, <2>2 DEF BoxOK, BoxAt
<1>3. ASSUME NEW k \in Clients, HelperSends(k)
      PROVE  BoxOK'
  <2>1. box' = box /\ answer' = answer
    BY <1>3 DEF HelperSends
  <2>2. \A c \in Clients : helper'[c] = "wait" => helper[c] = "wait" \/ c = k
    BY <1>3 DEF HelperSends, TypeOK, HelperTypes
  <2>3. k \in Calls => answer[k] = "none"
    BY <1>3 DEF HelperSends, RequestOnce, Asked
  <2> QED
    BY <1>0, <2>1, <2>2, <2>3, BoxStays DEF BoxOK, BoxAt
<1>4. ASSUME NEW k \in Clients, HelperTakes(k) \/ HelperTimesOut(k)
      PROVE  BoxOK'
  <2>1. \A c \in Clients : /\ box'[c] = IF c = k THEN <<>> ELSE box[c]
                           /\ helper'[c] = IF c = k THEN "offer" ELSE helper[c]
    BY <1>4 DEF HelperTakes, HelperTimesOut, TypeOK, HelperTypes
  <2>2. answer' = answer
    BY <1>4 DEF HelperTakes, HelperTimesOut
  <2> QED
    BY <1>0, <2>1, <2>2, BoxStays DEF BoxOK, BoxAt
<1>5. ASSUME NEW k \in Clients, ReplyLater(k)
      PROVE  BoxOK'
  BY <1>5, BoxAnswered DEF ReplyLater, TypeOK, ServerTypes
<1>6. CASE HandleCall
  <2>1. client \in Calls /\ helper' = helper
    BY <1>6 DEF HandleCall, TypeOK, ServerTypes
  <2>2. Replies(client) \/ (box' = box /\ answer' = answer)
    BY <1>6 DEF HandleCall
  <2> QED
    BY <1>0, <2>1, <2>2, BoxAnswered, BoxStays DEF BoxOK, BoxAt
<1>7. CASE RunnableStep /\ ~HandleCall
  <2>1. box' = box /\ answer' = answer /\ helper' = helper
    BY <1>7 DEF RunnableStep, Receive, ReceiveClosed, HandleCast, CallbackPanics, ContinueEnds,
                ContinueFails, ContinuePanics, Terminate, TerminatePanics
  <2> QED
    BY <1>0, <2>1, BoxStays DEF BoxOK, BoxAt
<1>8. CASE Notify
  <2>1. answer' = answer /\ helper' = helper /\ exitReason' = exitReason /\ ~Running /\ ~Running'
    BY <1>8 DEF Notify
  <2>2. ASSUME NEW c \in Clients
        PROVE  BoxAt(c)'
    <3>1. box'[c] = box[c] \/ box'[c] = Append(box[c], Message("down", c, exitReason))
      BY <1>8 DEF Notify, Delivered
    <3>2. Message("down", c, exitReason) \in Letters
      BY <2>1 DEF Message, Letters, TypeOK, ServerTypes
    <3>3. /\ Message("down", c, exitReason).type = "down"
          /\ Message("down", c, exitReason).reason = exitReason
      BY DEF Message
    <3>4. CASE box'[c] = box[c]
      BY <1>0, <2>1, <3>4, BoxStays
    <3>5. CASE box'[c] = Append(box[c], Message("down", c, exitReason))
      BY <1>0, <2>1, <3>2, <3>3, <3>5, BoxGrows
    <3> QED
      BY <3>1, <3>4, <3>5
  <2> QED
    BY <2>2 DEF BoxOK, BoxAt
<1>9. CASE RunnableReturned \/ ExitSignal \/ CloseInbox \/ Cast \/ ParentExits \/ UNCHANGED vars
  <2>1. box' = box /\ answer' = answer /\ helper' = helper
    BY <1>9 DEF RunnableReturned, ExitSignal, CloseInbox, Cast, ParentExits, vars
  <2> QED
    BY <1>0, <2>1, BoxStays DEF BoxOK, BoxAt
<1> QED
  BY <1>1, <1>2, <1>3, <1>4, <1>5, <1>6, <1>7, <1>8, <1>9 DEF Next, HelperStep, ProcessStep

\* An answer is given once, and not in the server's lifetime when that is over.
AnswerSettled(k) ==
  /\ answer[k] # "none" => answer'[k] = answer[k]
  /\ ~Running /\ answer[k] # "given" => answer'[k] # "given"

LEMMA AnswersSettled ==
  ASSUME TypeOK, RequestOnce, [Next]_vars
  PROVE  \A k \in Calls : AnswerSettled(k)
<1> USE DEF past, AnswerSettled
<1>1. ASSUME NEW k \in Calls, Replies(k), answer[k] = "none"
      PROVE  \A c \in Calls : AnswerSettled(c)
  BY <1>1 DEF Replies, TypeOK, PastTypes
<1>2. ASSUME NEW k \in Clients, ReplyLater(k)
      PROVE  \A c \in Calls : AnswerSettled(c)
  BY <1>1, <1>2 DEF ReplyLater, RequestOnce, TypeOK, ServerTypes
<1>3. ASSUME HandleCall
      PROVE  \A c \in Calls : AnswerSettled(c)
  <2>1. client \in Calls /\ answer[client] = "none" /\ (Replies(client) \/ answer' = answer)
    BY <1>3 DEF HandleCall, RequestOnce, TypeOK, ServerTypes
  <2> QED
    BY <1>1, <2>1
<1>4. ASSUME NEW k \in Clients,
             BeginCall(k) \/ BeginStop(k) \/ HelperStep(k) \/ Meet(k) \/ GiveUp(k)
      PROVE  answer' = answer
  BY <1>4 DEF BeginCall, BeginStop, HelperStep, HelperChecks, HelperMonitors, HelperSends,
              HelperTakes, HelperTimesOut, Meet, GiveUp
<1>5. CASE RunnableStep /\ ~HandleCall
  BY <1>5 DEF RunnableStep, Receive, ReceiveClosed, HandleCast, CallbackPanics, ContinueEnds,
              ContinueFails, ContinuePanics, Terminate, TerminatePanics
<1>6. CASE ProcessStep \/ Cast \/ ParentExits \/ UNCHANGED vars
  BY <1>6 DEF ProcessStep, RunnableReturned, ExitSignal, Notify, CloseInbox, Cast, ParentExits,
              vars
<1> QED
  BY <1>2, <1>3, <1>4, <1>5, <1>6 DEF Next

\* No new offer, no new result.
LEMMA OfferStays ==
  ASSUME TypeOK, RequestOnce, OfferOK, [Next]_vars, offer' = offer, StopReason' = StopReason,
         \A k \in Stops : result'[k] = "nil" => result[k] = "nil"
  PROVE  OfferOK'
<1>0. \A k \in Calls : AnswerSettled(k)
  BY AnswersSettled
<1>1. \A k \in Stops : StopReason[k] \in EndReasons
  BY DEF TypeOK, ServerTypes
<1>2. \A k \in Stops : offer[k] \in EndReasons \/ result[k] = "nil" => ~Running
  BY <1>1 DEF OfferOK, TypeOK, ServerTypes
<1>3. ASSUME NEW k \in Stops
      PROVE  /\ offer'[k] \in EndReasons => offer'[k] = exitReason'
             /\ result'[k] = "nil" => exitReason' = StopReason'[k]
  BY <1>2, ReasonSettled DEF OfferOK
<1>4. ASSUME NEW k \in Calls
      PROVE  /\ offer'[k] = "ok" => answer'[k] # "none"
             /\ offer'[k] \in {"stopped", "other"} => ~Running' /\ answer'[k] # "given"
             /\ offer'[k] = "stopped" => exitReason' \in {"normal", "shutdown"}
  BY <1>0, ReasonSettled DEF OfferOK, AnswerSettled
<1> QED
  BY <1>3, <1>4 DEF OfferOK

\* A helper reads its first letter.
LEMMA OfferTaken ==
  ASSUME NEW k \in Clients, TypeOK, RequestOnce, BoxOK, OfferOK, [Next]_vars, HelperTakes(k)
  PROVE  OfferOK'
<1> USE DEF helpers, past, flags
<1> DEFINE m == Head(box[k])
<1>1. /\ box[k] \in Seq(Letters) /\ box[k] # <<>> /\ helper[k] = "wait"
      /\ offer' = [offer EXCEPT ![k] = Outcome(k, m)] /\ offer \in [Clients -> Outcomes]
  BY DEF HelperTakes, TypeOK, HelperTypes
<1>2. /\ answer' = answer /\ result' = result /\ StopReason' = StopReason
      /\ exitReason' = exitReason /\ Running' = Running
  BY DEF HelperTakes
<1>3. m \in Letters /\ 1 \in DOMAIN box[k] /\ m = box[k][1]
  BY <1>1
<1>4. /\ m.type = "reply" => k \in Calls /\ answer[k] # "none"
      /\ m.type # "reply" => ~Running /\ m.reason \in {"noproc", exitReason}
      /\ k \in Calls /\ answer[k] = "given" => m.type = "reply"
  BY <1>1, <1>3 DEF BoxOK, Letters
<1>5. offer'[k] = Outcome(k, m) /\ \A c \in Clients : c # k => offer'[c] = offer[c]
  BY <1>1
<1>6. CASE k \in Calls
  <2>1. CASE m.type = "reply"
    <3>1. k \notin Stops /\ answer[k] # "none"
      BY <1>4, <1>6, <2>1
    <3>2. Outcome(k, m) = "ok"
      BY <1>3, <2>1, <3>1 DEF Outcome, Letters
    <3> QED
      BY <1>2, <1>5, <1>6, <3>1, <3>2 DEF OfferOK
  <2>2. CASE m.type # "reply"
    <3>1. k \notin Stops /\ offer'[k] \in {"stopped", "other"}
      BY <1>5, <1>6, <2>2 DEF Outcome
    <3>2. offer'[k] = "stopped" => m.reason \in {"normal", "shutdown"}
      BY <1>5, <2>2, <3>1 DEF Outcome
    <3>3. ~Running /\ answer[k] # "given" /\ m.reason \in {"noproc", exitReason}
      BY <1>4, <1>6, <2>2
    <3> QED
      BY <1>2, <1>5, <1>6, <3>1, <3>2, <3>3 DEF OfferOK
  <2> QED
    BY <2>1, <2>2
<1>7. CASE k \in Stops
  <2>1. offer'[k] \in EndReasons => offer'[k] = exitReason
    BY <1>4, <1>5, <1>7 DEF Outcome
  <2> QED
    BY <1>2, <1>5, <1>7, <2>1 DEF OfferOK
<1> QED
  BY <1>6, <1>7

LEMMA OfferOKKept ==
  ASSUME TypeOK, RequestOnce, BoxOK, OfferOK, [Next]_vars
  PROVE  OfferOK'
<1> USE DEF helpers, past, flags
<1>1. ASSUME NEW k \in Clients, HelperTimesOut(k)
      PROVE  OfferOK'
  BY <1>1 DEF HelperTimesOut, OfferOK, TypeOK, HelperTypes
<1>2. ASSUME NEW k \in Clients, Meet(k)
      PROVE  OfferOK'
  <2>1. ASSUME NEW c \in Stops, result'[c] = "nil"
        PROVE  exitReason = StopReason[c]
    <3>1. CASE c = k
      <4>1. result'[c] = Verdict(c, offer[c]) /\ offer[c] # "nil"
        BY <1>2, <2>1, <3>1 DEF Meet, TypeOK, HelperTypes
      <4>2. offer[c] = StopReason[c] /\ StopReason[c] \in EndReasons
        BY <2>1, <4>1 DEF Verdict, TypeOK, ServerTypes
      <4> QED
        BY <4>2 DEF OfferOK
    <3>2. CASE c # k
      BY <1>2, <2>1, <3>2 DEF Meet, OfferOK, TypeOK, HelperTypes
    <3> QED
      BY <3>1, <3>2
  <2> QED
    BY <1>2, <2>1 DEF Meet, OfferOK
<1>3. ASSUME NEW k \in Clients, BeginStop(k) \/ GiveUp(k)
      PROVE  OfferOK'
  <2>1. \A c \in Stops : result'[c] = "nil" => result[c] = "nil"
    BY <1>3 DEF BeginStop, GiveUp, TypeOK, HelperTypes
  <2> QED
    BY <1>3, <2>1, OfferStays DEF BeginStop, GiveUp
<1>4. ASSUME NEW k \in Clients,
             BeginCall(k) \/ HelperChecks(k) \/ HelperMonitors(k) \/ HelperSends(k) \/ ReplyLater(k)
      PROVE  OfferOK'
  BY <1>4, OfferStays DEF BeginCall, HelperChecks, HelperMonitors, HelperSends, ReplyLater
<1>5. CASE RunnableStep
  <2>1. offer' = offer /\ result' = result /\ StopReason' = StopReason
    BY <1>5 DEF RunnableStep, Receive, ReceiveClosed, HandleCall, HandleCast, CallbackPanics,
                ContinueEnds, ContinueFails, ContinuePanics, Terminate, TerminatePanics
  <2> QED
    BY <2>1, OfferStays
<1>6. CASE ProcessStep \/ Cast \/ ParentExits \/ UNCHANGED vars
  <2>1. offer' = offer /\ result' = result /\ StopReason' = StopReason
    BY <1>6 DEF ProcessStep, RunnableReturned, ExitSignal, Notify, CloseInbox, Cast, ParentExits,
                vars
  <2> QED
    BY <2>1, OfferStays
<1> QED
  BY <1>1, <1>2, <1>3, <1>4, <1>5, <1>6, OfferTaken DEF Next, HelperStep

-----------------------------------------------------------------------------
(* EndOK: only the Runnable's steps and the end of the process touch it.    *)

LEMMA EndOKKept ==
  ASSUME TypeOK, EndOK, [Next]_vars
  PROVE  EndOK'
<1> USE DEF TypeOK, ServerTypes, PastTypes, EndOK, server, past
<1>1. ASSUME NEW k \in Clients,
             BeginCall(k) \/ BeginStop(k) \/ Meet(k) \/ GiveUp(k) \/ ReplyLater(k)
      PROVE  EndOK'
  BY <1>1 DEF BeginCall, BeginStop, Meet, GiveUp, ReplyLater
<1>2. ASSUME NEW k \in Clients, HelperStep(k)
      PROVE  EndOK'
  BY <1>2 DEF HelperStep, HelperChecks, HelperMonitors, HelperSends, HelperTakes, HelperTimesOut
<1>3. CASE Receive
  <2>1. pc' # "returned" /\ UNCHANGED <<run, exitReason, terminated, panics, dropped>>
    BY <1>3 DEF Receive, CallTerminate, Requests
  <2> QED
    BY <1>3, <2>1 DEF Receive
<1>4. CASE ReceiveClosed
  BY <1>4 DEF ReceiveClosed, Return
<1>5. CASE HandleCall \/ HandleCast \/ CallbackPanics
  BY <1>5 DEF HandleCall, HandleCast, CallbackPanics, CallbackReturns, CallTerminate
<1>6. CASE ContinueEnds \/ ContinueFails \/ ContinuePanics
  BY <1>6 DEF ContinueEnds, ContinueFails, ContinuePanics, Return, CallTerminate
<1>7. CASE Terminate \/ TerminatePanics
  BY <1>7 DEF Terminate, TerminatePanics, Return, CallTerminate
<1>8. CASE RunnableReturned
  BY <1>8 DEF RunnableReturned, Exits
<1>9. CASE ExitSignal
  BY <1>9 DEF ExitSignal, Exits
<1>10. CASE Notify \/ CloseInbox \/ Cast \/ ParentExits \/ UNCHANGED vars
  BY <1>10 DEF Notify, CloseInbox, Cast, ParentExits, vars
<1> QED
  BY <1>1, <1>2, <1>3, <1>4, <1>5, <1>6, <1>7, <1>8, <1>9, <1>10 DEF Next, RunnableStep, ProcessStep

-----------------------------------------------------------------------------
(* What follows.                                                            *)

\* IInv holds in every reachable state, for any calls, stops and bounds.
THEOREM Invariance == Spec => []IInv
<1>1. IInv /\ [Next]_vars => IInv'
  BY TypesKept, RequestOnceKept, BoxOKKept, OfferOKKept, EndOKKept DEF IInv
<1> QED
  BY InitEstablishes, <1>1, PTL DEF Spec

\* Stop returns nil only when the server has left its loop with the reason Stop was
\* given, after Terminate.
THEOREM StopTruth == Spec => []StopMeansTerminated
<1>1. IInv => StopMeansTerminated
  <2> SUFFICES ASSUME IInv, NEW k \in Stops, result[k] = "nil"
               PROVE  /\ ~Running /\ exitReason = StopReason[k]
                      /\ StopReason[k] # "kill" => terminated > 0 \/ dropped
    BY DEF StopMeansTerminated
  <2>1. exitReason = StopReason[k]
    BY DEF IInv, OfferOK
  <2>2. StopReason[k] \in {"normal", "shutdown", "kill"} /\ (Running => exitReason = "none")
    BY DEF IInv, TypeOK, ServerTypes
  <2> QED
    BY <2>1, <2>2 DEF IInv, EndOK
<1> QED
  BY Invariance, <1>1, PTL

\* Receive returns only after Terminate, or with an error of HandleContinue; and
\* Terminate is called again only when it panics.
THEOREM Termination == Spec => []TerminateOnTheWayOut
<1>1. IInv => TerminateOnTheWayOut
  BY DEF IInv, EndOK, TerminateOnTheWayOut, TypeOK, PastTypes
<1> QED
  BY Invariance, <1>1, PTL

-----------------------------------------------------------------------------
(* Call implements RemoteCall.  Meet and GiveUp are Returns, the sending of *)
(* a CallReply is Answer, Exits is End; all else is a stutter.              *)

promised == <<answer, IF Running THEN "no" ELSE exitReason, [k \in Calls |-> result[k]]>>

LEMMA PromiseInit == Init => Promise!Init
BY DEF Init, Promise!Init

\* Helper and caller meet: what the helper offers may be returned.
LEMMA MeetReturns ==
  ASSUME IInv, NEW k \in Clients, Meet(k)
  PROVE  [Promise!Next]_promised
<1> USE DEF promised, past
<1>1. /\ helper[k] = "offer" /\ result[k] = "none" /\ result' = [result EXCEPT ![k] = Verdict(k, offer[k])]
      /\ answer' = answer /\ run' = run /\ exitReason' = exitReason
  BY DEF Meet, Waiting
<1>2. DOMAIN result = Clients /\ offer[k] # "none" /\ (k \in Calls => offer[k] \in CallOutcomes)
  BY <1>1 DEF IInv, TypeOK, HelperTypes
<1>3. CASE k \in Stops
  BY <1>1, <1>2, <1>3
<1>4. CASE k \in Calls
  <2>1. Verdict(k, offer[k]) = offer[k] /\ offer[k] \in {"ok", "stopped", "other", "timeout"}
    BY <1>2, <1>4 DEF Verdict
  <2>2. /\ offer[k] = "ok" => answer[k] # "none"
        /\ offer[k] \in {"stopped", "other"} => ~Running /\ answer[k] # "given"
        /\ offer[k] = "stopped" => exitReason \in {"normal", "shutdown"}
        /\ ~Running => exitReason # "no"
    BY <1>4 DEF IInv, OfferOK, TypeOK, ServerTypes
  <2>3. [c \in Calls |-> result'[c]] = [[c \in Calls |-> result[c]] EXCEPT ![k] = offer[k]]
    BY <1>1, <1>2, <1>4, <2>1
  <2>4. \A r : r = offer[k] => Promise!Returns(k, r)
    BY <1>1, <1>4, <2>1, <2>2, <2>3 DEF Promise!Returns
  <2> QED
    BY <1>4, <2>1, <2>4 DEF Promise!Next
<1> QED
  BY <1>3, <1>4

\* A caller gives up, or Stop finds nobody.
LEMMA GiveUpReturns ==
  ASSUME IInv, NEW k \in Clients, GiveUp(k) \/ BeginStop(k)
  PROVE  [Promise!Next]_promised
<1> USE DEF promised, past
<1>1. DOMAIN result = Clients
  BY DEF IInv, TypeOK, HelperTypes
<1>2. answer' = answer /\ run' = run /\ exitReason' = exitReason
  BY DEF GiveUp, BeginStop
<1>3. CASE k \in Stops
  BY <1>1, <1>2, <1>3 DEF GiveUp, BeginStop
<1>4. CASE k \in Calls
  <2>1. result[k] = "none" /\ result' = [result EXCEPT ![k] = "timeout"]
    BY <1>4 DEF GiveUp, BeginStop, Waiting
  <2>2. [c \in Calls |-> result'[c]] = [[c \in Calls |-> result[c]] EXCEPT ![k] = "timeout"]
    BY <1>1, <1>4, <2>1
  <2>3. Promise!Returns(k, "timeout")
    BY <1>2, <1>4, <2>1, <2>2 DEF Promise!Returns
  <2> QED
    BY <1>4, <2>3 DEF Promise!Next
<1> QED
  BY <1>3, <1>4

\* A CallReply is sent: the call has not been answered before.
LEMMA ReplyAnswers ==
  ASSUME IInv, NEW k \in Calls, Replies(k), answer[k] = "none",
         run' = run, exitReason' = exitReason, result' = result
  PROVE  [Promise!Next]_promised
<1>1. Running \/ exitReason # "no"
  BY DEF IInv, TypeOK, ServerTypes
<1>2. Promise!Answer(k)
  BY <1>1 DEF Promise!Answer, Replies
<1> QED
  BY <1>2 DEF Promise!Next

\* The process exits, with one of the reasons.
LEMMA ExitEnds ==
  ASSUME IInv, NEW why, Exits(why), why \in EndReasons, answer' = answer, result' = result
  PROVE  [Promise!Next]_promised
<1>1. Promise!End(why)
  BY DEF Promise!End, Exits
<1> QED
  BY <1>1 DEF Promise!Next

\* Call implements RemoteCall: it returns once, with an answer that the server gave,
\* or with the end of a server that did not answer in its lifetime, or it gives up.
THEOREM CallImplements == Spec => ImplementsRemoteCall
<1>1. IInv /\ [Next]_vars => [Promise!Next]_promised
  <2> SUFFICES ASSUME IInv, [Next]_vars PROVE [Promise!Next]_promised
    OBVIOUS
  <2> USE DEF helpers, past
  <2>1. ASSUME NEW k \in Clients, BeginCall(k) \/ HelperStep(k)
        PROVE  UNCHANGED promised
    BY <2>1 DEF BeginCall, HelperStep, HelperChecks, HelperMonitors, HelperSends, HelperTakes,
                HelperTimesOut, promised
  <2>2. ASSUME NEW k \in Clients, ReplyLater(k)
        PROVE  [Promise!Next]_promised
    <3>1. k \in Calls /\ answer[k] = "none"
      BY <2>2 DEF ReplyLater, IInv, RequestOnce, TypeOK, ServerTypes
    <3> QED
      BY <2>2, <3>1, ReplyAnswers DEF ReplyLater
  <2>3. CASE HandleCall
    <3>1. /\ client \in Calls /\ answer[client] = "none"
          /\ run' = run /\ exitReason' = exitReason /\ result' = result
      BY <2>3 DEF HandleCall, IInv, RequestOnce, TypeOK, ServerTypes
    <3>2. CASE Replies(client)
      BY <3>1, <3>2, ReplyAnswers
    <3>3. CASE answer' = answer
      BY <3>1, <3>3 DEF promised
    <3> QED
      BY <2>3, <3>2, <3>3 DEF HandleCall
  <2>4. CASE RunnableReturned
    <3>1. reason \in EndReasons
      BY <2>4 DEF RunnableReturned, IInv, TypeOK, ServerTypes
    <3> QED
      BY <2>4, <3>1, ExitEnds DEF RunnableReturned
  <2>5. CASE ExitSignal
    <3>1. PICK why \in signals : Exits(why)
      BY <2>5 DEF ExitSignal
    <3>2. why \in EndReasons
      BY <3>1 DEF IInv, TypeOK, ServerTypes
    <3> QED
      BY <2>5, <3>1, <3>2, ExitEnds DEF ExitSignal
  <2>6. CASE RunnableStep /\ ~HandleCall
    BY <2>6 DEF RunnableStep, Receive, ReceiveClosed, HandleCast, CallbackPanics, ContinueEnds,
                ContinueFails, ContinuePanics, Terminate, TerminatePanics, promised
  <2>7. CASE Notify \/ CloseInbox \/ Cast \/ ParentExits \/ UNCHANGED vars
    BY <2>7 DEF Notify, CloseInbox, Cast, ParentExits, vars, promised
  <2> QED
    BY <2>1, <2>2, <2>3, <2>4, <2>5, <2>6, <2>7, MeetReturns, GiveUpReturns
    DEF Next, ProcessStep
<1> QED
  BY PromiseInit, Invariance, <1>1, PTL DEF Spec, ImplementsRemoteCall, Promise!CallSpec, promised
=============================================================================

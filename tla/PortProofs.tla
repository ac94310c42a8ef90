----------------------------- MODULE PortProofs -----------------------------
(***************************************************************************)
(* A port with any number of closers, lines and commands: the owner gets   *)
(* the lines in order and is told of the end, once.                        *)
(***************************************************************************)
EXTENDS Port, SequenceTheorems, TLAPS

Messages == Senders \cup {"exit", "command", "Exited"}
Letters == {"line", "Exited", "Closed"} \X (0..MaxLines)

-----------------------------------------------------------------------------
(* Sequences.                                                               *)

\* The first of a queue, and the rest.
LEMMA Queue ==
  ASSUME NEW S, NEW s \in Seq(S), s # <<>>
  PROVE  /\ Head(s) \in S /\ Head(s) = s[1] /\ 1 \in DOMAIN s
         /\ Tail(s) \in Seq(S) /\ Len(Tail(s)) = Len(s) - 1
         /\ \A i \in DOMAIN Tail(s) : i + 1 \in DOMAIN s /\ Tail(s)[i] = s[i + 1]
OBVIOUS

\* Every item of a sequence.
LEMMA Members == ASSUME NEW S, NEW s \in Seq(S) PROVE \A j \in DOMAIN s : s[j] \in S
OBVIOUS

\* What one message adds, at the end.
LEMMA Added ==
  ASSUME NEW S, NEW s \in Seq(S), NEW x \in S
  PROVE  /\ Append(s, x) \in Seq(S) /\ DOMAIN Append(s, x) = DOMAIN s \cup {Len(s) + 1}
         /\ Len(s) + 1 \notin DOMAIN s /\ Append(s, x)[Len(s) + 1] = x
         /\ \A i \in DOMAIN s : i \in 1..Len(s) /\ Append(s, x)[i] = s[i]
OBVIOUS

\* And what several do.
LEMMA Joined ==
  ASSUME NEW S, NEW s \in Seq(S), NEW t \in Seq(S)
  PROVE  /\ s \o t \in Seq(S) /\ Len(s \o t) = Len(s) + Len(t) /\ Len(s) \in Nat /\ Len(t) \in Nat
         /\ DOMAIN s = 1..Len(s) /\ DOMAIN t = 1..Len(t) /\ DOMAIN (s \o t) = 1..Len(s) + Len(t)
         /\ \A i \in DOMAIN s : (s \o t)[i] = s[i]
         /\ \A i \in DOMAIN t : (s \o t)[Len(s) + i] = t[i]
         /\ \A i \in DOMAIN (s \o t) : i \in DOMAIN s \/ i - Len(s) \in DOMAIN t
OBVIOUS

\* The names of the messages are no processes.
LEMMA SendersNamed == Senders \cap {"none", "exit", "command", "Exited"} = {}
BY PortAssumption DEF Senders

-----------------------------------------------------------------------------
(* The types.                                                               *)

\* Whatever send leaves in the inbox, or in the owner's, is of its type.
LEMMA DepositedType ==
  ASSUME TypeOK, NEW m \in Messages
  PROVE  Deposited(m) \in Seq(Messages)
BY DEF TypeOK, Deposited, Messages

LEMMA MailedType ==
  ASSUME TypeOK, NEW ms \in Seq(Letters)
  PROVE  Mailed(ms) \in Seq(Letters)
BY DEF TypeOK, Mailed, Letters

\* The end is told with Exited, with Closed, or both, each once.
LEMMA ToOwnerIs ==
  /\ ToOwner \in Seq(Letters)
  /\ \A i \in DOMAIN ToOwner : ToOwner[i] \in {Exited, Closed}
  /\ \A i, j \in DOMAIN ToOwner : ToOwner[i] = ToOwner[j] => i = j
  /\ opts.exitStatus => \E i \in DOMAIN ToOwner : ToOwner[i] = Exited
  /\ closing => \E i \in DOMAIN ToOwner : ToOwner[i] = Closed
<1> DEFINE A == IF opts.exitStatus THEN <<Exited>> ELSE <<>>
           B == IF closing THEN <<Closed>> ELSE <<>>
<1>1. Exited \in Letters /\ Closed \in Letters /\ Exited # Closed
  BY PortAssumption DEF Letters, Exited, Closed
<1>2. /\ A \in Seq(Letters) /\ Len(A) = (IF opts.exitStatus THEN 1 ELSE 0)
      /\ \A i \in DOMAIN A : i = 1 /\ A[i] = Exited
      /\ opts.exitStatus => 1 \in DOMAIN A
  BY <1>1
<1>3. /\ B \in Seq(Letters) /\ Len(B) = (IF closing THEN 1 ELSE 0)
      /\ \A i \in DOMAIN B : i = 1 /\ B[i] = Closed
      /\ closing => 1 \in DOMAIN B
  BY <1>1
<1>4. ToOwner = A \o B
  BY DEF ToOwner
<1> HIDE DEF A, B
<1>5. /\ ToOwner \in Seq(Letters) /\ Len(A) \in Nat
      /\ \A i \in DOMAIN A : ToOwner[i] = A[i]
      /\ \A i \in DOMAIN B : ToOwner[Len(A) + i] = B[i]
      /\ \A i \in DOMAIN ToOwner : i \in Nat /\ (i \in DOMAIN A \/ i - Len(A) \in DOMAIN B)
      /\ DOMAIN ToOwner = 1..Len(A) + Len(B) /\ Len(B) \in Nat
      /\ DOMAIN A = 1..Len(A) /\ DOMAIN B = 1..Len(B)
  <2>1. A \in Seq(Letters) /\ B \in Seq(Letters)
    BY <1>2, <1>3
  <2> QED
    BY <1>4, <2>1, Joined
<1>6. \A i \in DOMAIN ToOwner :
        (i = 1 /\ i \in DOMAIN A /\ ToOwner[i] = Exited) \/ (i = Len(A) + 1 /\ ToOwner[i] = Closed)
  <2> TAKE i \in DOMAIN ToOwner
  <2>1. CASE i \in DOMAIN A
    <3>1. i = 1 /\ A[i] = Exited
      BY <1>2, <2>1
    <3>2. ToOwner[i] = A[i]
      BY <1>5, <2>1
    <3> QED
      BY <2>1, <3>1, <3>2
  <2>2. CASE i - Len(A) \in DOMAIN B
    <3>1. i - Len(A) = 1 /\ B[i - Len(A)] = Closed
      BY <1>3, <2>2
    <3>2. i = Len(A) + 1 /\ i = Len(A) + (i - Len(A))
      BY <1>5, <3>1
    <3>3. ToOwner[Len(A) + (i - Len(A))] = B[i - Len(A)]
      BY <1>5, <2>2
    <3> QED
      BY <3>1, <3>2, <3>3
  <2> QED
    BY <1>5, <2>1, <2>2
<1>7. \A i, j \in DOMAIN ToOwner : ToOwner[i] = ToOwner[j] => i = j
  BY <1>1, <1>6
<1>8. opts.exitStatus => 1 \in DOMAIN ToOwner /\ ToOwner[1] = Exited
  BY <1>2, <1>5
<1>9. closing => Len(A) + 1 \in DOMAIN ToOwner /\ ToOwner[Len(A) + 1] = Closed
  BY <1>3, <1>5
<1> QED
  BY <1>5, <1>6, <1>7, <1>8, <1>9

\* The Runnable takes a message of the inbox.
LEMMA TakenType ==
  ASSUME TypeOK, NEW m, Taken(m)
  PROVE  inbox' \in Seq(Messages) /\ m \in Messages /\ inbox[1] = m /\ 1 \in DOMAIN inbox
BY Queue DEF TypeOK, Taken, Messages

\* The types, one step per action.
LEMMA RunnableTypes ==
  ASSUME TypeOK, ClosingFor, PortStep
  PROVE  TypeOK'
<1>1. CASE StartProgram
  BY <1>1 DEF TypeOK, StartProgram, Return, others
<1>2. CASE OnParentExit
  BY <1>2, TakenType DEF TypeOK, OnParentExit, KillProgram, Return, others, Messages
<1>3. CASE OnCommand
  BY <1>3, TakenType DEF TypeOK, OnCommand, outside, others, Messages
<1>4. CASE Write
  BY <1>4 DEF TypeOK, Write, others
<1>5. CASE WriteFails
  BY <1>5 DEF TypeOK, WriteFails, KillProgram, Return
<1>6. CASE OnClosePort
  BY <1>6, TakenType DEF TypeOK, OnClosePort, KillProgram, others, Messages
<1>7. CASE OnExited
  <2>1. mail' \in Seq(Letters)
    BY <1>7, MailedType, ToOwnerIs DEF OnExited
  <2>2. told' \subseteq Closers
    BY <1>7 DEF OnExited, TypeOK, Senders, ClosingFor
  <2>3. inbox' \in Seq(Messages)
    BY <1>7, TakenType DEF OnExited
  <2> QED
    BY <1>7, <2>1, <2>2, <2>3 DEF TypeOK, OnExited, Return, outside, Letters, Messages
<1>8. CASE PortExits
  <2>1. ownerUp' \in BOOLEAN /\ inbox' \in Seq(Messages)
    BY <1>8 DEF TypeOK, PortExits
  <2> QED
    BY <1>8, <2>1 DEF TypeOK, PortExits, outside, others, Messages
<1> QED
  BY <1>1, <1>2, <1>3, <1>4, <1>5, <1>6, <1>7, <1>8 DEF PortStep

LEMMA ReaderTypes ==
  ASSUME TypeOK, ReaderStep
  PROVE  TypeOK'
<1>1. CASE ReaderReads
  BY <1>1 DEF TypeOK, ReaderReads, portVars, others
<1>2. CASE ReaderSends
  <2>1. Head(buf) \in 1..MaxLines /\ buf' \in Seq(1..MaxLines)
    BY <1>2, Queue DEF TypeOK, ReaderSends
  <2>2. <<Line(Head(buf))>> \in Seq(Letters)
    BY <2>1, PortAssumption DEF Letters, Line
  <2>3. mail' \in Seq(Letters)
    BY <1>2, <2>2, MailedType DEF ReaderSends
  <2> QED
    BY <1>2, <2>1, <2>3 DEF TypeOK, ReaderSends, portVars, Letters
<1> QED
  BY <1>1, <1>2 DEF ReaderStep

LEMMA OutsideTypes ==
  ASSUME TypeOK,
         \/ WaitReturns \/ OwnerSignal \/ ProgramWrites \/ ProgramReads \/ ProgramEnds
         \/ Cast \/ OwnerExits \/ \E s \in Senders : Close(s)
  PROVE  TypeOK'
<1>1. CASE WaitReturns
  BY <1>1, DepositedType DEF TypeOK, WaitReturns, others, Messages
<1>2. CASE OwnerSignal
  BY <1>2, DepositedType DEF TypeOK, OwnerSignal, outside, others, Messages
<1>3. CASE ProgramWrites
  <2>1. lines' \in 1..MaxLines /\ lines + 1 \in 1..MaxLines
    BY <1>3, PortAssumption DEF TypeOK, ProgramWrites
  <2> QED
    BY <1>3, <2>1 DEF TypeOK, ProgramWrites, portVars, others
<1>4. CASE ProgramReads
  BY <1>4 DEF TypeOK, ProgramReads, portVars, others
<1>5. CASE ProgramEnds
  BY <1>5 DEF TypeOK, ProgramEnds, portVars, others
<1>6. CASE Cast
  <2>1. casts' \in 0..MaxCasts
    BY <1>6, PortAssumption DEF TypeOK, Cast
  <2> QED
    BY <1>6, <2>1, DepositedType DEF TypeOK, Cast, outside, Messages
<1>7. CASE OwnerExits
  <2>1. UNCHANGED <<opts, portVars, outside, others>> /\ ownerUp' \in BOOLEAN
    BY <1>7 DEF OwnerExits
  <2> QED
    BY <2>1 DEF TypeOK, portVars, outside, others
<1>8. ASSUME NEW s \in Senders, Close(s)
      PROVE  TypeOK'
  BY <1>8, DepositedType DEF TypeOK, Close, outside, Messages
<1> QED
  BY <1>1, <1>2, <1>3, <1>4, <1>5, <1>6, <1>7, <1>8

\* All of them.
LEMMA StepTypes == TypeOK /\ ClosingFor /\ [Next]_vars => TypeOK'
<1>1. TypeOK /\ UNCHANGED vars => TypeOK'
  BY DEF TypeOK, vars, portVars, outside, others
<1> QED
  BY <1>1, RunnableTypes, ReaderTypes, OutsideTypes DEF Next

-----------------------------------------------------------------------------
(* The lines.                                                               *)

\* What is read, sent and still in the pipe are line numbers.
LEMMA AheadType ==
  ASSUME TypeOK
  PROVE  /\ Ahead \in Seq(1..MaxLines) /\ DOMAIN Ahead = 1..Len(buf) + Len(pipe)
         /\ \A j \in DOMAIN Ahead : j \in Nat /\ Ahead[j] \in 1..MaxLines /\ Ahead[j] \in Nat
         /\ \A i \in DOMAIN mail : i \in Nat /\ mail[i] \in Letters /\ mail[i][2] \in Nat
         /\ lines \in Nat /\ DOMAIN mail = 1..Len(mail) /\ Len(mail) \in Nat
<1>1. buf \in Seq(1..MaxLines) /\ pipe \in Seq(1..MaxLines) /\ mail \in Seq(Letters)
  BY DEF TypeOK, Letters
<1>2. Ahead \in Seq(1..MaxLines) /\ DOMAIN Ahead = 1..Len(buf) + Len(pipe)
  BY <1>1, Joined DEF Ahead
<1>3. \A j \in DOMAIN Ahead : Ahead[j] \in 1..MaxLines
  BY <1>2, Members
<1>4. \A i \in DOMAIN mail : i \in Nat /\ mail[i] \in Letters
  BY <1>1, Members
<1>5. \A i \in DOMAIN mail : mail[i][2] \in Nat
  BY <1>4 DEF Letters
<1>6. lines \in Nat /\ DOMAIN mail = 1..Len(mail) /\ Len(mail) \in Nat
  BY <1>1 DEF TypeOK
<1> QED
  BY <1>2, <1>3, <1>4, <1>5, <1>6, PortAssumption

\* If lines are only dropped, from the front or from the end, the others stay in order.
LEMMA OrderKept ==
  ASSUME TypeOK, TypeOK', LinesInOrder, Written, lines <= lines', mail' = mail, NEW k \in Nat,
         \A j \in DOMAIN Ahead' : j + k \in DOMAIN Ahead /\ Ahead'[j] = Ahead[j + k]
  PROVE  LinesInOrder' /\ Written'
<1>1. /\ \A j \in DOMAIN Ahead : j \in Nat /\ Ahead[j] \in Nat
      /\ \A i \in DOMAIN mail : mail[i][2] \in Nat
      /\ lines \in Nat
  BY AheadType
<1>2. \A j \in DOMAIN Ahead' : j \in Nat
  <2>1. buf' \in Seq(1..MaxLines) /\ pipe' \in Seq(1..MaxLines)
    BY DEF TypeOK
  <2>2. DOMAIN Ahead' = 1..Len(buf') + Len(pipe')
    BY <2>1, Joined DEF Ahead
  <2> QED
    BY <2>2
<1>3. lines' \in Nat
  BY DEF TypeOK
<1>4. InOrder(Ahead')
  BY <1>1, <1>2 DEF LinesInOrder, InOrder
<1>5. \A i \in DOMAIN mail, j \in DOMAIN Ahead' : IsLine(mail[i]) => mail[i][2] < Ahead'[j]
  BY DEF LinesInOrder
<1>6. \A j \in DOMAIN Ahead' : Ahead'[j] <= lines'
  BY <1>1, <1>3 DEF Written
<1>7. \A i \in DOMAIN mail : IsLine(mail[i]) => mail[i][2] <= lines'
  BY <1>1, <1>3 DEF Written
<1> QED
  BY <1>4, <1>5, <1>6, <1>7 DEF LinesInOrder, Written, InOrder, IsLine

\* Nothing about the lines changes.
LEMMA OrderSame ==
  ASSUME TypeOK, TypeOK', LinesInOrder, Written, UNCHANGED <<mail, buf, pipe, lines>>
  PROVE  LinesInOrder' /\ Written'
<1>1. \A j \in DOMAIN Ahead' : j + 0 \in DOMAIN Ahead /\ Ahead'[j] = Ahead[j + 0]
  BY AheadType DEF Ahead
<1>2. lines <= lines'
  BY AheadType
<1> QED
  BY <1>1, <1>2, OrderKept

\* A message for the owner that is not a line.
LEMMA OnExitedOrder ==
  ASSUME TypeOK, TypeOK', LinesInOrder, Written, OnExited
  PROVE  LinesInOrder' /\ Written'
<1>1. UNCHANGED <<buf, pipe, lines>> /\ mail' = Mailed(ToOwner)
  BY DEF OnExited, outside
<1>2. CASE ~ownerUp
  BY <1>1, <1>2, OrderSame DEF Mailed
<1>3. CASE ownerUp
  <2>1. mail' = mail \o ToOwner /\ mail \in Seq(Letters) /\ ToOwner \in Seq(Letters)
    BY <1>1, <1>3, ToOwnerIs DEF Mailed, TypeOK, Letters
  <2>2. /\ \A i \in DOMAIN mail' : i \in DOMAIN mail \/ i - Len(mail) \in DOMAIN ToOwner
        /\ \A i \in DOMAIN mail : mail'[i] = mail[i]
        /\ \A i \in DOMAIN ToOwner : mail'[Len(mail) + i] = ToOwner[i]
        /\ \A i \in DOMAIN mail' : i = Len(mail) + (i - Len(mail))
    BY <2>1, Joined, AheadType
  <2>3. \A i \in DOMAIN mail' : IsLine(mail'[i]) => i \in DOMAIN mail /\ mail'[i] = mail[i]
    <3> SUFFICES ASSUME NEW i \in DOMAIN mail', IsLine(mail'[i]), i \notin DOMAIN mail
                 PROVE  FALSE
      BY <2>2
    <3>1. mail'[i] \in {Exited, Closed}
      BY <2>2, ToOwnerIs
    <3> QED
      BY <3>1 DEF IsLine, Exited, Closed
  <2>4. Ahead' = Ahead
    BY <1>1 DEF Ahead
  <2> QED
    BY <1>1, <2>3, <2>4 DEF LinesInOrder, Written, InOrder, IsLine
<1> QED
  BY <1>2, <1>3

\* The scanner takes the whole pipe.
LEMMA ReaderReadsOrder ==
  ASSUME TypeOK, TypeOK', LinesInOrder, Written, ReaderReads
  PROVE  LinesInOrder' /\ Written'
<1>1. /\ buf \in Seq(1..MaxLines) /\ pipe \in Seq(1..MaxLines) /\ Len(buf) = 0
      /\ buf' = pipe /\ Len(pipe') = 0 /\ pipe' \in Seq(1..MaxLines)
  BY DEF TypeOK, ReaderReads
<1>2. \A j \in 1..Len(pipe) : Ahead[Len(buf) + j] = pipe[j] /\ Ahead'[j] = pipe[j]
  BY <1>1, Joined DEF Ahead
<1>3. DOMAIN Ahead = 1..Len(buf) + Len(pipe) /\ DOMAIN Ahead' = 1..Len(pipe) + Len(pipe')
  BY <1>1, Joined DEF Ahead
<1>4. \A j \in DOMAIN Ahead' : j + 0 \in DOMAIN Ahead /\ Ahead'[j] = Ahead[j + 0]
  <2> SUFFICES ASSUME NEW j \in 1..Len(pipe)
               PROVE  j + 0 \in DOMAIN Ahead /\ Ahead'[j] = Ahead[j + 0]
    BY <1>1, <1>3
  <2>1. Len(buf) + j = j /\ j + 0 = j
    BY <1>1
  <2> QED
    BY <1>1, <1>2, <1>3, <2>1
<1>5. lines <= lines' /\ mail' = mail
  BY AheadType DEF ReaderReads, others
<1> QED
  BY <1>4, <1>5, OrderKept

\* Wait drops what is still in the pipe.
LEMMA WaitReturnsOrder ==
  ASSUME TypeOK, TypeOK', LinesInOrder, Written, WaitReturns
  PROVE  LinesInOrder' /\ Written'
<1>1. /\ buf \in Seq(1..MaxLines) /\ pipe \in Seq(1..MaxLines)
      /\ buf' = buf /\ Len(pipe') = 0 /\ pipe' \in Seq(1..MaxLines)
  BY DEF TypeOK, WaitReturns
<1>2. \A j \in 1..Len(buf) : Ahead[j] = buf[j] /\ Ahead'[j] = buf[j]
  BY <1>1, Joined DEF Ahead
<1>3. DOMAIN Ahead = 1..Len(buf) + Len(pipe) /\ DOMAIN Ahead' = 1..Len(buf) + Len(pipe')
  BY <1>1, Joined DEF Ahead
<1>4. \A j \in DOMAIN Ahead' : j + 0 \in DOMAIN Ahead /\ Ahead'[j] = Ahead[j + 0]
  <2> SUFFICES ASSUME NEW j \in 1..Len(buf)
               PROVE  j \in DOMAIN Ahead /\ Ahead'[j] = Ahead[j] /\ j + 0 = j
    BY <1>1, <1>3
  <2> QED
    BY <1>1, <1>2, <1>3
<1>5. lines <= lines' /\ mail' = mail
  BY AheadType DEF WaitReturns, others
<1> QED
  BY <1>4, <1>5, OrderKept

\* The next line goes to the owner, or to nobody.
LEMMA ReaderSendsOrder ==
  ASSUME TypeOK, TypeOK', LinesInOrder, Written, ReaderSends
  PROVE  LinesInOrder' /\ Written'
<1>1. /\ buf \in Seq(1..MaxLines) /\ pipe \in Seq(1..MaxLines) /\ buf # <<>> /\ buf' = Tail(buf)
      /\ UNCHANGED <<pipe, lines>> /\ mail' = Mailed(<<Line(Head(buf))>>)
      /\ buf' \in Seq(1..MaxLines)
  BY DEF TypeOK, ReaderSends
<1>2. /\ \A j \in DOMAIN buf' : j + 1 \in DOMAIN buf /\ buf'[j] = buf[j + 1]
      /\ Len(buf') = Len(buf) - 1 /\ Head(buf) = buf[1] /\ 1 \in DOMAIN buf
      /\ Len(buf) \in Nat /\ Len(pipe) \in Nat
  BY <1>1, Queue
<1>3. /\ \A i \in DOMAIN buf : Ahead[i] = buf[i]
      /\ \A i \in DOMAIN pipe : Ahead[Len(buf) + i] = pipe[i]
      /\ \A i \in DOMAIN buf' : Ahead'[i] = buf'[i]
      /\ \A i \in DOMAIN pipe : Ahead'[Len(buf') + i] = pipe[i]
      /\ \A j \in DOMAIN Ahead' : j \in DOMAIN buf' \/ j - Len(buf') \in DOMAIN pipe
  BY <1>1, Joined DEF Ahead
<1>4. /\ DOMAIN Ahead = 1..Len(buf) + Len(pipe) /\ DOMAIN Ahead' = 1..Len(buf') + Len(pipe)
      /\ DOMAIN buf = 1..Len(buf)
  BY <1>1, Joined DEF Ahead
<1>5. \A j \in DOMAIN Ahead' : j + 1 \in DOMAIN Ahead /\ Ahead'[j] = Ahead[j + 1]
  <2> TAKE j \in DOMAIN Ahead'
  <2>1. j + 1 \in DOMAIN Ahead /\ j \in Nat
    BY <1>2, <1>4
  <2>2. CASE j \in DOMAIN buf'
    BY <1>2, <1>3, <2>1, <2>2
  <2>3. CASE j - Len(buf') \in DOMAIN pipe
    <3>1. Len(buf') + (j - Len(buf')) = j /\ Len(buf) + (j - Len(buf')) = j + 1
      BY <1>2, <2>1
    <3>2. Ahead'[Len(buf') + (j - Len(buf'))] = Ahead[Len(buf) + (j - Len(buf'))]
      BY <1>3, <2>3
    <3> QED
      BY <2>1, <3>1, <3>2
  <2> QED
    BY <1>3, <2>2, <2>3
<1>6. 1 \in DOMAIN Ahead /\ Ahead[1] = Head(buf)
  BY <1>2, <1>3, <1>4
<1>7. CASE ~ownerUp
  <2>1. lines <= lines' /\ mail' = mail
    BY <1>1, <1>7, AheadType DEF Mailed
  <2> QED
    BY <1>5, <2>1, OrderKept
<1>8. CASE ownerUp
  <2> DEFINE n == Len(mail) + 1
             x == Line(Head(buf))
  <2>1. mail' = mail \o <<x>> /\ mail \in Seq(Letters) /\ mail' \in Seq(Letters)
    BY <1>1, <1>8 DEF Mailed, TypeOK, Letters
  <2>2. x[2] = Ahead[1] /\ x \in Letters
    BY <1>1, <1>6, AheadType DEF Line, Letters
  <2>3. /\ \A i \in DOMAIN mail' : (i \in DOMAIN mail /\ mail'[i] = mail[i]) \/ (i = n /\ mail'[i] = x)
        /\ \A i \in DOMAIN mail : i < n /\ i \in Nat
        /\ n \in Nat
    <3> HIDE DEF x
    <3> QED
      BY <2>1, <2>2
  <2> HIDE DEF x, n
  <2>4. /\ \A j \in DOMAIN Ahead : j \in Nat /\ Ahead[j] \in Nat
        /\ \A j \in DOMAIN Ahead' : j \in Nat
        /\ \A i \in DOMAIN mail : mail[i][2] \in Nat
        /\ lines \in Nat
    BY <1>4, AheadType
  <2>5. InOrder(Ahead')
    BY <1>5, <2>4 DEF LinesInOrder, InOrder
  <2>6. \A j \in DOMAIN Ahead' : x[2] < Ahead'[j]
    <3> TAKE j \in DOMAIN Ahead'
    <3>1. j \in Nat /\ j # 0 /\ j + 1 \in DOMAIN Ahead /\ Ahead'[j] = Ahead[j + 1]
      BY <1>2, <1>4, <1>5, <2>4
    <3>2. 1 < j + 1
      BY <3>1
    <3> QED
      BY <1>6, <2>2, <3>1, <3>2 DEF LinesInOrder, InOrder
  <2>7. \A i \in DOMAIN mail, j \in DOMAIN Ahead' : IsLine(mail[i]) => mail[i][2] < Ahead'[j]
    BY <1>5 DEF LinesInOrder
  <2>8. \A i \in DOMAIN mail', j \in DOMAIN Ahead' : IsLine(mail'[i]) => mail'[i][2] < Ahead'[j]
    BY <2>3, <2>6, <2>7
  <2>9. \A i \in DOMAIN mail : IsLine(mail[i]) => mail[i][2] < x[2]
    BY <1>6, <2>2 DEF LinesInOrder
  <2>10. \A i, j \in DOMAIN mail' :
           i < j /\ IsLine(mail'[i]) /\ IsLine(mail'[j]) => mail'[i][2] < mail'[j][2]
    <3> SUFFICES ASSUME NEW i \in DOMAIN mail', NEW j \in DOMAIN mail', i < j,
                        IsLine(mail'[i]), IsLine(mail'[j])
                 PROVE  mail'[i][2] < mail'[j][2]
      OBVIOUS
    <3>1. i \in DOMAIN mail /\ mail'[i] = mail[i]
      BY <2>3
    <3>2. CASE j = n /\ mail'[j] = x
      BY <2>9, <3>1, <3>2
    <3>3. CASE j \in DOMAIN mail /\ mail'[j] = mail[j]
      BY <3>1, <3>3 DEF LinesInOrder
    <3> QED
      BY <2>3, <3>2, <3>3
  <2>11. /\ \A j \in DOMAIN Ahead' : Ahead'[j] <= lines
         /\ \A i \in DOMAIN mail' : IsLine(mail'[i]) => mail'[i][2] <= lines
    BY <1>5, <1>6, <2>2, <2>3 DEF Written
  <2> QED
    BY <1>1, <2>5, <2>8, <2>10, <2>11 DEF LinesInOrder, Written, IsLine, InOrder
<1> QED
  BY <1>7, <1>8

\* The program writes one more line, behind all others.
LEMMA ProgramWritesOrder ==
  ASSUME TypeOK, TypeOK', LinesInOrder, Written, ProgramWrites
  PROVE  LinesInOrder' /\ Written'
<1> DEFINE n == Len(buf) + Len(pipe) + 1
<1>1. /\ buf \in Seq(1..MaxLines) /\ pipe \in Seq(1..MaxLines) /\ pipe' \in Seq(1..MaxLines)
      /\ UNCHANGED <<buf, mail>> /\ lines' = lines + 1 /\ lines \in Nat /\ pipe' = Append(pipe, lines')
      /\ Len(pipe') = Len(pipe) + 1 /\ Len(buf) \in Nat /\ Len(pipe) \in Nat
  BY AheadType DEF TypeOK, ProgramWrites, others
<1>2. /\ \A i \in DOMAIN buf : Ahead[i] = buf[i] /\ Ahead'[i] = buf[i]
      /\ \A i \in DOMAIN pipe : Ahead[Len(buf) + i] = pipe[i]
      /\ \A i \in DOMAIN pipe' : Ahead'[Len(buf) + i] = pipe'[i]
      /\ \A j \in DOMAIN Ahead : j \in DOMAIN buf \/ j - Len(buf) \in DOMAIN pipe
  BY <1>1, Joined DEF Ahead
<1>3. /\ DOMAIN Ahead = 1..Len(buf) + Len(pipe) /\ DOMAIN Ahead' = 1..Len(buf) + Len(pipe')
  BY <1>1, Joined DEF Ahead
<1>4. /\ \A i \in DOMAIN pipe : i \in DOMAIN pipe' /\ pipe'[i] = pipe[i]
      /\ Len(pipe') \in DOMAIN pipe' /\ pipe'[Len(pipe')] = lines'
  BY <1>1
<1>5. \A j \in DOMAIN Ahead : Ahead'[j] = Ahead[j]
  <2> TAKE j \in DOMAIN Ahead
  <2>1. CASE j \in DOMAIN buf
    BY <1>2, <2>1
  <2>2. CASE j - Len(buf) \in DOMAIN pipe
    <3>1. Len(buf) + (j - Len(buf)) = j
      BY <1>1, <1>3
    <3> QED
      BY <1>2, <1>4, <2>2, <3>1
  <2> QED
    BY <1>2, <2>1, <2>2
<1>6. n = Len(buf) + Len(pipe') /\ Ahead'[n] = lines + 1
  <2>1. n = Len(buf) + Len(pipe')
    BY <1>1
  <2>2. Ahead'[Len(buf) + Len(pipe')] = pipe'[Len(pipe')]
    BY <1>2, <1>4
  <2> QED
    BY <1>1, <1>4, <2>1, <2>2
<1>7. \A j \in DOMAIN Ahead' : (j \in DOMAIN Ahead /\ j < n) \/ j = n
  BY <1>1, <1>3
<1> HIDE DEF n
<1>8. /\ \A j \in DOMAIN Ahead : j \in Nat /\ Ahead[j] \in Nat
      /\ \A i \in DOMAIN mail : mail[i][2] \in Nat
  BY AheadType
<1>9. /\ \A j \in DOMAIN Ahead : Ahead[j] < lines + 1
      /\ \A i \in DOMAIN mail : IsLine(mail[i]) => mail[i][2] < lines + 1
  BY <1>1, <1>8 DEF Written
<1>10. \A i, j \in DOMAIN Ahead' : i < j => Ahead'[i] < Ahead'[j]
  <2> SUFFICES ASSUME NEW i \in DOMAIN Ahead', NEW j \in DOMAIN Ahead', i < j
               PROVE  Ahead'[i] < Ahead'[j]
    OBVIOUS
  <2>1. i \in DOMAIN Ahead /\ i < n
    BY <1>1, <1>3, <1>6
  <2>2. CASE j = n
    BY <1>5, <1>6, <1>9, <2>1, <2>2
  <2>3. CASE j \in DOMAIN Ahead
    BY <1>5, <2>1, <2>3 DEF LinesInOrder, InOrder
  <2> QED
    BY <1>7, <2>2, <2>3
<1>11. \A i \in DOMAIN mail, j \in DOMAIN Ahead' : IsLine(mail[i]) => mail[i][2] < Ahead'[j]
  BY <1>5, <1>6, <1>7, <1>9 DEF LinesInOrder
<1>12. /\ \A j \in DOMAIN Ahead' : Ahead'[j] <= lines + 1
       /\ \A i \in DOMAIN mail : IsLine(mail[i]) => mail[i][2] <= lines + 1
  <2>1. \A j \in DOMAIN Ahead' : Ahead'[j] <= lines + 1
    <3> SUFFICES ASSUME NEW j \in DOMAIN Ahead'
                 PROVE  Ahead'[j] <= lines + 1
      OBVIOUS
    <3>1. CASE j = n
      BY <1>1, <1>6, <3>1
    <3>2. CASE j \in DOMAIN Ahead
      BY <1>1, <1>5, <1>8, <1>9, <3>2
    <3> QED
      BY <1>7, <3>1, <3>2
  <2>2. \A i \in DOMAIN mail : IsLine(mail[i]) => mail[i][2] <= lines + 1
    BY <1>1, <1>8, <1>9
  <2> QED
    BY <2>1, <2>2
<1> QED
  BY <1>1, <1>10, <1>11, <1>12 DEF LinesInOrder, Written, InOrder, IsLine

\* All actions.
LEMMA StepOrder ==
  ASSUME TypeOK, TypeOK', LinesInOrder, Written, [Next]_vars
  PROVE  LinesInOrder' /\ Written'
<1>1. CASE \/ StartProgram \/ OnParentExit \/ OnCommand \/ Write \/ WriteFails \/ OnClosePort
           \/ PortExits
  BY <1>1, OrderSame DEF StartProgram, OnParentExit, OnCommand, Write, WriteFails, OnClosePort,
     PortExits, outside, others
<1>2. CASE \/ OwnerSignal \/ ProgramReads \/ ProgramEnds \/ Cast \/ OwnerExits
           \/ \E s \in Senders : Close(s)
  BY <1>2, OrderSame DEF OwnerSignal, ProgramReads, ProgramEnds, Cast, OwnerExits, Close,
     outside, others
<1>3. CASE UNCHANGED vars
  BY <1>3, OrderSame DEF vars, outside, others
<1> QED
  BY <1>1, <1>2, <1>3, OnExitedOrder, ReaderReadsOrder, ReaderSendsOrder, WaitReturnsOrder,
     ProgramWritesOrder DEF Next, PortStep, ReaderStep

-----------------------------------------------------------------------------
(* The end.                                                                 *)

\* What was mailed stays mailed, and nothing else is than what was just sent.
LEMMA MailGrows ==
  ASSUME TypeOK, NEW ms \in Seq(Letters), mail' = Mailed(ms)
  PROVE  /\ \A i \in DOMAIN mail : i \in DOMAIN mail' /\ mail'[i] = mail[i]
         /\ \A i \in DOMAIN mail' : \/ i \in DOMAIN mail
                                    \/ i - Len(mail) \in DOMAIN ms /\ mail'[i] = ms[i - Len(mail)]
         /\ \A i \in DOMAIN mail' : i \in Nat
         /\ Len(mail) \in Nat
         /\ ownerUp => \A i \in DOMAIN ms : \E k \in DOMAIN mail' : mail'[k] = ms[i]
<1>1. mail \in Seq(Letters) /\ Len(mail) \in Nat /\ \A i \in DOMAIN mail : i \in Nat
  BY DEF TypeOK, Letters
<1>2. CASE ~ownerUp
  BY <1>1, <1>2 DEF Mailed
<1>3. CASE ownerUp
  <2>1. mail' = mail \o ms
    BY <1>3 DEF Mailed
  <2>2. /\ \A i \in DOMAIN mail : i \in DOMAIN mail' /\ mail'[i] = mail[i]
        /\ \A i \in DOMAIN ms : mail'[Len(mail) + i] = ms[i] /\ Len(mail) + i \in DOMAIN mail'
        /\ \A i \in DOMAIN mail' : i \in Nat /\ (i \in DOMAIN mail \/ i - Len(mail) \in DOMAIN ms)
    BY <1>1, <2>1, Joined
  <2>3. \A i \in DOMAIN mail' : i = Len(mail) + (i - Len(mail))
    BY <1>1, <2>2
  <2>4. \A i \in DOMAIN mail' : i - Len(mail) \in DOMAIN ms => mail'[i] = ms[i - Len(mail)]
    BY <2>2, <2>3
  <2>5. \A i \in DOMAIN ms : \E k \in DOMAIN mail' : mail'[k] = ms[i]
    BY <2>2
  <2> QED
    BY <1>1, <2>2, <2>4, <2>5
<1> QED
  BY <1>2, <1>3

End == EndToldOnce /\ Stages /\ ReturnTells /\ ClosingFor

\* Exited is taken once: the Runnable returns, and tells the owner on the way.
LEMMA OnExitedEnd ==
  ASSUME TypeOK, End, OnExited
  PROVE  End'
<1>1. /\ pc = "loop" /\ pc' = "returned" /\ ret = "none" /\ inbox[1] = "Exited" /\ 1 \in DOMAIN inbox
      /\ ret' = (IF closing \/ program = "done" THEN "normal" ELSE "error")
      /\ mail' = Mailed(ToOwner)
      /\ UNCHANGED <<opts, ownerUp, up, closing, closer, stdin, program, waited>>
  BY Queue DEF OnExited, Taken, Return, outside, TypeOK, End, Stages
<1>2. waited /\ program \in {"done", "failed"}
  BY <1>1 DEF End, Stages
<1>3. ~WasMailed(Exited) /\ ~WasMailed(Closed)
  BY <1>1 DEF End, Stages
<1>4. \A i \in DOMAIN inbox' : inbox'[i] \in Messages
  BY TakenType, Members DEF OnExited
<1>5. \A i, j \in DOMAIN mail' : ~IsLine(mail'[i]) /\ mail'[i] = mail'[j] => i = j
  <2> SUFFICES ASSUME NEW i \in DOMAIN mail', NEW j \in DOMAIN mail',
                      ~IsLine(mail'[i]), mail'[i] = mail'[j]
               PROVE  i = j
    BY DEF IsLine
  <2> DEFINE New(k) == k - Len(mail) \in DOMAIN ToOwner /\ mail'[k] = ToOwner[k - Len(mail)]
  <2>1. /\ \A k \in DOMAIN mail' : (k \in DOMAIN mail /\ mail'[k] = mail[k]) \/ New(k)
        /\ i \in Nat /\ j \in Nat /\ Len(mail) \in Nat
    BY <1>1, MailGrows, ToOwnerIs
  <2>2. \A k \in DOMAIN mail' : New(k) => mail'[k] \in {Exited, Closed}
    BY ToOwnerIs
  <2>3. \A k \in DOMAIN mail : mail[k] \notin {Exited, Closed}
    BY <1>3 DEF WasMailed
  <2>4. CASE i \in DOMAIN mail /\ mail'[i] = mail[i] /\ j \in DOMAIN mail /\ mail'[j] = mail[j]
    BY <2>4 DEF End, EndToldOnce, IsLine
  <2>5. CASE New(i) /\ New(j)
    <3>1. i - Len(mail) = j - Len(mail)
      BY <2>5, ToOwnerIs
    <3> QED
      BY <2>1, <3>1
  <2> QED
    BY <2>1, <2>2, <2>3, <2>4, <2>5
<1>6. EndToldOnce'
  BY <1>1, <1>2, <1>5 DEF EndToldOnce, IsLine
<1>7. Stages'
  BY <1>1, <1>2 DEF Stages, End
<1>8. ReturnTells'
  <2> SUFFICES ASSUME ownerUp
               PROVE  (opts.exitStatus => WasMailed(Exited)') /\ (closing => WasMailed(Closed)')
    BY <1>1 DEF ReturnTells
  <2>1. \A i \in DOMAIN ToOwner : \E k \in DOMAIN mail' : mail'[k] = ToOwner[i]
    BY <1>1, MailGrows, ToOwnerIs
  <2>2. opts.exitStatus => \E k \in DOMAIN mail' : mail'[k] = Exited
    BY <2>1, ToOwnerIs
  <2>3. closing => \E k \in DOMAIN mail' : mail'[k] = Closed
    BY <2>1, ToOwnerIs
  <2> QED
    BY <2>2, <2>3 DEF WasMailed, Exited, Closed
<1>9. ClosingFor'
  BY <1>1 DEF ClosingFor, End
<1> QED
  BY <1>6, <1>7, <1>8, <1>9 DEF End

\* A line says nothing of the end.
LEMMA ReaderSendsEnd ==
  ASSUME TypeOK, End, ReaderSends
  PROVE  End'
<1> DEFINE x == Line(Head(buf))
           ms == <<x>>
<1>1. /\ UNCHANGED <<opts, ownerUp, portVars, stdin, program, waited, told, failed>>
      /\ mail' = Mailed(ms)
  BY DEF ReaderSends, portVars
<1>2. ms \in Seq(Letters) /\ \A i \in DOMAIN ms : ms[i] = x
  <2>1. Head(buf) \in 1..MaxLines
    BY Queue DEF ReaderSends, TypeOK
  <2>2. x \in Letters
    BY <2>1, PortAssumption DEF Letters, Line
  <2> HIDE DEF x
  <2> QED
    BY <2>2
<1>3. IsLine(x) /\ x # Exited /\ x # Closed
  BY DEF IsLine, Line, Exited, Closed
<1> HIDE DEF x, ms
<1>4. /\ \A i \in DOMAIN mail' : i \in DOMAIN mail \/ mail'[i] = x
      /\ \A i \in DOMAIN mail : i \in DOMAIN mail' /\ mail'[i] = mail[i]
  BY <1>1, <1>2, MailGrows
<1>5. (WasMailed(Exited)' <=> WasMailed(Exited)) /\ (WasMailed(Closed)' <=> WasMailed(Closed))
  BY <1>3, <1>4 DEF WasMailed, Exited, Closed
<1>6. EndToldOnce'
  BY <1>1, <1>3, <1>4, <1>5 DEF EndToldOnce, End, IsLine, portVars
<1>7. Stages'
  BY <1>1, <1>5 DEF Stages, End, portVars
<1>8. ReturnTells'
  BY <1>1, <1>5 DEF ReturnTells, End, portVars
<1>9. ClosingFor'
  BY <1>1 DEF ClosingFor, End, portVars
<1> QED
  BY <1>6, <1>7, <1>8, <1>9 DEF End

\* The Runnable, up to its return.
LEMMA RunnableEnd ==
  ASSUME TypeOK, End,
         \/ StartProgram \/ OnParentExit \/ OnCommand \/ Write \/ WriteFails \/ OnClosePort
         \/ PortExits
  PROVE  End'
<1>1. UNCHANGED <<mail, told, waited, opts>>
  BY DEF StartProgram, OnParentExit, OnCommand, Write, WriteFails, OnClosePort, PortExits,
     outside, others
<1>2. (WasMailed(Exited)' <=> WasMailed(Exited)) /\ (WasMailed(Closed)' <=> WasMailed(Closed))
  BY <1>1 DEF WasMailed, Exited, Closed
<1>3. \A i \in DOMAIN inbox' : inbox'[i] = "Exited" => \E j \in DOMAIN inbox : inbox[j] = "Exited"
  <2>1. CASE UNCHANGED inbox
    BY <2>1
  <2>2. CASE inbox # <<>> /\ inbox' = Tail(inbox)
    BY <2>2, Queue DEF TypeOK
  <2>3. CASE inbox' = <<>>
    BY <2>3
  <2> QED
    BY <2>1, <2>2, <2>3
    DEF StartProgram, OnParentExit, OnCommand, Write, WriteFails, OnClosePort, PortExits, Taken
<1>4. EndToldOnce' /\ Stages' /\ ReturnTells' /\ ClosingFor'
  <2>1. CASE StartProgram
    BY <1>1, <1>2, <1>3, <2>1
    DEF StartProgram, Return, EndToldOnce, Stages, ReturnTells, ClosingFor, End, IsLine
  <2>2. CASE OnParentExit
    BY <1>1, <1>2, <1>3, <2>2
    DEF OnParentExit, Taken, KillProgram, Return, EndToldOnce, Stages, ReturnTells, ClosingFor, End, IsLine
  <2>3. CASE OnCommand
    BY <1>1, <1>2, <1>3, <2>3
    DEF OnCommand, Taken, outside, others, EndToldOnce, Stages, ReturnTells, ClosingFor, End, IsLine
  <2>4. CASE Write
    BY <1>1, <1>2, <1>3, <2>4
    DEF Write, others, EndToldOnce, Stages, ReturnTells, ClosingFor, End, IsLine
  <2>5. CASE WriteFails
    BY <1>1, <1>2, <1>3, <2>5
    DEF WriteFails, KillProgram, Return, EndToldOnce, Stages, ReturnTells, ClosingFor, End, IsLine
  <2>6. CASE OnClosePort
    <3>1. closer' # "none"
      <4>1. PICK s \in Senders : Taken(s) /\ closer' = s
        BY <2>6 DEF OnClosePort
      <4> QED
        BY <4>1, SendersNamed
    <3>2. pc = "loop" /\ UNCHANGED <<pc, ret, program, failed, ownerUp>> /\ stdin' = "closed"
      BY <2>6 DEF OnClosePort, Taken, KillProgram, others
    <3> QED
      BY <1>1, <1>2, <1>3, <3>1, <3>2 DEF EndToldOnce, Stages, ReturnTells, ClosingFor, End, IsLine
  <2>7. CASE PortExits
    <3>1. /\ UNCHANGED <<pc, ret, program, failed, closing, closer, stdin>>
          /\ ownerUp' => ownerUp
      BY <2>7 DEF PortExits, outside, others
    <3> QED
      BY <1>1, <1>2, <1>3, <3>1 DEF EndToldOnce, Stages, ReturnTells, ClosingFor, End, IsLine
  <2> QED
    BY <2>1, <2>2, <2>3, <2>4, <2>5, <2>6, <2>7
<1> QED
  BY <1>4 DEF End

\* Nobody else tells the owner anything, and only Wait sends Exited.
LEMMA OutsideEnd ==
  ASSUME TypeOK, End,
         \/ ReaderReads \/ WaitReturns \/ OwnerSignal \/ ProgramWrites \/ ProgramReads \/ ProgramEnds
         \/ Cast \/ OwnerExits \/ (\E s \in Senders : Close(s)) \/ UNCHANGED vars
  PROVE  End'
<1>1. /\ UNCHANGED <<mail, told, opts, pc, ret, closing, closer, failed>>
      /\ ownerUp' => ownerUp
      /\ stdin' = stdin \/ stdin' = "closed" \/ ProgramReads
      /\ program' = program \/ (program = "running" /\ program' \in {"done", "failed"})
      /\ waited' = waited \/ (waited' = TRUE /\ program \in {"done", "failed"} /\ program' = program)
  BY DEF ReaderReads, WaitReturns, OwnerSignal, ProgramWrites, ProgramReads, ProgramEnds, Cast,
     OwnerExits, Close, vars, portVars, outside, others
<1>2. (WasMailed(Exited)' <=> WasMailed(Exited)) /\ (WasMailed(Closed)' <=> WasMailed(Closed))
  BY <1>1 DEF WasMailed, Exited, Closed
<1>3. (\E i \in DOMAIN inbox' : inbox'[i] = "Exited") => waited'
  <2>1. CASE WaitReturns
    BY <2>1 DEF WaitReturns
  <2>2. ASSUME NEW m \in Messages \ {"Exited"}, inbox' = Deposited(m), ~WaitReturns
        PROVE  (\E i \in DOMAIN inbox' : inbox'[i] = "Exited") =>
                 \E i \in DOMAIN inbox : inbox[i] = "Exited"
    BY <2>2, Added DEF Deposited, TypeOK, Messages
  <2>3. \/ UNCHANGED inbox \/ WaitReturns
        \/ \E m \in Messages \ {"Exited"} : inbox' = Deposited(m)
    BY SendersNamed DEF ReaderReads, OwnerSignal, ProgramWrites, ProgramReads, ProgramEnds, Cast,
       OwnerExits, Close, vars, portVars, Messages
  <2>4. ~WaitReturns => waited' = waited
    BY DEF ReaderReads, OwnerSignal, ProgramWrites, ProgramReads, ProgramEnds, Cast,
       OwnerExits, Close, vars, outside
  <2> QED
    BY <2>1, <2>2, <2>3, <2>4 DEF End, Stages
<1>4. closing => stdin' = "closed"
  BY <1>1 DEF End, ClosingFor, ProgramReads
<1> QED
  BY <1>1, <1>2, <1>3, <1>4 DEF End, EndToldOnce, Stages, ReturnTells, ClosingFor, IsLine

-----------------------------------------------------------------------------
(* The theorems.                                                            *)

\* Every step keeps the invariant.
LEMMA StepIInv ==
  ASSUME IInv, [Next]_vars
  PROVE  IInv'
<1>1. TypeOK'
  BY StepTypes DEF IInv
<1>2. LinesInOrder' /\ Written'
  BY <1>1, StepOrder DEF IInv
<1>3. End'
  BY OnExitedEnd, ReaderSendsEnd, RunnableEnd, OutsideEnd DEF IInv, End, Next, PortStep, ReaderStep
<1> QED
  BY <1>1, <1>2, <1>3 DEF IInv, End

\* The owner gets the lines in the order they were written, none twice, and is told of
\* the end once, after it (the reader of stdout, doWait, handlePortExited).
THEOREM PortIInv == Spec => []IInv
<1>1. Init => IInv
  <2> SUFFICES ASSUME Init
               PROVE  IInv
    OBVIOUS
  <2>1. TypeOK
    <3>1. /\ inbox \in Seq(Messages) /\ mail \in Seq(Letters)
          /\ pipe \in Seq(1..MaxLines) /\ buf \in Seq(1..MaxLines)
      BY DEF Init
    <3>2. opts \in [exitStatus : BOOLEAN, exitSignal : BOOLEAN, deaf : BOOLEAN]
      BY DEF Init
    <3>3. lines \in 0..MaxLines /\ casts \in 0..MaxCasts
      BY PortAssumption DEF Init
    <3>4. {ownerUp, up, closing, waited, failed} \subseteq BOOLEAN
      <4>1. ownerUp = TRUE /\ up = TRUE /\ closing = FALSE /\ waited = FALSE /\ failed = FALSE
        BY DEF Init
      <4> QED
        BY <4>1
    <3>5. /\ pc = "start" /\ closer = "none" /\ ret = "none" /\ stdin = "empty" /\ program = "none"
          /\ told = {} /\ asked = {}
      BY DEF Init
    <3> QED
      BY <3>1, <3>2, <3>3, <3>4, <3>5 DEF TypeOK, Messages, Letters
  <2>2. DOMAIN Ahead = {} /\ DOMAIN mail = {} /\ DOMAIN inbox = {}
    <3>1. DOMAIN Ahead = 1..Len(buf) + Len(pipe)
      BY <2>1, AheadType
    <3> QED
      BY <3>1 DEF Init
  <2>3. LinesInOrder /\ Written
    BY <2>2 DEF LinesInOrder, Written, InOrder
  <2>4. End
    BY <2>2 DEF Init, End, EndToldOnce, Stages, ReturnTells, ClosingFor, WasMailed
  <2> QED
    BY <2>1, <2>3, <2>4 DEF IInv, End
<1> QED
  BY <1>1, StepIInv, PTL DEF Spec
=============================================================================

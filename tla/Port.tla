-------------------------------- MODULE Port --------------------------------
(***************************************************************************)
(* erl/port: a process around an external program.                         *)
(*                                                                         *)
(* The port's Runnable takes commands, requests to close, its owner's      *)
(* ExitMsg and the program's end from one inbox.  One goroutine reads the  *)
(* program's stdout and sends its lines to the owner, another waits for    *)
(* the program and closes the pipes.  The program is outside: it writes    *)
(* lines, may read stdin or not, and ends by itself, at the end of stdin,  *)
(* or by the exit signal.  stderr works like stdout and is left out; what  *)
(* is in a line is left out as well.                                       *)
(***************************************************************************)
EXTENDS Naturals, Sequences

CONSTANTS
  Closers,   \* processes other than the owner that call Close
  MaxLines,  \* bound on the lines the program writes
  MaxCasts   \* bound on the commands

ASSUME PortAssumption ==
  /\ Closers \cap {"owner", "none", "exit", "command", "Exited"} = {}
  /\ MaxLines \in Nat /\ MaxCasts \in Nat

Senders == Closers \cup {"owner"}

VARIABLES
  opts,      \* the options: [exitStatus, exitSignal], and whether the program is [deaf]
             \* to its stdin
  ownerUp,   \* the owner's process is running
  pc,        \* where the Runnable is
  up,        \* the port's process is running
  inbox,     \* its inbox: "exit", "command", "Exited", or a sender of closePort
  closing,   \* status is closing
  closer,    \* who asked for it, last
  ret,       \* what the Runnable returns
  stdin,     \* commands in the pipe, of which one fits; or "closed"
  program,   \* "none", "running", "done", "failed"
  waited,    \* cmd.Wait has returned
  pipe,      \* lines on stdout that nobody has read
  buf,       \* lines the scanner has read
  lines,     \* how many the program has written
  mail,      \* what the owner was sent: <<kind, number of the line>>
  told,      \* the Closers that got Closed
  asked,     \* who has called Close
  casts,     \* commands so far
  failed     \* history: a command could not be written

portVars == <<pc, up, inbox, closing, closer, ret>>
outside == <<stdin, program, waited, pipe, buf, lines>>
others == <<mail, told, asked, casts, failed>>
vars == <<opts, ownerUp, portVars, outside, others>>

TypeOK ==
  /\ opts \in [exitStatus : BOOLEAN, exitSignal : BOOLEAN, deaf : BOOLEAN]
  /\ {ownerUp, up, closing, waited, failed} \subseteq BOOLEAN
  /\ pc \in {"start", "loop", "write", "returned"}
  /\ inbox \in Seq(Senders \cup {"exit", "command", "Exited"})
  /\ closer \in Senders \cup {"none"}
  /\ ret \in {"none", "normal", "shutdown", "error"}
  /\ stdin \in {"empty", "full", "closed"}
  /\ program \in {"none", "running", "done", "failed"}
  /\ pipe \in Seq(1..MaxLines) /\ buf \in Seq(1..MaxLines) /\ lines \in 0..MaxLines
  /\ mail \in Seq({"line", "Exited", "Closed"} \X (0..MaxLines))
  /\ told \subseteq Closers /\ asked \subseteq Senders /\ casts \in 0..MaxCasts

Init ==
  /\ opts \in [exitStatus : BOOLEAN, exitSignal : BOOLEAN, deaf : BOOLEAN]
  /\ ownerUp = TRUE /\ up = TRUE /\ closing = FALSE /\ waited = FALSE /\ failed = FALSE
  /\ pc = "start" /\ inbox = <<>> /\ closer = "none" /\ ret = "none"
  /\ stdin = "empty" /\ program = "none" /\ pipe = <<>> /\ buf = <<>> /\ lines = 0
  /\ mail = <<>> /\ told = {} /\ asked = {} /\ casts = 0

Deposited(m) == IF up THEN Append(inbox, m) ELSE inbox
Line(n) == <<"line", n>>
Exited == <<"Exited", 0>>
Closed == <<"Closed", 0>>
\* The owner is sent these messages; nobody reads them once it is gone.
Mailed(ms) == IF ownerUp THEN mail \o ms ELSE mail
-----------------------------------------------------------------------------
(* The port's Runnable.                                                     *)

Return(why) == pc' = "returned" /\ ret' = why

\* The program starts, or does not.
StartProgram ==
  /\ pc = "start"
  /\ \/ pc' = "loop" /\ program' = "running" /\ UNCHANGED ret
     \/ Return("error") /\ UNCHANGED program
  /\ UNCHANGED <<opts, ownerUp, up, inbox, closing, closer, stdin, waited, pipe, buf, lines, others>>

\* Mutant: the pipe to the program stays open.
KillNobody == stdin' = stdin
\* kill closes stdin and sends the exit signal, if there is one; what the program makes
\* of either takes its time.
KillProgram == stdin' = "closed"

Taken(m) == pc = "loop" /\ inbox # <<>> /\ Head(inbox) = m /\ inbox' = Tail(inbox)

OnParentExit ==
  /\ Taken("exit") /\ KillProgram /\ Return("shutdown")
  /\ UNCHANGED <<opts, ownerUp, up, closing, closer, program, waited, pipe, buf, lines, others>>

\* Write blocks while the pipe is full, and fails when it is closed or broken.
OnCommand ==
  /\ Taken("command") /\ pc' = "write"
  /\ UNCHANGED <<opts, ownerUp, up, closing, closer, ret, outside, others>>
Write ==
  /\ pc = "write" /\ stdin = "empty" /\ program = "running"
  /\ stdin' = "full" /\ pc' = "loop"
  /\ UNCHANGED <<opts, ownerUp, up, inbox, closing, closer, ret, program, waited, pipe, buf,
                 lines, others>>
WriteFails ==
  /\ pc = "write" /\ (stdin = "closed" \/ program # "running")
  /\ KillProgram /\ Return("error") /\ failed' = TRUE
  /\ UNCHANGED <<opts, ownerUp, up, inbox, closing, closer, program, waited, pipe, buf, lines,
                 mail, told, asked, casts>>

\* A second request replaces the first one's sender.
OnClosePort ==
  /\ \E s \in Senders : Taken(s) /\ closer' = s
  /\ KillProgram /\ closing' = TRUE
  /\ UNCHANGED <<opts, ownerUp, pc, up, ret, program, waited, pipe, buf, lines, others>>

\* Mutant: an owner that closes the port is told Closed instead of Exited.
ToOwnerOne == IF closing THEN <<Closed>> ELSE IF opts.exitStatus THEN <<Exited>> ELSE <<>>
\* What the owner is told of the end: the status if it asked for it, and Closed.
ToOwner ==
  (IF opts.exitStatus THEN <<Exited>> ELSE <<>>) \o (IF closing THEN <<Closed>> ELSE <<>>)

OnExited ==
  /\ Taken("Exited")
  /\ mail' = Mailed(ToOwner)
  /\ told' = IF closing THEN told \cup ({closer} \ {"owner"}) ELSE told
  /\ Return(IF closing \/ program = "done" THEN "normal" ELSE "error")
  /\ UNCHANGED <<opts, ownerUp, up, closing, closer, outside, asked, casts, failed>>

\* The process exits, and an owner that is linked to it hears of it; it does not trap
\* exits, and an error is the end of it.
PortExits ==
  /\ pc = "returned" /\ up /\ up' = FALSE /\ inbox' = <<>>
  /\ ownerUp' = (ownerUp /\ ret # "error")
  /\ UNCHANGED <<opts, pc, closing, closer, ret, outside, others>>
-----------------------------------------------------------------------------
(* The goroutines beside it.                                                *)

\* Mutant: the pipe is not emptied.
ReaderReadsAgain ==
  /\ buf = <<>> /\ pipe # <<>> /\ buf' = pipe
  /\ UNCHANGED <<opts, ownerUp, portVars, stdin, program, waited, pipe, lines, others>>
\* Scan reads what there is, and hands on a line at a time.
ReaderReads ==
  /\ buf = <<>> /\ pipe # <<>> /\ buf' = pipe /\ pipe' = <<>>
  /\ UNCHANGED <<opts, ownerUp, portVars, stdin, program, waited, lines, others>>
ReaderSends ==
  /\ buf # <<>> /\ buf' = Tail(buf) /\ mail' = Mailed(<<Line(Head(buf))>>)
  /\ UNCHANGED <<opts, ownerUp, portVars, stdin, program, waited, pipe, lines, told, asked,
                 casts, failed>>

\* Wait closes the pipes, whether or not everything has been read.
WaitReturns ==
  /\ program \in {"done", "failed"} /\ ~waited /\ waited' = TRUE
  /\ pipe' = <<>> /\ stdin' = "closed" /\ inbox' = Deposited("Exited")
  /\ UNCHANGED <<opts, ownerUp, pc, up, closing, closer, ret, program, buf, lines, others>>
-----------------------------------------------------------------------------
(* The program, the owner, and those who use the port.                      *)

ProgramWrites ==
  /\ program = "running" /\ lines < MaxLines
  /\ lines' = lines + 1 /\ pipe' = Append(pipe, lines + 1)
  /\ UNCHANGED <<opts, ownerUp, portVars, stdin, program, waited, buf, others>>

ProgramReads ==
  /\ program = "running" /\ ~opts.deaf /\ stdin = "full" /\ stdin' = "empty"
  /\ UNCHANGED <<opts, ownerUp, portVars, program, waited, pipe, buf, lines, others>>

ProgramEnds ==
  /\ program = "running" /\ program' \in {"done", "failed"}
  /\ UNCHANGED <<opts, ownerUp, portVars, stdin, waited, pipe, buf, lines, others>>

\* "Good little UNIX processes will exit when stdin is closed", the others by the signal.
ProgramObeys == stdin = "closed" /\ (~opts.deaf \/ opts.exitSignal) /\ ProgramEnds

Close(s) ==
  /\ s \notin asked /\ (s = "owner" => ownerUp)
  /\ asked' = asked \cup {s} /\ inbox' = Deposited(s)
  /\ UNCHANGED <<opts, ownerUp, pc, up, closing, closer, ret, outside, mail, told, casts, failed>>

Cast ==
  /\ casts < MaxCasts /\ casts' = casts + 1 /\ inbox' = Deposited("command")
  /\ UNCHANGED <<opts, ownerUp, pc, up, closing, closer, ret, outside, mail, told, asked, failed>>

OwnerExits ==
  /\ ownerUp /\ ownerUp' = FALSE
  /\ UNCHANGED <<opts, portVars, outside, others>>
\* The port traps exits and is linked to the owner, however it went.
OwnerSignal ==
  /\ ~ownerUp /\ up /\ "exit" \notin {inbox[i] : i \in DOMAIN inbox} /\ ret = "none"
  /\ inbox' = Deposited("exit")
  /\ UNCHANGED <<opts, ownerUp, pc, up, closing, closer, ret, outside, others>>

PortStep ==
  \/ StartProgram \/ OnParentExit \/ OnCommand \/ Write \/ WriteFails \/ OnClosePort
  \/ OnExited \/ PortExits
ReaderStep == ReaderReads \/ ReaderSends

Next ==
  \/ PortStep \/ ReaderStep \/ WaitReturns \/ OwnerSignal
  \/ ProgramWrites \/ ProgramReads \/ ProgramEnds \/ Cast \/ OwnerExits
  \/ \E s \in Senders : Close(s)

Spec == Init /\ [][Next]_vars

\* Goroutines are scheduled; a program does what it is told, unless it is deaf.
FairSpec ==
  /\ Spec /\ WF_vars(PortStep) /\ WF_vars(ReaderStep) /\ WF_vars(WaitReturns)
  /\ WF_vars(OwnerSignal) /\ WF_vars(ProgramObeys) /\ WF_vars(ProgramReads)
-----------------------------------------------------------------------------
(* What is checked.                                                         *)

IsLine(m) == m[1] = "line"
InOrder(s) == \A i, j \in DOMAIN s : i < j => s[i] < s[j]
WasMailed(m) == \E i \in DOMAIN mail : mail[i] = m
Ahead == buf \o pipe

\* Lines reach the owner in order and once, though Wait may take some from the reader.
LinesInOrder ==
  /\ \A i, j \in DOMAIN mail : i < j /\ IsLine(mail[i]) /\ IsLine(mail[j]) => mail[i][2] < mail[j][2]
  /\ \A i \in DOMAIN mail, j \in DOMAIN Ahead : IsLine(mail[i]) => mail[i][2] < Ahead[j]
  /\ InOrder(Ahead)

\* The owner is told Exited and Closed once, and nobody is told before the program ended.
EndToldOnce ==
  /\ \A i, j \in DOMAIN mail : ~IsLine(mail[i]) /\ mail[i] = mail[j] => i = j
  /\ told # {} \/ WasMailed(Exited) \/ WasMailed(Closed) => waited
  /\ ret = "normal" => program # "running"

\* The lines are those the program has written.
Written ==
  /\ \A j \in DOMAIN Ahead : Ahead[j] <= lines
  /\ \A i \in DOMAIN mail : IsLine(mail[i]) => mail[i][2] <= lines

\* What the Runnable knows of the program: it has started it, Exited comes from Wait,
\* and it says of the end what it says when it returns.
Stages ==
  /\ pc = "start" => program = "none"
  /\ ret = "none" <=> pc # "returned"
  /\ (\E i \in DOMAIN inbox : inbox[i] = "Exited") => waited
  /\ waited => program \in {"done", "failed"}
  /\ told # {} \/ WasMailed(Exited) \/ WasMailed(Closed) => pc = "returned" /\ waited
  /\ ret = "normal" => waited

\* A Runnable that has returned, whether or not the program is still there, told the
\* owner, but for a command that failed and a program that never started.
ReturnTells ==
  ret \in {"normal", "error"} /\ program # "none" /\ ownerUp =>
    failed \/ ((opts.exitStatus => WasMailed(Exited)) /\ (closing => WasMailed(Closed)))

\* A port that is closing has closed stdin, for somebody.
ClosingFor == closing => stdin = "closed" /\ closer # "none"

\* The inductive invariant: lines in order, the end told once, to whom it concerns, and
\* a Runnable that knows what the program has done.
IInv ==
  TypeOK /\ LinesInOrder /\ EndToldOnce /\ Written /\ Stages /\ ReturnTells /\ ClosingFor

\* "PortOwner will receive a [PortExited] msg, regardless of the ExtProg exit code"
\* (port.go:14-15): once the program has ended, by itself or when told, the port ends
\* too, and an owner that is there has been told what it asked for, PortExited, and
\* Closed when somebody closed the port; unless a command failed first.
OwnerTold ==
  program \in {"done", "failed"}
    ~> /\ pc = "returned"
       /\ ~ownerUp \/ failed \/ ((opts.exitStatus => WasMailed(Exited))
                               /\ (closing => WasMailed(Closed)))

\* "A [PortExited] message will be sent to the sender and the PortOwner" (api.go:180):
\* the last who asked is told, unless the port ended for another reason, or the program
\* does not end.
CloserTold ==
  closing ~> \/ closer \in told \cup {"owner"} \/ failed \/ ~ownerUp
             \/ (opts.deaf /\ ~opts.exitSignal)

\* The end of the owner ends the program ("This prevents zombie processes", port.go:75),
\* unless the program will not hear, or the port is writing to one that does not read.
ProgramEndsWithOwner ==
  ~ownerUp ~> \/ program # "running" \/ (opts.deaf /\ ~opts.exitSignal)
              \/ (pc = "write" /\ opts.deaf)
=============================================================================

---------------------------- MODULE ProcessProofs ----------------------------
(***************************************************************************)
(* Any number of processes that link to, monitor, message and kill each    *)
(* other: what run, the Runnables and the inboxes hold is of its type, a   *)
(* DownMsg tells the truth, comes once, and not after a Demonitor, what a  *)
(* process sent arrives before its DownMsg, links are mutual, and whoever  *)
(* links to or monitors a process hears of its end.                        *)
(*                                                                         *)
(* Base says what every signal on its way, in an inbox or in a list means. *)
(* It makes one pass over the actions; Orderly, LinksTied and Monitored    *)
(* rest on it, and on what a step does to one signal: who puts it into     *)
(* `out', who moves it to an inbox, who takes it.                          *)
(***************************************************************************)
EXTENDS Process, FiniteSetTheorems, SequenceTheorems, TLAPS

-----------------------------------------------------------------------------
(* Signals.                                                                *)

\* Every kind of signal, from its fields ...
LEMMA Constructed ==
  /\ \A p \in Procs : {LinkSig(p), UnlinkSig(p), MessageSig(p)} \subseteq Signals
  /\ \A r \in Refs, p, q \in Procs : MonitorSig(r, p, q) \in Signals
  /\ \A r \in Refs, p \in Procs : DemonitorSig(r, p) \in Signals
  /\ \A p \in Procs, why \in ExitReasons, lnk \in BOOLEAN : ExitSig(p, why, lnk) \in Signals
  /\ \A p \in Procs, r \in Refs, why \in ExitReasons : DownSig(p, r, why) \in Signals
  /\ Reasons \cup {"noproc", "other"} = ExitReasons
BY DEF Signals, ExitReasons, LinkSig, UnlinkSig, MessageSig, MonitorSig, DemonitorSig, ExitSig, DownSig

\* ... and its fields, from its type.
LEMMA Shapes ==
  ASSUME NEW sig \in Signals
  PROVE  /\ sig.type \in {"link", "unlink", "msg", "monitor", "demonitor", "exit", "down"}
         /\ sig.type = "link" => sig.pid \in Procs /\ sig = LinkSig(sig.pid)
         /\ sig.type = "unlink" => sig.pid \in Procs /\ sig = UnlinkSig(sig.pid)
         /\ sig.type = "msg" => sig.sender \in Procs /\ sig = MessageSig(sig.sender)
         /\ sig.type = "monitor" =>
              /\ sig.ref \in Refs /\ sig.monitor \in Procs /\ sig.monitored \in Procs
              /\ sig = MonitorSig(sig.ref, sig.monitor, sig.monitored)
         /\ sig.type = "demonitor" =>
              sig.ref \in Refs /\ sig.origin \in Procs /\ sig = DemonitorSig(sig.ref, sig.origin)
         /\ sig.type = "exit" =>
              /\ sig.sender \in Procs /\ sig.reason \in ExitReasons /\ sig.link \in BOOLEAN
              /\ sig = ExitSig(sig.sender, sig.reason, sig.link)
         /\ sig.type = "down" =>
              /\ sig.proc \in Procs /\ sig.ref \in Refs /\ sig.reason \in ExitReasons
              /\ sig = DownSig(sig.proc, sig.ref, sig.reason)
BY DEF Signals, LinkSig, UnlinkSig, MessageSig, MonitorSig, DemonitorSig, ExitSig, DownSig

\* The fields themselves.
LEMMA Fields ==
  ASSUME NEW p, NEW q, NEW r, NEW why, NEW lnk
  PROVE  /\ LinkSig(p).type = "link" /\ LinkSig(p).pid = p
         /\ UnlinkSig(p).type = "unlink" /\ UnlinkSig(p).pid = p
         /\ MessageSig(p).type = "msg" /\ MessageSig(p).sender = p
         /\ MonitorSig(r, p, q).type = "monitor" /\ MonitorSig(r, p, q).ref = r
         /\ MonitorSig(r, p, q).monitor = p /\ MonitorSig(r, p, q).monitored = q
         /\ DemonitorSig(r, p).type = "demonitor" /\ DemonitorSig(r, p).ref = r
         /\ DemonitorSig(r, p).origin = p
         /\ ExitSig(p, why, lnk).type = "exit" /\ ExitSig(p, why, lnk).sender = p
         /\ ExitSig(p, why, lnk).reason = why /\ ExitSig(p, why, lnk).link = lnk
         /\ DownSig(p, r, why).type = "down" /\ DownSig(p, r, why).proc = p
         /\ DownSig(p, r, why).ref = r /\ DownSig(p, r, why).reason = why
  BY DEF LinkSig, UnlinkSig, MessageSig, MonitorSig, DemonitorSig, ExitSig, DownSig

\* A letter, before send has looked at the status.
LEMMA LetterIs ==
  ASSUME NEW q \in Procs, NEW sig \in Signals
  PROVE  /\ Letter(q, sig) \in Letters
         /\ Letter(q, sig).to = q /\ Letter(q, sig).sig = sig /\ Letter(q, sig).checked = FALSE
  BY DEF Letter, Letters

\* The answer to a letter that a dead process would have got.
LEMMA Replies ==
  ASSUME NEW l \in Letters, Answered(l)
  PROVE  DeadReply(l) \in Letters
<1> DEFINE sig == l.sig
<1>1. sig \in Signals /\ l.to \in Procs /\ "noproc" \in ExitReasons
  BY DEF Letters, ExitReasons
<1>2. CASE sig.type = "link"
  <2>1. sig.pid \in Procs
    BY <1>1, <1>2, Shapes
  <2>2. ExitSig(l.to, "noproc", TRUE) \in Signals
    BY <1>1, Constructed
  <2> QED
    BY <2>1, <2>2, <1>2, LetterIs DEF DeadReply
<1>3. CASE sig.type = "monitor"
  <2>1. sig.monitor \in Procs /\ sig.ref \in Refs
    BY <1>1, <1>3, Shapes
  <2>2. DownSig(l.to, sig.ref, "noproc") \in Signals
    BY <1>1, <2>1, Constructed
  <2> QED
    BY <2>1, <2>2, <1>3, LetterIs DEF DeadReply
<1> QED
  BY <1>2, <1>3 DEF Answered

-----------------------------------------------------------------------------
(* The actions and the types.                                              *)

\* Append, Head and Tail, and the update of the head.
LEMMA Queue ==
  ASSUME NEW S, NEW s \in Seq(S)
  PROVE  /\ \A x \in S : Append(s, x) \in Seq(S)
         /\ s # <<>> => Head(s) \in S /\ Tail(s) \in Seq(S) /\ Head(s) = s[1] /\ 1 \in DOMAIN s
         /\ s # <<>> => \A x \in S : [s EXCEPT ![1] = x] \in Seq(S)
  OBVIOUS

\* The sequences of letters a call leaves are of one or two.
LEMMA Pairs ==
  ASSUME NEW S
  PROVE  /\ <<>> \in Seq(S)
         /\ \A x \in S : <<x>> \in Seq(S)
         /\ \A x, y \in S : <<x, y>> \in Seq(S)
  OBVIOUS

\* The two goroutines of a process are its own.
LEMMA Sides ==
  ASSUME NEW p \in Procs, NEW q \in Procs
  PROVE  /\ Run(p) \in Goroutines /\ Rbl(p) \in Goroutines /\ Run(p) # Rbl(q)
         /\ Run(p) = Run(q) => p = q
         /\ Rbl(p) = Rbl(q) => p = q
  BY DEF Run, Rbl, Goroutines

\* What a Ref, and a parent, is.
LEMMA RefIs ==
  ASSUME TypeOK, NEW r \in DOMAIN monitor
  PROVE  /\ r \in Refs /\ Owner(r) \in Procs /\ Target(r) \in Procs /\ MonSig(r) \in Signals
         /\ monitor[r].owner \in Procs /\ monitor[r].target \in Procs
<1> DEFINE M == [owner : Procs, target : Procs, spawned : BOOLEAN]
<1>1. monitor \in Seq(M) /\ Len(monitor) <= MaxRefs
  BY DEF TypeOK
<1>2. monitor[r] \in M /\ r \in Refs
  <2> HIDE DEF M
  <2> QED
    BY <1>1, ProcessAssumption DEF Refs
<1>3. Owner(r) \in Procs /\ Target(r) \in Procs
  BY <1>2 DEF Owner, Target
<1> QED
  BY <1>2, <1>3, Constructed DEF MonSig

\* What a child knows of the one that spawned it.
LEMMA ParentIs ==
  ASSUME TypeOK, NEW p \in Procs
  PROVE  /\ parent[p].kind \in {"none", "link", "monitor"}
         /\ parent[p].kind # "none" => parent[p].pid \in Procs
         /\ parent[p].kind = "monitor" =>
              parent[p] = [kind |-> "monitor", pid |-> parent[p].pid, ref |-> parent[p].ref]
         /\ parent[p].kind = "link" => parent[p] = [kind |-> "link", pid |-> parent[p].pid]
<1>1. parent[p] \in Parents
  BY DEF TypeOK
<1> QED
  BY <1>1 DEF Parents, NoParent

\* The types, one lemma per action.
LEMMA CheckTypes ==
  ASSUME TypeOK, NEW g \in Goroutines, Check(g)
  PROVE  TypeOK'
<1> DEFINE l == Head(out[g])
<1>1. out[g] \in Seq(Letters) /\ out[g] # <<>>
  BY DEF TypeOK, Check, ToSend
<1>2. l \in Letters /\ Tail(out[g]) \in Seq(Letters)
  BY <1>1, Queue
<1>3. [l EXCEPT !.checked = TRUE] \in Letters
  BY <1>2 DEF Letters
<1>4. Answered(l) => DeadReply(l) \in Letters
  BY <1>2, Replies
<1>5. \A x \in Letters : [out[g] EXCEPT ![1] = x] \in Seq(Letters)
  BY <1>1, Queue
<1>6. out' \in [Goroutines -> Seq(Letters)]
  BY <1>1, <1>2, <1>3, <1>4, <1>5 DEF TypeOK, Check, SendsOn, SentOne
<1> QED
  BY <1>6 DEF TypeOK, Check, procVars, Past

\* What Deposit remembers.
LEMMA LossIsPast ==
  ASSUME TypeOK, NEW l \in Letters, NEW r \in SUBSET Refs
  PROVE  /\ [past EXCEPT !.lost = @ \cup Loss(l), !.silenced = @ \cup r] \in Past
         /\ [past EXCEPT !.lost = @ \cup {}, !.silenced = @ \cup r] \in Past
         /\ [past EXCEPT !.lost = @ \cup Loss(l)] \in Past
<1>1. past \in Past /\ l.to \in Procs /\ l.sig \in Signals
  BY DEF TypeOK, Letters
<1>2. past.lost \cup Loss(l) \in SUBSET [to : Procs, sig : [type : {"link"}, pid : Procs] \cup
                   [type : {"monitor"}, ref : Refs, monitor : Procs, monitored : Procs]]
  BY <1>1 DEF Past, Loss, Matters, Signals
<1> HIDE DEF Loss
<1> QED
  BY <1>1, <1>2 DEF Past

LEMMA DepositTypes ==
  ASSUME TypeOK, NEW g \in Goroutines, Deposit(g)
  PROVE  TypeOK'
<1> DEFINE l == Head(out[g])
<1>1. out[g] \in Seq(Letters) /\ out[g] # <<>>
  BY DEF TypeOK, Deposit
<1>2. l \in Letters /\ Tail(out[g]) \in Seq(Letters)
  BY <1>1, Queue
<1>3. l.to \in Procs /\ l.sig \in Signals
  BY <1>2 DEF Letters
<1>4. out' \in [Goroutines -> Seq(Letters)]
  BY <1>1, <1>2 DEF TypeOK, Deposit, SentOne
<1>5. receive' \in [Procs -> Seq(Signals)]
  <2>1. receive[l.to] \in Seq(Signals)
    BY <1>3 DEF TypeOK
  <2>2. Append(receive[l.to], l.sig) \in Seq(Signals)
    BY <2>1, <1>3, Queue
  <2>3. receive' = IF closed[l.to] THEN receive ELSE [receive EXCEPT ![l.to] = Append(@, l.sig)]
    BY DEF Deposit
  <2> QED
    BY <2>2, <2>3, <1>3 DEF TypeOK
<1>6. Silenced(l) \in SUBSET Refs
  BY <1>3, Shapes DEF Silenced
<1>7. past' \in Past
  <2>1. past' = [past EXCEPT !.lost = @ \cup (IF closed[l.to] THEN Loss(l) ELSE {}),
                             !.silenced = @ \cup Silenced(l)]
    BY DEF Deposit
  <2> HIDE DEF l
  <2> QED
    BY <2>1, <1>6, <1>2, LossIsPast
<1> QED
  BY <1>4, <1>5, <1>7 DEF TypeOK, Deposit, procVars

\* What every call has in common.
LEMMA CallTypes ==
  ASSUME TypeOK, NEW p \in Procs, NEW op, NEW ls \in Seq(Letters), Call(p, op, ls)
  PROVE  out' \in [Goroutines -> Seq(Letters)] /\ calls' \in 0 .. MaxCalls
<1>1. Rbl(p) \in Goroutines
  BY Sides
<1> QED
  BY <1>1, ProcessAssumption DEF TypeOK, Call

LEMMA CallLinkTypes ==
  ASSUME TypeOK, NEW p \in Procs, NEW q \in Procs, CallLink(p, q)
  PROVE  TypeOK'
<1>1. <<Letter(p, LinkSig(q)), Letter(q, LinkSig(p))>> \in Seq(Letters)
  BY LetterIs, Constructed, Pairs
<1>2. Call(p, "Link", <<Letter(p, LinkSig(q)), Letter(q, LinkSig(p))>>)
  BY DEF CallLink
<1> QED
  BY <1>1, <1>2, CallTypes DEF TypeOK, CallLink, procVars

LEMMA CallUnlinkTypes ==
  ASSUME TypeOK, NEW p \in Procs, NEW q \in Procs, CallUnlink(p, q)
  PROVE  TypeOK'
<1>1. <<Letter(p, UnlinkSig(q)), Letter(q, UnlinkSig(p))>> \in Seq(Letters)
  BY LetterIs, Constructed, Pairs
<1>2. Call(p, "Unlink", <<Letter(p, UnlinkSig(q)), Letter(q, UnlinkSig(p))>>)
  BY DEF CallUnlink
<1>3. past' \in Past
  <2>1. {p, q} \in SUBSET Procs
    OBVIOUS
  <2>2. past \in Past /\ past' = [past EXCEPT !.unlinked = @ \cup {{p, q}}]
    BY DEF TypeOK, CallUnlink
  <2>3. past.unlinked \in SUBSET SUBSET Procs
    BY <2>2 DEF Past
  <2>4. past.unlinked \cup {{p, q}} \in SUBSET SUBSET Procs
    BY <2>1, <2>3
  <2> QED
    BY <2>2, <2>4 DEF Past
<1> QED
  BY <1>1, <1>2, <1>3, CallTypes DEF TypeOK, CallUnlink, procVars

\* The Ref that Monitor and SpawnMonitor make: the next one, after all others.
LEMMA MonitorsTypes ==
  ASSUME TypeOK, NEW p \in Procs, NEW q \in Procs, NEW spawned \in BOOLEAN, Monitors(p, q, spawned)
  PROVE  /\ NextRef \in Refs /\ NextRef = Len(monitor) + 1 /\ Len(monitor) \in Nat
         /\ monitor' \in Seq([owner : Procs, target : Procs, spawned : BOOLEAN])
         /\ Len(monitor') = NextRef /\ Len(monitor') <= MaxRefs
         /\ monitor'[NextRef] = [owner |-> p, target |-> q, spawned |-> spawned]
         /\ monitor'[NextRef].owner = p /\ monitor'[NextRef].target = q
         /\ monitor'[NextRef].spawned = spawned
         /\ DOMAIN monitor' = DOMAIN monitor \cup {NextRef} /\ NextRef \notin DOMAIN monitor
         /\ \A r \in DOMAIN monitor : monitor'[r] = monitor[r]
<1> DEFINE m == [owner |-> p, target |-> q, spawned |-> spawned]
<1>1. monitor \in Seq([owner : Procs, target : Procs, spawned : BOOLEAN])
  BY DEF TypeOK
<1>2. m \in [owner : Procs, target : Procs, spawned : BOOLEAN]
  OBVIOUS
<1>3. monitor' = Append(monitor, m) /\ NextRef \in Refs
  BY DEF Monitors
<1> HIDE DEF m
<1> QED
  BY <1>1, <1>2, <1>3, ProcessAssumption DEF NextRef, Refs, m

LEMMA CallMonitorTypes ==
  ASSUME TypeOK, NEW p \in Procs, NEW q \in Procs, CallMonitor(p, q)
  PROVE  TypeOK'
<1> DEFINE sig == MonitorSig(NextRef, p, q)
<1>1. Monitors(p, q, FALSE) /\ Call(p, "Monitor", <<Letter(p, sig), Letter(q, sig)>>)
  BY DEF CallMonitor
<1>2. <<Letter(p, sig), Letter(q, sig)>> \in Seq(Letters)
  BY <1>1, MonitorsTypes, LetterIs, Constructed, Pairs
<1> QED
  BY <1>1, <1>2, CallTypes, MonitorsTypes DEF TypeOK, CallMonitor, procVars

LEMMA CallDemonitorTypes ==
  ASSUME TypeOK, NEW p \in Procs, NEW r \in DOMAIN monitor, CallDemonitor(p, r)
  PROVE  TypeOK'
<1>1. r \in Refs
  BY ProcessAssumption DEF TypeOK, Refs
<1>2. <<Letter(p, DemonitorSig(r, p))>> \in Seq(Letters)
  BY <1>1, LetterIs, Constructed, Pairs
<1>3. Call(p, "Demonitor", <<Letter(p, DemonitorSig(r, p))>>)
  BY DEF CallDemonitor
<1>4. past' \in Past
  BY <1>1 DEF TypeOK, CallDemonitor, Past
<1> QED
  BY <1>2, <1>3, <1>4, CallTypes DEF TypeOK, CallDemonitor, procVars

LEMMA CallSendTypes ==
  ASSUME TypeOK, NEW p \in Procs, NEW q \in Procs, CallSend(p, q)
  PROVE  TypeOK'
<1>1. <<Letter(q, MessageSig(p))>> \in Seq(Letters)
  BY LetterIs, Constructed, Pairs
<1>2. Call(p, "Send", <<Letter(q, MessageSig(p))>>)
  BY DEF CallSend
<1> QED
  BY <1>1, <1>2, CallTypes DEF TypeOK, CallSend, procVars

LEMMA CallExitTypes ==
  ASSUME TypeOK, NEW p \in Procs, NEW q \in Procs, NEW why \in Reasons, CallExit(p, q, why)
  PROVE  TypeOK'
<1>1. why \in ExitReasons /\ FALSE \in BOOLEAN
  BY DEF ExitReasons
<1>2. <<Letter(q, ExitSig(p, why, FALSE))>> \in Seq(Letters)
  BY <1>1, LetterIs, Constructed, Pairs
<1>3. Call(p, "Exit", <<Letter(q, ExitSig(p, why, FALSE))>>)
  BY DEF CallExit
<1>4. past' \in Past
  BY DEF TypeOK, CallExit, Past
<1> QED
  BY <1>2, <1>3, <1>4, CallTypes DEF TypeOK, CallExit, procVars

LEMMA CallTrapExitTypes ==
  ASSUME TypeOK, NEW p \in Procs, CallTrapExit(p)
  PROVE  TypeOK'
<1>1. Call(p, "TrapExit", <<>>)
  BY DEF CallTrapExit
<1>2. trap' \in [Procs -> BOOLEAN]
  BY DEF TypeOK, CallTrapExit
<1> QED
  BY <1>1, <1>2, Pairs, CallTypes DEF TypeOK, CallTrapExit, procVars

LEMMA CallSpawnTypes ==
  ASSUME TypeOK, NEW p \in Procs, NEW q \in Procs, NEW how \in Parents, CallSpawn(p, q, how),
         monitor' \in Seq([owner : Procs, target : Procs, spawned : BOOLEAN]),
         Len(monitor') <= MaxRefs
  PROVE  TypeOK'
<1>1. Call(p, "Spawn", <<>>)
  BY DEF CallSpawn
<1>2. out' \in [Goroutines -> Seq(Letters)] /\ calls' \in 0 .. MaxCalls
  BY <1>1, Pairs, CallTypes
<1> QED
  BY <1>2 DEF TypeOK, CallSpawn

LEMMA SpawnTypes ==
  ASSUME TypeOK, NEW p \in Procs, NEW q \in Procs,
         CallSpawnAlone(p, q) \/ CallSpawnLink(p, q) \/ CallSpawnMonitor(p, q)
  PROVE  TypeOK'
<1>1. CASE CallSpawnAlone(p, q)
  BY <1>1, CallSpawnTypes DEF TypeOK, CallSpawnAlone, Parents
<1>2. CASE CallSpawnLink(p, q)
  BY <1>2, CallSpawnTypes DEF TypeOK, CallSpawnLink, Parents
<1>3. CASE CallSpawnMonitor(p, q)
  <2>1. Monitors(p, q, TRUE) /\ CallSpawn(p, q, [kind |-> "monitor", pid |-> p, ref |-> NextRef])
    BY <1>3 DEF CallSpawnMonitor
  <2>2. TRUE \in BOOLEAN
    OBVIOUS
  <2>3. NextRef \in Refs
    BY <2>1, <2>2, MonitorsTypes
  <2>4. [kind |-> "monitor", pid |-> p, ref |-> NextRef] \in Parents
    BY <2>3 DEF Parents
  <2> QED
    BY <2>1, <2>2, <2>4, MonitorsTypes, CallSpawnTypes
<1> QED
  BY <1>1, <1>2, <1>3

LEMMA BootTypes ==
  ASSUME TypeOK, NEW p \in Procs, Boot(p)
  PROVE  TypeOK'
<1>1. parent[p] \in Parents
  BY DEF TypeOK
<1>2. BootLetters(p) \in Seq(Letters)
  <2>1. CASE parent[p].kind = "link"
    <3>1. parent[p].pid \in Procs
      BY <1>1, <2>1 DEF Parents, NoParent
    <3> QED
      BY <3>1, <2>1, LetterIs, Constructed, Pairs DEF BootLetters
  <2>2. CASE parent[p].kind = "monitor"
    <3>1. parent[p].pid \in Procs /\ parent[p].ref \in Refs
      BY <1>1, <2>2 DEF Parents, NoParent
    <3> QED
      BY <3>1, <2>2, LetterIs, Constructed, Pairs DEF BootLetters
  <2> QED
    BY <2>1, <2>2, Pairs DEF BootLetters
<1>3. Run(p) \in Goroutines
  BY Sides
<1>4. out' \in [Goroutines -> Seq(Letters)]
  BY <1>2, <1>3 DEF TypeOK, Boot
<1>5. links' \in [Procs -> SUBSET Procs]
  BY <1>1 DEF TypeOK, Boot, Parents, NoParent
<1>6. monitors' \in [Procs -> SUBSET Pid]
  BY <1>1 DEF TypeOK, Boot, Parents, NoParent, Pid
<1>7. pc' \in [Procs -> {"unborn", "boot", "start", "loop", "drain", "absorb", "notify", "await",
                         "stopped"}]
  BY DEF TypeOK, Boot
<1> QED
  BY <1>4, <1>5, <1>6, <1>7 DEF TypeOK, Boot

LEMMA LocalTypes ==
  ASSUME TypeOK, NEW p \in Procs
  PROVE  links[p] \in SUBSET Procs /\ monitors[p] \in SUBSET Pid /\ monitoring[p] \in SUBSET Pid
  BY DEF TypeOK

\* A Demonitor is passed on to one process at most: the one its Ref is of.
LEMMA PassedTypes ==
  ASSUME TypeOK, NEW p \in Procs, NEW sig \in Signals, sig.type = "demonitor"
  PROVE  /\ Passed(p, sig) \in Seq(Letters)
         /\ \/ Passed(p, sig) = <<>> /\ ~KnownRef(p, sig.ref)
            \/ \E e \in monitoring[p] : e.ref = sig.ref /\ Passed(p, sig) = <<Letter(e.pid, sig)>>
<1> DEFINE known == {e \in monitoring[p] : e.ref = sig.ref}
           e == CHOOSE e \in known : TRUE
<1>1. CASE known = {}
  BY <1>1, Pairs DEF Passed, KnownRef
<1>2. CASE known # {}
  <2>1. e \in known
    BY <1>2
  <2>2. e \in monitoring[p] /\ e.ref = sig.ref /\ e.pid \in Procs
    BY <2>1, LocalTypes DEF Pid
  <2>3. Passed(p, sig) = <<Letter(e.pid, sig)>>
    BY <1>2 DEF Passed
  <2> HIDE DEF e
  <2> QED
    BY <2>2, <2>3, LetterIs, Pairs
<1> QED
  BY <1>1, <1>2

\* What the handlers of link and monitor signals leave.
LEMMA AbsorbTypes ==
  ASSUME TypeOK, NEW p \in Procs, NEW sig \in Signals
  PROVE  /\ Absorb(p, sig).links \in SUBSET Procs
         /\ Absorb(p, sig).monitors \in SUBSET Pid
         /\ Absorb(p, sig).monitoring \in SUBSET Pid
         /\ Absorb(p, sig).sends \in Seq(Letters)
<1>1. CASE sig.type = "link"
  BY ZenonT(40), <1>1, Shapes, LocalTypes, Pairs DEF Absorb, AfterLink, Local
<1>2. CASE sig.type = "unlink"
  BY <1>2, Shapes, LocalTypes, Pairs DEF Absorb, AfterUnlink, Local
<1>3. CASE sig.type = "monitor"
  <2>1. [ref |-> sig.ref, pid |-> sig.monitored] \in Pid /\ [pid |-> sig.monitor, ref |-> sig.ref] \in Pid
    BY <1>3, Shapes DEF Pid
  <2> QED
    BY <2>1, <1>3, LocalTypes, Pairs DEF Absorb, AfterMonitor, Local
<1>4. CASE sig.type = "demonitor"
  <2>1. Passed(p, sig) \in Seq(Letters)
    BY <1>4, PassedTypes
  <2> QED
    BY <2>1, <1>4, LocalTypes, Pairs DEF Absorb, AfterDemonitor, Local
<1>5. CASE sig.type \notin Bookkeeping
  BY <1>5, LocalTypes, Pairs DEF Absorb, Local, Bookkeeping
<1> QED
  BY <1>1, <1>2, <1>3, <1>4, <1>5 DEF Bookkeeping

LEMMA AbsorbsTypes ==
  ASSUME TypeOK, NEW p \in Procs, NEW sig \in Signals, Absorbs(p, sig)
  PROVE  /\ links' \in [Procs -> SUBSET Procs]
         /\ {monitors', monitoring'} \subseteq [Procs -> SUBSET Pid]
         /\ out' \in [Goroutines -> Seq(Letters)]
  BY AbsorbTypes, Sides DEF TypeOK, Absorbs

LEMMA ReceiveTypes ==
  ASSUME TypeOK, NEW p \in Procs, receive[p] # <<>>
  PROVE  /\ receive[p] \in Seq(Signals) /\ mailbox[p] \in Seq(Signals)
         /\ Head(receive[p]) \in Signals
         /\ [receive EXCEPT ![p] = Tail(@)] \in [Procs -> Seq(Signals)]
         /\ [mailbox EXCEPT ![p] = Append(@, Head(receive[p]))] \in [Procs -> Seq(Signals)]
<1>1. receive[p] \in Seq(Signals) /\ mailbox[p] \in Seq(Signals)
  BY DEF TypeOK
<1>2. Head(receive[p]) \in Signals /\ Tail(receive[p]) \in Seq(Signals)
  BY <1>1, Queue
<1>3. Append(mailbox[p], Head(receive[p])) \in Seq(Signals)
  BY <1>1, <1>2, Queue
<1> QED
  BY <1>1, <1>2, <1>3 DEF TypeOK

LEMMA OnSignalTypes ==
  ASSUME TypeOK, NEW p \in Procs, OnSignal(p)
  PROVE  TypeOK'
<1> DEFINE sig == Head(receive[p])
<1>1. receive[p] # <<>> /\ sig \in Signals
  BY ReceiveTypes DEF OnSignal
<1>2. Receive(p, sig) => receive' \in [Procs -> Seq(Signals)]
  BY <1>1, ReceiveTypes DEF Receive
<1>3. sig.type = "exit" => Told(p, sig) \in Past /\ sig.reason \in ExitReasons
  <2> SUFFICES ASSUME sig.type = "exit" PROVE Told(p, sig) \in Past /\ sig.reason \in ExitReasons
    OBVIOUS
  <2>1. sig.sender \in Procs /\ sig.reason \in ExitReasons
    BY <1>1, Shapes
  <2>2. past \in Past
    BY DEF TypeOK
  <2> HIDE DEF sig
  <2> QED
    BY <2>1, <2>2 DEF Told, Past
<1>4. CASE OnBookkeeping(p, sig)
  BY <1>1, <1>2, <1>4, AbsorbsTypes DEF TypeOK, OnBookkeeping
<1>5. CASE OnMessage(p, sig)
  BY <1>1, <1>2, <1>5, ReceiveTypes DEF TypeOK, OnMessage, procVars
<1>6. CASE OnDown(p, sig)
  BY <1>1, <1>2, <1>6, ReceiveTypes DEF TypeOK, OnDown, procVars
<1>7. CASE OnExitSurvived(p, sig)
  BY <1>1, <1>2, <1>3, <1>7, ReceiveTypes DEF TypeOK, OnExitSurvived, procVars
<1>8. CASE OnExitFatal(p, sig)
  BY <1>1, <1>2, <1>3, <1>8 DEF TypeOK, OnExitFatal, BeginExit, NowExiting
<1> QED
  BY <1>4, <1>5, <1>6, <1>7, <1>8 DEF OnSignal

LEMMA DrainTypes ==
  ASSUME TypeOK, NEW p \in Procs, Drain(p)
  PROVE  TypeOK'
<1>1. receive' \in [Procs -> Seq(Signals)]
  BY ReceiveTypes DEF TypeOK, Drain
<1>2. past' \in Past
  <2>1. CASE UNCHANGED past
    BY <2>1 DEF TypeOK
  <2>2. CASE receive[p] # <<>> /\ past' = [past EXCEPT !.lost = @ \cup Loss(Letter(p, Head(receive[p])))]
    BY <2>2, ReceiveTypes, LetterIs, LossIsPast
  <2> QED
    BY <2>1, <2>2 DEF Drain
<1> QED
  BY <1>1, <1>2 DEF TypeOK, Drain

LEMMA DrainNextTypes ==
  ASSUME TypeOK, NEW p \in Procs, DrainNext(p)
  PROVE  TypeOK'
<1>1. receive' \in [Procs -> Seq(Signals)] /\ Head(receive[p]) \in Signals
  BY ReceiveTypes DEF TypeOK, DrainNext
<1> QED
  BY <1>1, AbsorbsTypes DEF TypeOK, DrainNext

LEMMA NotifyTypes ==
  ASSUME TypeOK, Control, NEW p \in Procs, Notify(p)
  PROVE  TypeOK'
<1>1. pc[p] = "notify" /\ reason[p] \in ExitReasons
  BY DEF TypeOK, Notify, Control, Gone
<1>2. Run(p) \in Goroutines
  BY Sides
<1>3. ASSUME NEW q \in links[p], NotifyLink(p, q)
      PROVE  TypeOK'
  <2>1. q \in Procs /\ TRUE \in BOOLEAN
    BY <1>3, LocalTypes
  <2>2. <<Letter(q, ExitSig(p, reason[p], TRUE))>> \in Seq(Letters)
    BY <1>1, <2>1, LetterIs, Constructed, Pairs
  <2>3. out' \in [Goroutines -> Seq(Letters)]
    BY <2>2, <1>2, <1>3 DEF TypeOK, NotifyLink
  <2> QED
    BY <2>3, <1>3 DEF TypeOK, Notify, NotifyLink
<1>4. ASSUME NEW m \in monitors[p], NotifyMonitor(p, m)
      PROVE  TypeOK'
  <2>1. m.pid \in Procs /\ m.ref \in Refs
    BY <1>4, LocalTypes DEF Pid
  <2>2. <<Letter(m.pid, DownSig(p, m.ref, reason[p]))>> \in Seq(Letters)
    BY <1>1, <2>1, LetterIs, Constructed, Pairs
  <2>3. out' \in [Goroutines -> Seq(Letters)]
    BY <2>2, <1>2, <1>4 DEF TypeOK, NotifyMonitor
  <2> QED
    BY <2>3, <1>4 DEF TypeOK, Notify, NotifyMonitor
<1>5. ASSUME NEW e \in monitoring[p], NotifyMonitored(p, e)
      PROVE  TypeOK'
  <2>1. e.pid \in Procs /\ e.ref \in Refs
    BY <1>5, LocalTypes DEF Pid
  <2>2. <<Letter(e.pid, DemonitorSig(e.ref, p))>> \in Seq(Letters)
    BY <2>1, LetterIs, Constructed, Pairs
  <2>3. out' \in [Goroutines -> Seq(Letters)]
    BY <2>2, <1>2, <1>5 DEF TypeOK, NotifyMonitored
  <2> QED
    BY <2>3, <1>5 DEF TypeOK, Notify, NotifyMonitored
<1> QED
  BY <1>3, <1>4, <1>5 DEF Notify

LEMMA OtherTypes ==
  ASSUME TypeOK, NEW p \in Procs,
         \/ Start(p) \/ OnDone(p) \/ DrainDone(p) \/ CloseMailbox(p) \/ EndExit(p) \/ Panic(p)
         \/ \E why \in Reasons : Return(p, why)
  PROVE  TypeOK'
<1>1. CASE Start(p)
  BY <1>1 DEF TypeOK, Start
<1>2. CASE OnDone(p)
  <2>1. past' \in Past
    BY <1>2 DEF TypeOK, OnDone, Past
  <2> QED
    BY <2>1, <1>2 DEF TypeOK, OnDone, BeginExit, NowExiting
<1>3. CASE DrainDone(p)
  BY <1>3 DEF TypeOK, DrainDone
<1>4. CASE CloseMailbox(p)
  BY <1>4 DEF TypeOK, CloseMailbox
<1>5. CASE EndExit(p)
  <2>1. mailbox' \in [Procs -> Seq(Signals)]
    BY <1>5, Pairs DEF TypeOK, EndExit
  <2> QED
    BY <2>1, <1>5 DEF TypeOK, EndExit
<1>6. CASE Panic(p)
  BY <1>6 DEF TypeOK, Panic, procVars, ExitReasons
<1>7. CASE \E why \in Reasons : Return(p, why)
  BY <1>7 DEF TypeOK, Return, procVars, ExitReasons
<1> QED
  BY <1>1, <1>2, <1>3, <1>4, <1>5, <1>6, <1>7

\* What a step is: one action after the other.
LEMMA Steps ==
  ASSUME Next
  PROVE  \/ \E g \in Goroutines : Check(g) \/ Deposit(g)
         \/ \E p \in Procs :
              \/ \E q \in Procs \ {p} :
                   \/ CallLink(p, q) \/ CallUnlink(p, q) \/ CallMonitor(p, q) \/ CallSend(p, q)
                   \/ CallSpawnAlone(p, q) \/ CallSpawnLink(p, q) \/ CallSpawnMonitor(p, q)
              \/ \E q \in Procs, why \in Reasons : CallExit(p, q, why)
              \/ \E r \in DOMAIN monitor : CallDemonitor(p, r)
              \/ CallTrapExit(p)
              \/ Boot(p) \/ Start(p) \/ OnSignal(p) \/ OnDone(p)
              \/ Drain(p) \/ DrainNext(p) \/ DrainDone(p) \/ Notify(p) \/ CloseMailbox(p)
              \/ EndExit(p) \/ Panic(p)
              \/ \E why \in Reasons : Return(p, why)
  BY DEF Next, ApiCall, RunStep

\* All of them.
LEMMA StepTypes ==
  ASSUME TypeOK, Control, Next
  PROVE  TypeOK'
<1>1. CASE \E g \in Goroutines : Check(g) \/ Deposit(g)
  BY <1>1, CheckTypes, DepositTypes
<1>2. ASSUME NEW p \in Procs, NEW q \in Procs \ {p},
             \/ CallLink(p, q) \/ CallUnlink(p, q) \/ CallMonitor(p, q) \/ CallSend(p, q)
             \/ CallSpawnAlone(p, q) \/ CallSpawnLink(p, q) \/ CallSpawnMonitor(p, q)
      PROVE  TypeOK'
  BY <1>2, CallLinkTypes, CallUnlinkTypes, CallMonitorTypes, CallSendTypes, SpawnTypes
<1>3. ASSUME NEW p \in Procs,
             \/ \E q \in Procs, why \in Reasons : CallExit(p, q, why)
             \/ \E r \in DOMAIN monitor : CallDemonitor(p, r)
             \/ CallTrapExit(p)
      PROVE  TypeOK'
  BY <1>3, CallExitTypes, CallDemonitorTypes, CallTrapExitTypes
<1>4. ASSUME NEW p \in Procs,
             \/ Boot(p) \/ Start(p) \/ OnSignal(p) \/ OnDone(p)
             \/ Drain(p) \/ DrainNext(p) \/ DrainDone(p) \/ Notify(p) \/ CloseMailbox(p)
             \/ EndExit(p) \/ Panic(p)
             \/ \E why \in Reasons : Return(p, why)
      PROVE  TypeOK'
  BY <1>4, BootTypes, OnSignalTypes, DrainTypes, DrainNextTypes, NotifyTypes, OtherTypes
<1> QED
  BY <1>1, <1>2, <1>3, <1>4, Steps

LEMMA StutterTypes ==
  ASSUME TypeOK, UNCHANGED vars
  PROVE  TypeOK'
  BY DEF TypeOK, vars

-----------------------------------------------------------------------------
(* Control.                                                                *)

\* Who may step: the goroutine that has something to send is one that sends.
LEMMA Senders ==
  ASSUME TypeOK, Control, NEW g \in Goroutines, out[g] # <<>>
  PROVE  \E p \in Procs : \/ g = Run(p) /\ pc[p] \in {"start", "loop", "absorb", "notify"}
                          \/ g = Rbl(p) /\ rbl[p] = "active"
<1>1. PICK p \in Procs : g = Run(p) \/ g = Rbl(p)
  BY DEF Goroutines, Run, Rbl
<1>2. pc[p] \in {"unborn", "boot", "start", "loop", "drain", "absorb", "notify", "await", "stopped"}
  BY DEF TypeOK
<1> QED
  BY <1>1, <1>2 DEF Control

\* Control, for the actions that move signals ...
LEMMA TransportControl ==
  ASSUME TypeOK, Control, NEW g \in Goroutines, Check(g) \/ Deposit(g)
  PROVE  Control'
<1>1. PICK p \in Procs : \/ g = Run(p) /\ pc[p] \in {"start", "loop", "absorb", "notify"}
                         \/ g = Rbl(p) /\ rbl[p] = "active"
  BY Senders DEF Check, ToSend, Deposit
<1>2. \A h \in Goroutines \ {g} : out'[h] = out[h]
  BY DEF TypeOK, Check, Deposit, SendsOn, SentOne
<1>3. \A q \in Procs : closed[q] => receive'[q] = receive[q]
  BY DEF TypeOK, Check, Deposit
<1>4. UNCHANGED <<status, closed, procVars, rbl, reason>>
  BY DEF Check, Deposit
<1>5. \A q \in Procs : Run(q) \in Goroutines /\ Rbl(q) \in Goroutines
  BY Sides
<1>6. ASSUME NEW q \in Procs
      PROVE  /\ rbl[q] # "active" => out'[Rbl(q)] = <<>>
             /\ pc[q] \in {"unborn", "boot", "drain", "await", "stopped"} => out'[Run(q)] = <<>>
  BY <1>1, <1>2, <1>5, Sides DEF Control
<1> QED
  BY <1>3, <1>4, <1>6 DEF Control, Gone, procVars

\* ... for the calls ...
LEMMA CallControl ==
  ASSUME TypeOK, Control, NEW p \in Procs, NEW op, NEW ls, Call(p, op, ls),
         UNCHANGED <<status, receive, closed, procVars, rbl, reason>>
  PROVE  Control'
<1>1. rbl[p] = "active" /\ \A h \in Goroutines \ {Rbl(p)} : out'[h] = out[h]
  BY DEF TypeOK, Call
<1>2. ASSUME NEW q \in Procs
      PROVE  out'[Run(q)] = out[Run(q)] /\ (rbl[q] # "active" => out'[Rbl(q)] = out[Rbl(q)])
  BY <1>1, Sides
<1> QED
  BY <1>2 DEF Control, Gone, procVars

LEMMA CallsControl ==
  ASSUME TypeOK, Control, NEW p \in Procs, NEW q \in Procs, NEW r, NEW why,
         \/ CallLink(p, q) \/ CallUnlink(p, q) \/ CallMonitor(p, q) \/ CallSend(p, q)
         \/ CallExit(p, q, why) \/ CallDemonitor(p, r) \/ CallTrapExit(p)
  PROVE  Control'
  BY CallControl DEF CallLink, CallUnlink, CallMonitor, CallSend, CallExit, CallDemonitor, CallTrapExit

LEMMA CallSpawnControl ==
  ASSUME TypeOK, Control, NEW p \in Procs, NEW q \in Procs, NEW how, CallSpawn(p, q, how)
  PROVE  Control'
<1>1. rbl[p] = "active" /\ out[Rbl(p)] = <<>> /\ Rbl(p) \in Goroutines
  BY Sides DEF CallSpawn, Call
<1>2. out' = out
  BY <1>1 DEF TypeOK, CallSpawn, Call
<1>3. status[q] = "unborn" /\ pc[q] = "unborn"
  BY DEF CallSpawn, Known, Control
<1> QED
  BY <1>1, <1>2, <1>3 DEF TypeOK, Control, Gone, CallSpawn

LEMMA SpawnControl ==
  ASSUME TypeOK, Control, NEW p \in Procs, NEW q \in Procs,
         CallSpawnAlone(p, q) \/ CallSpawnLink(p, q) \/ CallSpawnMonitor(p, q)
  PROVE  Control'
  BY CallSpawnControl DEF CallSpawnAlone, CallSpawnLink, CallSpawnMonitor

\* ... for the child that boots ...
LEMMA BootControl ==
  ASSUME TypeOK, Control, NEW p \in Procs, Boot(p)
  PROVE  Control'
<1>1. ASSUME NEW q \in Procs
      PROVE  out'[Rbl(q)] = out[Rbl(q)] /\ (q # p => out'[Run(q)] = out[Run(q)])
  BY Sides DEF TypeOK, Boot
<1> QED
  BY <1>1 DEF TypeOK, Control, Gone, Boot

LEMMA StartControl ==
  ASSUME TypeOK, Control, NEW p \in Procs, Start(p)
  PROVE  Control'
  BY DEF TypeOK, Control, Gone, Start

\* ... and for run and exit.
LEMMA AbsorbsControl ==
  ASSUME TypeOK, Control, NEW p \in Procs, NEW sig, Absorbs(p, sig), pc[p] \in {"loop", "absorb"},
         UNCHANGED <<status, closed, pc, rbl, reason>>, receive[p] # <<>>,
         receive' = [receive EXCEPT ![p] = Tail(@)]
  PROVE  Control'
<1>1. ASSUME NEW q \in Procs
      PROVE  out'[Rbl(q)] = out[Rbl(q)] /\ (q # p => out'[Run(q)] = out[Run(q)])
  BY Sides DEF TypeOK, Absorbs
<1>2. ASSUME NEW q \in Procs, q # p
      PROVE  /\ receive'[q] = receive[q] /\ links'[q] = links[q] /\ monitors'[q] = monitors[q]
             /\ monitoring'[q] = monitoring[q]
  BY <1>2 DEF TypeOK, Absorbs
<1> QED
  BY <1>1, <1>2 DEF Control, Gone

LEMMA OnSignalControl ==
  ASSUME TypeOK, Control, NEW p \in Procs, OnSignal(p)
  PROVE  Control'
<1> DEFINE sig == Head(receive[p])
<1>1. receive[p] # <<>> /\ sig \in Signals
  BY ReceiveTypes DEF OnSignal
<1>2. CASE OnBookkeeping(p, sig)
  BY <1>1, <1>2, AbsorbsControl DEF OnBookkeeping, Receive
<1>3. CASE OnMessage(p, sig) \/ OnDown(p, sig) \/ OnExitSurvived(p, sig)
  <2>1. /\ pc[p] = "loop" /\ receive' = [receive EXCEPT ![p] = Tail(@)]
        /\ UNCHANGED <<status, closed, procVars, rbl, reason, out>>
    BY <1>3 DEF OnMessage, OnDown, OnExitSurvived, Receive
  <2>2. \A q \in Procs : pc[q] # "loop" => receive'[q] = receive[q]
    BY <2>1 DEF TypeOK
  <2> QED
    BY <2>1, <2>2 DEF Control, Gone, procVars
<1>4. CASE OnExitFatal(p, sig)
  <2>1. sig.reason # "none"
    BY <1>1, <1>4, Shapes, ProcessAssumption DEF OnExitFatal, ExitReasons
  <2>2. /\ pc[p] = "loop" /\ receive' = [receive EXCEPT ![p] = Tail(@)] /\ out[Run(p)] = <<>>
        /\ status' = [status EXCEPT ![p] = "EXITING"] /\ pc' = [pc EXCEPT ![p] = "drain"]
        /\ reason' = [reason EXCEPT ![p] = sig.reason]
        /\ UNCHANGED <<closed, links, monitors, monitoring, rbl, out>>
    BY <1>4 DEF OnExitFatal, BeginExit, NowExiting, Receive
  <2> HIDE DEF sig
  <2> QED
    BY <2>1, <2>2 DEF TypeOK, Control, Gone
<1> QED
  BY <1>2, <1>3, <1>4 DEF OnSignal

LEMMA OnDoneControl ==
  ASSUME TypeOK, Control, NEW p \in Procs, OnDone(p)
  PROVE  Control'
  BY DEF TypeOK, Control, Gone, OnDone, BeginExit, NowExiting

LEMMA DrainControl ==
  ASSUME TypeOK, Control, NEW p \in Procs, Drain(p)
  PROVE  Control'
<1>1. \A q \in Procs : q # p => receive'[q] = receive[q]
  BY DEF TypeOK, Drain
<1> QED
  BY <1>1 DEF TypeOK, Control, Gone, Drain

LEMMA ExitControl ==
  ASSUME TypeOK, Control, NEW p \in Procs,
         DrainNext(p) \/ DrainDone(p) \/ Notify(p) \/ CloseMailbox(p) \/ EndExit(p)
  PROVE  Control'
<1>1. CASE DrainNext(p)
  BY <1>1, AbsorbsControl DEF DrainNext
<1>2. CASE DrainDone(p)
  BY <1>2 DEF TypeOK, Control, Gone, DrainDone
<1>3. CASE Notify(p)
  <2>1. ASSUME NEW q \in Procs
        PROVE  out'[Rbl(q)] = out[Rbl(q)] /\ (q # p => out'[Run(q)] = out[Run(q)])
    BY ZenonT(40), <1>3, Sides DEF TypeOK, Notify, NotifyLink, NotifyMonitor, NotifyMonitored
  <2>2. ASSUME NEW q \in Procs, q # p
        PROVE  links'[q] = links[q] /\ monitors'[q] = monitors[q] /\ monitoring'[q] = monitoring[q]
    BY <1>3, <2>2 DEF TypeOK, Notify, NotifyLink, NotifyMonitor, NotifyMonitored
  <2> QED
    BY <1>3, <2>1, <2>2 DEF Control, Gone, Notify
<1>4. CASE CloseMailbox(p)
  BY <1>4 DEF TypeOK, Control, Gone, CloseMailbox, Notified
<1>5. CASE EndExit(p)
  BY <1>5, Sides DEF TypeOK, Control, Gone, EndExit, DoneReady
<1> QED
  BY <1>1, <1>2, <1>3, <1>4, <1>5

LEMMA ReturnControl ==
  ASSUME TypeOK, Control, NEW p \in Procs, Panic(p) \/ \E why \in Reasons : Return(p, why)
  PROVE  Control'
<1>1. "none" \notin Reasons
  BY ProcessAssumption
<1> QED
  BY <1>1 DEF TypeOK, Control, Gone, Panic, Return, procVars

LEMMA StepControl ==
  ASSUME TypeOK, Control, Next
  PROVE  Control'
<1>1. ASSUME NEW p \in Procs, NEW q \in Procs \ {p},
             \/ CallLink(p, q) \/ CallUnlink(p, q) \/ CallMonitor(p, q) \/ CallSend(p, q)
             \/ CallSpawnAlone(p, q) \/ CallSpawnLink(p, q) \/ CallSpawnMonitor(p, q)
      PROVE  Control'
  BY <1>1, CallsControl, SpawnControl
<1>2. ASSUME NEW p \in Procs,
             \/ \E q \in Procs, why \in Reasons : CallExit(p, q, why)
             \/ \E r \in DOMAIN monitor : CallDemonitor(p, r)
             \/ CallTrapExit(p)
      PROVE  Control'
  BY <1>2, CallsControl
<1>3. ASSUME NEW p \in Procs,
             \/ Boot(p) \/ Start(p) \/ OnSignal(p) \/ OnDone(p)
             \/ Drain(p) \/ DrainNext(p) \/ DrainDone(p) \/ Notify(p) \/ CloseMailbox(p)
             \/ EndExit(p) \/ Panic(p)
             \/ \E why \in Reasons : Return(p, why)
      PROVE  Control'
  BY <1>3, BootControl, StartControl, OnSignalControl, OnDoneControl, DrainControl, ExitControl,
     ReturnControl
<1> QED
  BY <1>1, <1>2, <1>3, TransportControl, Steps

LEMMA StutterControl ==
  ASSUME Control, UNCHANGED vars
  PROVE  Control'
  BY DEF Control, Gone, vars, procVars

-----------------------------------------------------------------------------
(* What no step takes back.                                                *)

Onward ==
  /\ DOMAIN monitor \subseteq DOMAIN monitor' /\ \A r \in DOMAIN monitor : monitor'[r] = monitor[r]
  /\ \A p \in Procs : Known(p) => Known(p)' /\ parent'[p] = parent[p]
  /\ \A p \in Procs : Gone(p) => Gone(p)' /\ reason'[p] = reason[p]
  /\ \A p \in Procs : closed[p] => closed'[p]
  /\ past.lost \subseteq past'.lost /\ past.demonitored \subseteq past'.demonitored
  /\ past.silenced \subseteq past'.silenced /\ past.unlinked \subseteq past'.unlinked
  /\ past.told \subseteq past'.told /\ past.returned \subseteq past'.returned
  /\ past.killed \subseteq past'.killed

\* A step of the inboxes, of a caller, of run: none takes back what Onward names.
LEMMA TransportOnward ==
  ASSUME TypeOK, NEW g \in Goroutines, Check(g) \/ Deposit(g)
  PROVE  Onward
<1>1. UNCHANGED <<status, closed, parent, reason, monitor>>
  BY DEF Check, Deposit, procVars
<1>2. /\ past.lost \subseteq past'.lost /\ past.demonitored \subseteq past'.demonitored
      /\ past.silenced \subseteq past'.silenced /\ past.unlinked \subseteq past'.unlinked
      /\ past.told \subseteq past'.told /\ past.returned \subseteq past'.returned
      /\ past.killed \subseteq past'.killed
  <2>1. past \in Past
    BY DEF TypeOK
  <2>2. CASE Check(g)
    BY <2>2 DEF Check
  <2>3. CASE Deposit(g)
    <3>1. \E x, y : past' = [past EXCEPT !.lost = @ \cup x, !.silenced = @ \cup y]
      BY <2>3 DEF Deposit
    <3> QED
      BY <2>1, <3>1 DEF Past
  <2> QED
    BY <2>2, <2>3
<1> QED
  BY <1>1, <1>2 DEF Onward, Known, Gone

LEMMA CallsOnward ==
  ASSUME TypeOK, NEW p \in Procs, NEW q \in Procs, NEW r, NEW why,
         \/ CallLink(p, q) \/ CallUnlink(p, q) \/ CallMonitor(p, q) \/ CallSend(p, q)
         \/ CallExit(p, q, why) \/ CallDemonitor(p, r) \/ CallTrapExit(p)
  PROVE  Onward
<1>1. UNCHANGED <<status, closed, parent, reason>>
  BY DEF CallLink, CallUnlink, CallMonitor, CallSend, CallExit, CallDemonitor, CallTrapExit, procVars
<1>2. /\ past.lost \subseteq past'.lost /\ past.demonitored \subseteq past'.demonitored
      /\ past.silenced \subseteq past'.silenced /\ past.unlinked \subseteq past'.unlinked
      /\ past.told \subseteq past'.told /\ past.returned \subseteq past'.returned
      /\ past.killed \subseteq past'.killed
  <2>1. /\ past \in Past
        /\ \/ past' = past
           \/ \E x : past' = [past EXCEPT !.unlinked = @ \cup x]
           \/ \E x : past' = [past EXCEPT !.demonitored = @ \cup x]
           \/ \E x : past' = [past EXCEPT !.killed = @ \cup x]
    BY DEF TypeOK, CallLink, CallUnlink, CallMonitor, CallSend, CallExit, CallDemonitor, CallTrapExit
  <2> QED
    BY <2>1 DEF Past
<1>3. DOMAIN monitor \subseteq DOMAIN monitor' /\ \A s \in DOMAIN monitor : monitor'[s] = monitor[s]
  <2>1. CASE CallMonitor(p, q)
    BY <2>1, MonitorsTypes DEF CallMonitor
  <2> QED
    BY <2>1 DEF CallLink, CallUnlink, CallSend, CallExit, CallDemonitor, CallTrapExit
<1> QED
  BY <1>1, <1>2, <1>3 DEF Onward, Known, Gone

LEMMA SpawnOnward ==
  ASSUME TypeOK, NEW p \in Procs, NEW q \in Procs,
         CallSpawnAlone(p, q) \/ CallSpawnLink(p, q) \/ CallSpawnMonitor(p, q)
  PROVE  Onward
<1>1. PICK how : CallSpawn(p, q, how)
  BY DEF CallSpawnAlone, CallSpawnLink, CallSpawnMonitor
<1>2. DOMAIN monitor \subseteq DOMAIN monitor' /\ \A s \in DOMAIN monitor : monitor'[s] = monitor[s]
  <2>1. CASE CallSpawnMonitor(p, q)
    BY <2>1, MonitorsTypes DEF CallSpawnMonitor
  <2> QED
    BY <2>1 DEF CallSpawnAlone, CallSpawnLink
<1>3. ASSUME NEW x \in Procs
      PROVE  /\ Known(x) => Known(x)' /\ parent'[x] = parent[x]
             /\ Gone(x) => Gone(x)'
  BY <1>1 DEF TypeOK, CallSpawn, Known, Gone
<1> QED
  BY <1>1, <1>2, <1>3 DEF Onward, CallSpawn

LEMMA RunOnward ==
  ASSUME TypeOK, Control, NEW p \in Procs,
         \/ Boot(p) \/ Start(p) \/ OnSignal(p) \/ OnDone(p)
         \/ Drain(p) \/ DrainNext(p) \/ DrainDone(p) \/ Notify(p) \/ CloseMailbox(p)
         \/ EndExit(p) \/ Panic(p)
         \/ \E why \in Reasons : Return(p, why)
  PROVE  Onward
<1> USE DEF Onward, Known, Gone
<1>1. CASE Boot(p) \/ Start(p) \/ DrainDone(p) \/ CloseMailbox(p) \/ DrainNext(p) \/ Notify(p)
  BY <1>1 DEF Boot, Start, DrainDone, CloseMailbox, DrainNext, Notify
<1>2. CASE OnSignal(p)
  <2> DEFINE sig == Head(receive[p])
  <2>1. CASE OnBookkeeping(p, sig) \/ OnMessage(p, sig) \/ OnDown(p, sig)
    BY <2>1 DEF OnBookkeeping, OnMessage, OnDown, procVars
  <2>2. CASE OnExitSurvived(p, sig)
    BY <2>2 DEF TypeOK, Past, OnExitSurvived, procVars, Told
  <2>3. CASE OnExitFatal(p, sig)
    <3>1. status[p] = "RUNNING"
      BY <2>3 DEF OnExitFatal, Receive, Control
    <3> QED
      BY <3>1, <2>3 DEF TypeOK, Past, OnExitFatal, Told, BeginExit, NowExiting
  <2> QED
    BY <1>2, <2>1, <2>2, <2>3 DEF OnSignal
<1>3. CASE OnDone(p)
  <2>1. status[p] = "RUNNING"
    BY <1>3 DEF OnDone, Control
  <2> QED
    BY <2>1, <1>3 DEF TypeOK, Past, OnDone, BeginExit, NowExiting
<1>4. CASE Drain(p)
  <2>1. past \in Past
    BY DEF TypeOK
  <2>2. past' = past \/ \E x : past' = [past EXCEPT !.lost = @ \cup x]
    BY <1>4 DEF Drain
  <2>3. /\ past.lost \subseteq past'.lost /\ past.demonitored \subseteq past'.demonitored
        /\ past.silenced \subseteq past'.silenced /\ past.unlinked \subseteq past'.unlinked
        /\ past.told \subseteq past'.told /\ past.returned \subseteq past'.returned
        /\ past.killed \subseteq past'.killed
    BY <2>1, <2>2 DEF Past
  <2>4. \A q \in Procs : closed[q] => closed'[q]
    BY <1>4 DEF TypeOK, Drain
  <2> QED
    BY <1>4, <2>3, <2>4 DEF Drain
<1>5. CASE EndExit(p)
  BY <1>5 DEF TypeOK, EndExit
<1>6. CASE Panic(p) \/ \E why \in Reasons : Return(p, why)
  <2>1. pc[p] = "loop" => status[p] = "RUNNING"
    BY DEF Control
  <2> QED
    BY <2>1, <1>6 DEF TypeOK, Panic, Return, procVars
<1> QED
  BY <1>1, <1>2, <1>3, <1>4, <1>5, <1>6

LEMMA StepOnward ==
  ASSUME TypeOK, Control, Next
  PROVE  Onward
<1>1. ASSUME NEW p \in Procs, NEW q \in Procs \ {p},
             \/ CallLink(p, q) \/ CallUnlink(p, q) \/ CallMonitor(p, q) \/ CallSend(p, q)
             \/ CallSpawnAlone(p, q) \/ CallSpawnLink(p, q) \/ CallSpawnMonitor(p, q)
      PROVE  Onward
  BY <1>1, CallsOnward, SpawnOnward
<1>2. ASSUME NEW p \in Procs,
             \/ \E q \in Procs, why \in Reasons : CallExit(p, q, why)
             \/ \E r \in DOMAIN monitor : CallDemonitor(p, r)
             \/ CallTrapExit(p)
      PROVE  Onward
  BY <1>2, CallsOnward
<1> QED
  BY <1>1, <1>2, TransportOnward, RunOnward, Steps

-----------------------------------------------------------------------------
(* Letters.                                                                *)

\* One letter fewer ...
LEMMA OneSent ==
  ASSUME TypeOK, NEW g \in Goroutines, out[g] # <<>>, SentOne(g)
  PROVE  /\ Len(out'[g]) = Len(out[g]) - 1 /\ DOMAIN out'[g] = 1 .. Len(out'[g])
         /\ DOMAIN out[g] = 1 .. Len(out[g]) /\ Head(out[g]) = out[g][1]
         /\ \A i \in DOMAIN out'[g] : i + 1 \in DOMAIN out[g] /\ out'[g][i] = out[g][i + 1]
         /\ \A i \in DOMAIN out[g] : i # 1 => i - 1 \in DOMAIN out'[g] /\ out'[g][i - 1] = out[g][i]
         /\ \A h \in Goroutines : h # g => out'[h] = out[h]
<1>1. out[g] \in Seq(Letters) /\ out'[g] = Tail(out[g])
  BY DEF TypeOK, SentOne
<1>2. \A h \in Goroutines : h # g => out'[h] = out[h]
  BY DEF TypeOK, SentOne
<1> QED
  BY <1>1, <1>2

\* ... another one in its place ...
LEMMA OneSwapped ==
  ASSUME TypeOK, NEW g \in Goroutines, out[g] # <<>>, NEW l, SendsOn(g, l)
  PROVE  /\ DOMAIN out'[g] = DOMAIN out[g] /\ 1 \in DOMAIN out[g] /\ Head(out[g]) = out[g][1]
         /\ DOMAIN out[g] = 1 .. Len(out[g]) /\ Len(out'[g]) = Len(out[g])
         /\ out'[g][1] = l /\ \A i \in DOMAIN out[g] : i # 1 => out'[g][i] = out[g][i]
         /\ \A h \in Goroutines : h # g => out'[h] = out[h]
<1>1. out[g] \in Seq(Letters) /\ out'[g] = [out[g] EXCEPT ![1] = l]
  BY DEF TypeOK, SendsOn
<1>2. \A h \in Goroutines : h # g => out'[h] = out[h]
  BY DEF TypeOK, SendsOn
<1> QED
  BY <1>1, <1>2

\* ... or new ones.
LEMMA NewPut ==
  ASSUME TypeOK, NEW g \in Goroutines, NEW ls, out' = [out EXCEPT ![g] = ls]
  PROVE  out'[g] = ls /\ \A h \in Goroutines : h # g => out'[h] = out[h]
  BY DEF TypeOK

\* What is true stays true.
LEMMA SoundStays ==
  ASSUME TypeOK, Onward, NEW q \in Procs, NEW sig \in Signals, Sound(q, sig)
  PROVE  Sound(q, sig)'
  BY Shapes DEF Sound, Onward, MonSig, Owner, Target, Untrappable

\* A Ref that leads nowhere leads nowhere later, and a process once known stays known.
LEMMA VoidStays ==
  ASSUME Onward, NEW l \in Letters, Void(l)
  PROVE  Void(l)'
  BY DEF Void, Onward, Letters

LEMMA FromStays ==
  ASSUME Onward, NEW g, NEW l, From(g, l)
  PROVE  From(g, l)'
  BY DEF From, Onward

\* A letter on its way is a letter.
LEMMA LetterAt ==
  ASSUME TypeOK, NEW g \in Goroutines, NEW i \in DOMAIN out[g]
  PROVE  out[g][i] \in Letters /\ out[g][i].to \in Procs /\ out[g][i].sig \in Signals
<1>1. out[g] \in Seq(Letters)
  BY DEF TypeOK
<1>2. out[g][i] \in Letters
  BY <1>1
<1> QED
  BY <1>2 DEF Letters

\* What made a letter valid when it was written still holds when it arrives.
LEMMA ValidStays ==
  ASSUME TypeOK, Onward, SoundLetters, NEW g \in Goroutines, NEW i \in DOMAIN out[g]
  PROVE  Valid(g, out[g][i]) /\ \A l : l = out[g][i] => Valid(g, l)'
<1> DEFINE x == out[g][i]
<1>1. x \in Letters /\ x.to \in Procs /\ x.sig \in Signals
  BY LetterAt
<1>2. From(g, x) /\ (Void(x) \/ Sound(x.to, x.sig))
  BY DEF SoundLetters, Valid
<1>3. ASSUME NEW l, l = x
      PROVE  Valid(g, l)'
  <2>1. From(g, l) /\ (Void(l) \/ Sound(l.to, l.sig)) /\ l \in Letters /\ l.to \in Procs /\ l.sig \in Signals
    BY <1>1, <1>2, <1>3
  <2>2. From(g, l)'
    BY <2>1, FromStays
  <2>3. Void(l) => Void(l)'
    BY <2>1, VoidStays
  <2>4. \A q \in Procs, sig \in Signals : Sound(q, sig) => Sound(q, sig)'
    BY SoundStays
  <2>5. Sound(l.to, l.sig) => Sound(l.to, l.sig)'
    BY <2>1, <2>4
  <2> QED
    BY <2>1, <2>2, <2>3, <2>5 DEF Valid
<1> QED
  BY <1>2, <1>3 DEF Valid

\* It is enough to look at new letters.
LEMMA NewLetters ==
  ASSUME TypeOK, Onward, SoundLetters,
         \A g \in Goroutines : \A i \in DOMAIN out'[g] : \A l :
           l = out'[g][i] => (\E j \in DOMAIN out[g] : l = out[g][j]) \/ Valid(g, l)'
  PROVE  SoundLetters'
<1>1. ASSUME NEW g \in Goroutines, NEW i \in DOMAIN out'[g], NEW l, l = out'[g][i]
      PROVE  Valid(g, l)'
  BY <1>1, ValidStays
<1> QED
  BY <1>1 DEF SoundLetters

\* The head of a queue of letters.
LEMMA HeadLetter ==
  ASSUME TypeOK, SoundLetters, NEW g \in Goroutines, out[g] # <<>>
  PROVE  /\ 1 \in DOMAIN out[g] /\ Head(out[g]) = out[g][1] /\ Head(out[g]) \in Letters
         /\ Head(out[g]).to \in Procs /\ Head(out[g]).sig \in Signals
         /\ Valid(g, Head(out[g]))
<1>1. out[g] \in Seq(Letters)
  BY DEF TypeOK
<1>2. 1 \in DOMAIN out[g] /\ Head(out[g]) = out[g][1]
  BY <1>1
<1> QED
  BY <1>2, LetterAt DEF SoundLetters

\* SoundLetters, one lemma per action that writes or moves letters.
LEMMA CheckLetters ==
  ASSUME TypeOK, Onward, SoundLetters, SoundLists, NEW g \in Goroutines, Check(g)
  PROVE  SoundLetters'
<1> DEFINE l == Head(out[g])
<1>1. out[g] # <<>> /\ ~l.checked
  BY DEF Check, ToSend
<1>2. /\ 1 \in DOMAIN out[g] /\ l = out[g][1] /\ l \in Letters /\ l.to \in Procs /\ l.sig \in Signals
      /\ Valid(g, l)
  BY <1>1, HeadLetter
<1>3. UNCHANGED <<status, reason, monitor, past>>
  BY DEF Check
<1>4. CASE status[l.to] = "RUNNING" /\ SendsOn(g, [l EXCEPT !.checked = TRUE])
  <2> DEFINE k == [l EXCEPT !.checked = TRUE]
  <2>1. k.to = l.to /\ k.sig = l.sig
    BY <1>2 DEF Letters
  <2>2. ~Void(l)
    BY <1>4 DEF Void, Gone
  <2>3. From(g, l) /\ Sound(l.to, l.sig) /\ l.to \in Procs /\ l.sig \in Signals
    BY <1>2, <2>2 DEF Valid
  <2>4. ASSUME NEW x, x = k
        PROVE  Valid(g, x)'
    <3>1. x.to = l.to /\ x.sig = l.sig
      BY <2>1, <2>4
    <3>2. From(g, x)'
      BY <2>3, <3>1, <1>3 DEF From
    <3>3. \A q \in Procs, sig \in Signals : Sound(q, sig) => Sound(q, sig)'
      BY SoundStays
    <3>4. Sound(x.to, x.sig)'
      BY <2>3, <3>1, <3>3
    <3> QED
      BY <3>2, <3>4 DEF Valid
  <2> HIDE DEF k, l
  <2> QED
    BY <2>4, <1>1, <1>4, OneSwapped, NewLetters DEF k, l
<1>5. CASE status[l.to] # "RUNNING" /\ Answered(l) /\ SendsOn(g, DeadReply(l))
  <2>1. ~Void(l)
    BY <1>5 DEF Void, Answered
  <2>2. Known(l.to) /\ Gone(l.to)
    BY <2>1, <1>2, <1>5 DEF Valid, Sound, Known, Gone, TypeOK
  <2>3. CASE l.sig.type = "link"
    <3> DEFINE k == Letter(l.sig.pid, ExitSig(l.to, "noproc", TRUE))
    <3>1. DeadReply(l) = k /\ Known(l.sig.pid)
      BY <2>1, <2>3, <1>2 DEF DeadReply, Valid, Sound
    <3>2. k.to = l.sig.pid /\ k.sig = ExitSig(l.to, "noproc", TRUE)
      BY DEF Letter
    <3>3. k.sig.type = "exit" /\ k.sig.sender = l.to /\ ~Untrappable(k.sig)
      BY <3>2 DEF ExitSig, Untrappable
    <3> HIDE DEF k
    <3>4. \A x : x = k => Valid(g, x)'
      BY <3>1, <3>2, <3>3, <2>2, <1>3 DEF Valid, From, Sound, Gone, Known
    <3> QED
      BY <3>1, <3>4, <1>1, <1>5, OneSwapped, NewLetters
  <2>4. CASE l.sig.type = "monitor"
    <3> DEFINE k == Letter(l.sig.monitor, DownSig(l.to, l.sig.ref, "noproc"))
               r == l.sig.ref
    <3>1. DeadReply(l) = k /\ r \in DOMAIN monitor /\ l.sig = MonSig(r) /\ l.to \in {Owner(r), Target(r)}
      BY <2>1, <2>4, <1>2 DEF DeadReply, Valid, Sound
    <3>2. l.sig.monitor = Owner(r)
      BY <3>1, Fields DEF MonSig
    <3>3. k.to = Owner(r) /\ k.sig = DownSig(l.to, r, "noproc") /\ k.checked = FALSE
      BY <3>2 DEF Letter
    <3>4. k.sig.type = "down" /\ k.sig.proc = l.to /\ k.sig.ref = r /\ k.sig.reason = "noproc"
      BY <3>3, Fields
    <3> HIDE DEF k, r
    <3>5. \A x : x = k => Valid(g, x)'
      BY <3>1, <3>3, <3>4, <2>2, <1>3 DEF Valid, From, Sound, Void, Gone, Known, Owner, Target, SoundLists
    <3> QED
      BY <3>1, <3>5, <1>1, <1>5, OneSwapped, NewLetters DEF l
  <2> QED
    BY <1>5, <2>3, <2>4 DEF Answered
<1>6. CASE SentOne(g)
  BY <1>1, <1>6, OneSent, NewLetters
<1> QED
  BY <1>4, <1>5, <1>6 DEF Check

LEMMA DepositLetters ==
  ASSUME TypeOK, Onward, SoundLetters, NEW g \in Goroutines, Deposit(g)
  PROVE  SoundLetters'
<1>1. out[g] # <<>> /\ SentOne(g)
  BY DEF Deposit
<1> QED
  BY <1>1, OneSent, NewLetters

\* What a goroutine puts in its empty hands.
LEMMA PutLetters ==
  ASSUME TypeOK, Onward, SoundLetters, NEW g \in Goroutines, NEW ls, out' = [out EXCEPT ![g] = ls],
         \A i \in DOMAIN ls : \A l : l = ls[i] => Valid(g, l)'
  PROVE  SoundLetters'
  BY NewPut, NewLetters

LEMMA SameLetters ==
  ASSUME TypeOK, Onward, SoundLetters, out' = out
  PROVE  SoundLetters'
  BY NewLetters

LEMMA Callers ==
  ASSUME TypeOK, Control, NEW p \in Procs, rbl[p] = "active"
  PROVE  Known(p)
  BY DEF Control, Known

LEMMA CallLinkLetters ==
  ASSUME TypeOK, Control, Onward, SoundLetters, NEW p \in Procs, NEW q \in Procs, CallLink(p, q)
  PROVE  SoundLetters'
<1> DEFINE ls == <<Letter(p, LinkSig(q)), Letter(q, LinkSig(p))>>
<1>1. Known(p) /\ Known(q) /\ UNCHANGED <<status, reason, monitor, past>> /\ Rbl(p) \in Goroutines
  BY Callers, Sides DEF CallLink, Call
<1>2. out' = [out EXCEPT ![Rbl(p)] = ls]
  BY DEF CallLink, Call
<1>3. ASSUME NEW l, l \in {Letter(p, LinkSig(q)), Letter(q, LinkSig(p))}
      PROVE  Valid(Rbl(p), l)'
  BY <1>1, <1>3, Fields DEF Valid, From, Sound, Known, Letter
<1>4. \A i \in DOMAIN ls : \A l : l = ls[i] => Valid(Rbl(p), l)'
  BY <1>3
<1> HIDE DEF ls
<1> QED
  BY <1>1, <1>2, <1>4, PutLetters

LEMMA CallUnlinkLetters ==
  ASSUME TypeOK, Control, Onward, SoundLetters, NEW p \in Procs, NEW q \in Procs, CallUnlink(p, q)
  PROVE  SoundLetters'
<1> DEFINE ls == <<Letter(p, UnlinkSig(q)), Letter(q, UnlinkSig(p))>>
<1>1. Known(p) /\ Known(q) /\ UNCHANGED <<status, reason, monitor>> /\ Rbl(p) \in Goroutines
  BY Callers, Sides DEF CallUnlink, Call
<1>2. out' = [out EXCEPT ![Rbl(p)] = ls]
  BY DEF CallUnlink, Call
<1>3. {p, q} \in past'.unlinked /\ {q, p} \in past'.unlinked
  <2>1. past \in Past /\ past' = [past EXCEPT !.unlinked = @ \cup {{p, q}}] /\ {q, p} = {p, q}
    BY DEF TypeOK, CallUnlink
  <2> QED
    BY <2>1 DEF Past
<1>4. ASSUME NEW l, l \in {Letter(p, UnlinkSig(q)), Letter(q, UnlinkSig(p))}
      PROVE  Valid(Rbl(p), l)'
  <2>1. /\ l.sig.type = "unlink" /\ {l.to, l.sig.pid} \in past'.unlinked
        /\ l.to \in {p, q}
    <3>1. CASE l = Letter(p, UnlinkSig(q))
      BY <1>3, <3>1 DEF Letter, UnlinkSig
    <3>2. CASE l = Letter(q, UnlinkSig(p))
      BY <1>3, <3>2 DEF Letter, UnlinkSig
    <3> QED
      BY <1>4, <3>1, <3>2
  <2> QED
    BY <1>1, <2>1 DEF Valid, From, Sound, Known
<1>5. \A i \in DOMAIN ls : \A l : l = ls[i] => Valid(Rbl(p), l)'
  BY <1>4
<1> HIDE DEF ls
<1> QED
  BY <1>1, <1>2, <1>5, PutLetters

LEMMA CallMonitorLetters ==
  ASSUME TypeOK, Control, Onward, SoundLetters, NEW p \in Procs, NEW q \in Procs, CallMonitor(p, q)
  PROVE  SoundLetters'
<1> DEFINE r  == NextRef
           ls == <<Letter(p, MonitorSig(r, p, q)), Letter(q, MonitorSig(r, p, q))>>
<1>1. Known(p) /\ Known(q) /\ UNCHANGED <<status, reason, past>> /\ Rbl(p) \in Goroutines
  BY Callers, Sides DEF CallMonitor, Call
<1>2. out' = [out EXCEPT ![Rbl(p)] = ls]
  BY DEF CallMonitor, Call
<1>3. r \in DOMAIN monitor' /\ monitor'[r].owner = p /\ monitor'[r].target = q
  <2>1. PICK spawned \in BOOLEAN : Monitors(p, q, spawned)
    BY DEF CallMonitor
  <2> QED
    BY <2>1, MonitorsTypes
<1>4. \A s : s = r => MonSig(s)' = MonitorSig(r, p, q) /\ Owner(s)' = p /\ Target(s)' = q
  BY <1>3 DEF MonSig, Owner, Target
<1> HIDE DEF r
<1>5. ASSUME NEW l, l \in {Letter(p, MonitorSig(r, p, q)), Letter(q, MonitorSig(r, p, q))}
      PROVE  Valid(Rbl(p), l)'
  BY <1>1, <1>3, <1>4, <1>5, Fields DEF Valid, From, Sound, Known, Letter
<1>6. \A i \in DOMAIN ls : \A l : l = ls[i] => Valid(Rbl(p), l)'
  BY <1>5
<1> HIDE DEF ls
<1> QED
  BY <1>1, <1>2, <1>6, PutLetters

LEMMA CallDemonitorLetters ==
  ASSUME TypeOK, Control, Onward, SoundLetters, NEW p \in Procs, NEW r \in DOMAIN monitor,
         CallDemonitor(p, r)
  PROVE  SoundLetters'
<1> DEFINE ls == <<Letter(p, DemonitorSig(r, p))>>
<1>1. Known(p) /\ UNCHANGED <<status, reason, monitor>> /\ Rbl(p) \in Goroutines
  BY Callers, Sides DEF CallDemonitor, Call
<1>2. out' = [out EXCEPT ![Rbl(p)] = ls]
  BY DEF CallDemonitor, Call
<1>3. r \in past'.demonitored
  BY DEF TypeOK, CallDemonitor, Past
<1>4. monitor[r].owner = p
  BY DEF CallDemonitor
<1>5. ASSUME NEW l, l = Letter(p, DemonitorSig(r, p))
      PROVE  Valid(Rbl(p), l)'
  BY <1>1, <1>3, <1>4, <1>5, Fields DEF Valid, From, Sound, Known, Owner, Letter
<1>6. \A i \in DOMAIN ls : \A l : l = ls[i] => Valid(Rbl(p), l)'
  BY <1>5
<1> HIDE DEF ls
<1> QED
  BY <1>1, <1>2, <1>6, PutLetters

LEMMA CallOtherLetters ==
  ASSUME TypeOK, Control, Onward, SoundLetters, NEW p \in Procs, NEW q \in Procs, NEW why,
         CallSend(p, q) \/ CallExit(p, q, why)
  PROVE  SoundLetters'
<1>1. Known(p) /\ Known(q) /\ UNCHANGED <<status, reason, monitor>> /\ Rbl(p) \in Goroutines
  BY Callers, Sides DEF CallSend, CallExit, Call
<1>2. PICK sig : /\ out' = [out EXCEPT ![Rbl(p)] = <<Letter(q, sig)>>]
                 /\ \/ sig = MessageSig(p)
                    \/ sig = ExitSig(p, why, FALSE) /\ (why = "kill" => q \in past'.killed)
  <2>1. CASE CallSend(p, q)
    BY <2>1 DEF CallSend, Call
  <2>2. CASE CallExit(p, q, why)
    <3>1. past \in Past /\ past' = [past EXCEPT !.killed = @ \cup (IF why = "kill" THEN {q} ELSE {})]
      BY <2>2 DEF CallExit, TypeOK
    <3>2. why = "kill" => q \in past'.killed
      BY <3>1 DEF Past
    <3> QED
      BY <2>2, <3>2 DEF CallExit, Call
  <2> QED
    BY <2>1, <2>2
<1>3. \/ sig.type = "msg" /\ sig.sender = p
      \/ sig.type = "exit" /\ ~sig.link /\ (Untrappable(sig) => q \in past'.killed)
  BY <1>2 DEF MessageSig, ExitSig, Untrappable
<1>4. ASSUME NEW l, l = Letter(q, sig)
      PROVE  Valid(Rbl(p), l)'
  <2>1. l.to = q /\ l.sig = sig
    BY <1>4 DEF Letter
  <2> QED
    BY <1>1, <1>3, <2>1 DEF Valid, From, Sound, Known, Untrappable
<1> DEFINE ls == <<Letter(q, sig)>>
<1>5. \A i \in DOMAIN ls : ls[i] = Letter(q, sig)
  OBVIOUS
<1>6. out' = [out EXCEPT ![Rbl(p)] = ls]
  BY <1>2
<1> HIDE DEF ls
<1> QED
  BY <1>1, <1>4, <1>5, <1>6, PutLetters

LEMMA CallNothingLetters ==
  ASSUME TypeOK, Onward, SoundLetters, NEW p \in Procs, NEW q \in Procs,
         \/ CallTrapExit(p)
         \/ CallSpawnAlone(p, q) \/ CallSpawnLink(p, q) \/ CallSpawnMonitor(p, q)
  PROVE  SoundLetters'
<1>1. Rbl(p) \in Goroutines /\ \E op : Call(p, op, <<>>)
  BY Sides DEF CallTrapExit, CallSpawnAlone, CallSpawnLink, CallSpawnMonitor, CallSpawn
<1>2. out' = out
  BY <1>1 DEF TypeOK, Call
<1> QED
  BY <1>2, SameLetters

LEMMA BootLettersSound ==
  ASSUME TypeOK, Control, Onward, SoundLetters, SoundLists, NEW p \in Procs, Boot(p)
  PROVE  SoundLetters'
<1> DEFINE from == parent[p]
           ls   == BootLetters(p)
<1>1. /\ out' = [out EXCEPT ![Run(p)] = ls] /\ Run(p) \in Goroutines
      /\ UNCHANGED <<status, reason, monitor, past>> /\ Known(p)
  BY Sides DEF Boot, Control, Known
<1>2. CASE from.kind = "link"
  <2>1. ls = <<Letter(from.pid, LinkSig(p))>> /\ Known(from.pid)
    BY <1>2 DEF BootLetters, SoundLists
  <2>2. ASSUME NEW l, l = Letter(from.pid, LinkSig(p))
        PROVE  Valid(Run(p), l)'
    BY <1>1, <2>1, <2>2, Fields DEF Valid, From, Sound, Known, Letter
  <2>3. \A i \in DOMAIN ls : ls[i] = Letter(from.pid, LinkSig(p))
    BY <2>1
  <2> HIDE DEF ls
  <2> QED
    BY <1>1, <2>2, <2>3, PutLetters
<1>3. CASE from.kind = "monitor"
  <2> DEFINE r == from.ref
             s == MonitorSig(r, from.pid, p)
  <2>1. ls = <<Letter(from.pid, s)>> /\ Known(from.pid)
    BY <1>3 DEF BootLetters, SoundLists
  <2>2. r \in DOMAIN monitor /\ from.pid = Owner(r) /\ p = Target(r) /\ s = MonSig(r)
    BY <1>3 DEF SoundLists, MonSig
  <2>3. s.type = "monitor" /\ s.ref = r
    BY Fields
  <2> HIDE DEF s
  <2>4. ASSUME NEW l, l = Letter(from.pid, s)
        PROVE  Valid(Run(p), l)'
    <3>1. l.to = from.pid /\ l.sig = s
      BY <2>4 DEF Letter
    <3> QED
      BY <1>1, <2>1, <2>2, <2>3, <3>1 DEF Valid, From, Sound, Known, MonSig, Owner, Target
  <2>5. \A i \in DOMAIN ls : ls[i] = Letter(from.pid, s)
    BY <2>1
  <2> HIDE DEF ls
  <2> QED
    BY <1>1, <2>4, <2>5, PutLetters
<1>4. CASE from.kind \notin {"link", "monitor"}
  <2>1. ls = <<>>
    BY <1>4 DEF BootLetters
  <2>2. \A i \in DOMAIN ls : FALSE
    BY <2>1
  <2> HIDE DEF ls
  <2> QED
    BY <1>1, <2>2, PutLetters
<1> QED
  BY <1>2, <1>3, <1>4

\* A Demonitor from the owner goes on to the target of its Ref, and nowhere else.
LEMMA PassedOn ==
  ASSUME TypeOK, SoundLists, NEW p \in Procs, NEW sig \in Signals, Sound(p, sig),
         NEW i \in DOMAIN Absorb(p, sig).sends
  PROVE  /\ sig.type = "demonitor" /\ sig.origin = p /\ i = 1 /\ KnownRef(p, sig.ref)
         /\ Absorb(p, sig).sends[i] = Letter(Target(sig.ref), sig)
         /\ Absorb(p, sig).sends = <<Letter(Target(sig.ref), sig)>>
<1>1. Absorb(p, sig).sends # <<>>
  OBVIOUS
<1>2. CASE sig.type = "demonitor" /\ sig.origin = p
  <2>1. Absorb(p, sig).sends = Passed(p, sig)
    BY <1>2 DEF Absorb, AfterDemonitor, Local
  <2>2. PICK e \in monitoring[p] : e.ref = sig.ref /\ Passed(p, sig) = <<Letter(e.pid, sig)>>
    BY <2>1, <1>1, <1>2, PassedTypes
  <2>3. e.pid = Target(sig.ref)
    BY <2>2 DEF SoundLists
  <2> QED
    BY <1>2, <2>1, <2>2, <2>3 DEF KnownRef
<1>3. CASE ~(sig.type = "demonitor" /\ sig.origin = p)
  <2>1. Absorb(p, sig).sends = <<>>
    BY <1>3 DEF Absorb, AfterLink, AfterUnlink, AfterMonitor, AfterDemonitor, Local
  <2> QED
    BY <1>1, <2>1
<1> QED
  BY <1>2, <1>3

\* The handlers of run and of exit write sound letters.
LEMMA AbsorbsLetters ==
  ASSUME TypeOK, Onward, SoundLetters, SoundLists, NEW p \in Procs, NEW sig \in Signals,
         Sound(p, sig), Absorbs(p, sig), UNCHANGED <<status, reason, monitor, past>>
  PROVE  SoundLetters'
<1> DEFINE ls == Absorb(p, sig).sends
<1>1. out' = [out EXCEPT ![Run(p)] = ls] /\ Run(p) \in Goroutines
  BY Sides DEF Absorbs
<1>2. ASSUME NEW i \in DOMAIN ls, NEW l, l = ls[i]
      PROVE  Valid(Run(p), l)'
  <2>1. sig.type = "demonitor" /\ sig.origin = p /\ l = Letter(Target(sig.ref), sig)
    BY <1>2, PassedOn
  <2>2. l.to = Target(sig.ref) /\ l.sig = sig
    BY <2>1 DEF Letter
  <2>3. sig.ref \in DOMAIN monitor /\ p = Owner(sig.ref) /\ Target(sig.ref) # p /\ Known(Target(sig.ref))
    BY <2>1 DEF Sound, SoundLists
  <2> QED
    BY <2>1, <2>2, <2>3 DEF Valid, From, Sound, Known, Gone, Owner, Target
<1> HIDE DEF ls
<1> QED
  BY <1>1, <1>2, PutLetters

\* So do the loops of exit: a process that notifies is exiting, with its reason.
LEMMA NotifyLetters ==
  ASSUME TypeOK, Control, Onward, SoundLetters, SoundLists, NEW p \in Procs, Notify(p)
  PROVE  SoundLetters'
<1>1. /\ UNCHANGED <<status, reason, monitor, past>> /\ Run(p) \in Goroutines
      /\ Gone(p) /\ reason[p] \in ExitReasons
  BY Sides DEF Notify, Control, Gone, TypeOK
<1>2. ASSUME NEW q, NEW sig, out' = [out EXCEPT ![Run(p)] = <<Letter(q, sig)>>],
             From(Run(p), Letter(q, sig))', Sound(q, sig)'
      PROVE  SoundLetters'
  <2> DEFINE ls == <<Letter(q, sig)>>
  <2>1. Letter(q, sig).to = q /\ Letter(q, sig).sig = sig
    BY DEF Letter
  <2>2. \A l : l = Letter(q, sig) => Valid(Run(p), l)'
    BY <1>2, <2>1 DEF Valid
  <2>3. \A i \in DOMAIN ls : ls[i] = Letter(q, sig)
    OBVIOUS
  <2>4. out' = [out EXCEPT ![Run(p)] = ls]
    BY <1>2
  <2> HIDE DEF ls
  <2> QED
    BY <1>1, <2>2, <2>3, <2>4, PutLetters
<1>3. ASSUME NEW q \in links[p], NotifyLink(p, q)
      PROVE  SoundLetters'
  <2>1. PICK sig : sig = ExitSig(p, reason[p], TRUE)
    OBVIOUS
  <2>2. sig.type = "exit" /\ sig.sender = p /\ ~Untrappable(sig)
    BY <2>1 DEF ExitSig, Untrappable
  <2>3. Known(q)
    BY DEF SoundLists
  <2>4. From(Run(p), Letter(q, sig))' /\ Sound(q, sig)'
    BY <1>1, <2>2, <2>3 DEF From, Sound, Known, Gone, Letter
  <2> QED
    BY <1>2, <1>3, <2>1, <2>4 DEF NotifyLink
<1>4. ASSUME NEW m \in monitors[p], NotifyMonitor(p, m)
      PROVE  SoundLetters'
  <2>1. PICK sig : sig = DownSig(p, m.ref, reason[p])
    OBVIOUS
  <2>2. sig.type = "down" /\ sig.proc = p /\ sig.ref = m.ref /\ sig.reason = reason[p]
    BY <2>1, Fields
  <2>3. m.ref \in DOMAIN monitor /\ m.pid = Owner(m.ref) /\ p = Target(m.ref) /\ Known(m.pid)
    BY DEF SoundLists
  <2>4. From(Run(p), Letter(m.pid, sig))' /\ Sound(m.pid, sig)'
    BY <1>1, <2>2, <2>3 DEF From, Sound, Known, Gone, Letter, Owner, Target
  <2> QED
    BY <1>2, <1>4, <2>1, <2>4 DEF NotifyMonitor
<1>5. ASSUME NEW e \in monitoring[p], NotifyMonitored(p, e)
      PROVE  SoundLetters'
  <2>1. PICK sig : sig = DemonitorSig(e.ref, p)
    OBVIOUS
  <2>2. sig.type = "demonitor" /\ sig.ref = e.ref /\ sig.origin = p
    BY <2>1, Fields
  <2>3. /\ e.ref \in DOMAIN monitor /\ p = Owner(e.ref) /\ e.pid = Target(e.ref)
        /\ e.pid # p /\ Known(e.pid)
    BY DEF SoundLists
  <2>4. From(Run(p), Letter(e.pid, sig))' /\ Sound(e.pid, sig)'
    BY <1>1, <2>2, <2>3 DEF From, Sound, Known, Gone, Letter, Owner, Target
  <2> QED
    BY <1>2, <1>5, <2>1, <2>4 DEF NotifyMonitored
<1> QED
  BY <1>3, <1>4, <1>5 DEF Notify

\* The signal that run takes is sound.
LEMMA HeadSound ==
  ASSUME TypeOK, SoundInboxes, NEW p \in Procs, receive[p] # <<>>
  PROVE  /\ Head(receive[p]) \in Signals /\ Sound(p, Head(receive[p]))
         /\ 1 \in DOMAIN receive[p] /\ Head(receive[p]) = receive[p][1]
<1>1. receive[p] \in Seq(Signals)
  BY DEF TypeOK
<1>2. Head(receive[p]) \in Signals /\ 1 \in DOMAIN receive[p] /\ Head(receive[p]) = receive[p][1]
  BY <1>1
<1> QED
  BY <1>2 DEF SoundInboxes

LEMMA RunLetters ==
  ASSUME TypeOK, Control, Onward, Truthful, NEW p \in Procs,
         \/ Boot(p) \/ Start(p) \/ OnSignal(p) \/ OnDone(p)
         \/ Drain(p) \/ DrainNext(p) \/ DrainDone(p) \/ Notify(p) \/ CloseMailbox(p)
         \/ EndExit(p) \/ Panic(p)
         \/ \E why \in Reasons : Return(p, why)
  PROVE  SoundLetters'
<1> USE DEF Truthful
<1> DEFINE sig == Head(receive[p])
<1>1. CASE Boot(p)
  BY <1>1, BootLettersSound
<1>2. CASE OnBookkeeping(p, sig)
  <2>1. receive[p] # <<>> /\ Absorbs(p, sig) /\ UNCHANGED <<status, reason, monitor, past>>
    BY <1>2 DEF OnBookkeeping, Receive
  <2> HIDE DEF sig
  <2> QED
    BY <2>1, HeadSound, AbsorbsLetters DEF sig
<1>3. CASE DrainNext(p)
  <2>1. receive[p] # <<>> /\ Absorbs(p, sig) /\ UNCHANGED <<status, reason, monitor, past>>
    BY <1>3 DEF DrainNext
  <2> HIDE DEF sig
  <2> QED
    BY <2>1, HeadSound, AbsorbsLetters DEF sig
<1>4. CASE Notify(p)
  BY <1>4, NotifyLetters
<1>5. CASE OnMessage(p, sig) \/ OnDown(p, sig) \/ OnExitSurvived(p, sig) \/ OnExitFatal(p, sig)
  BY <1>5, SameLetters DEF OnMessage, OnDown, OnExitSurvived, OnExitFatal
<1>6. CASE \/ Start(p) \/ OnDone(p) \/ Drain(p) \/ DrainDone(p) \/ CloseMailbox(p)
           \/ EndExit(p) \/ Panic(p) \/ \E why \in Reasons : Return(p, why)
  BY <1>6, SameLetters DEF Start, OnDone, Drain, DrainDone, CloseMailbox, EndExit, Panic, Return
<1> QED
  BY <1>1, <1>2, <1>3, <1>4, <1>5, <1>6 DEF OnSignal

LEMMA StepLetters ==
  ASSUME TypeOK, Control, Truthful, Next
  PROVE  SoundLetters'
<1> USE StepOnward DEF Truthful
<1>1. ASSUME NEW p \in Procs, NEW q \in Procs \ {p},
             \/ CallLink(p, q) \/ CallUnlink(p, q) \/ CallMonitor(p, q) \/ CallSend(p, q)
             \/ CallSpawnAlone(p, q) \/ CallSpawnLink(p, q) \/ CallSpawnMonitor(p, q)
      PROVE  SoundLetters'
  BY <1>1, CallLinkLetters, CallUnlinkLetters, CallMonitorLetters, CallOtherLetters, CallNothingLetters
<1>2. ASSUME NEW p \in Procs,
             \/ \E q \in Procs, why \in Reasons : CallExit(p, q, why)
             \/ \E r \in DOMAIN monitor : CallDemonitor(p, r)
             \/ CallTrapExit(p)
      PROVE  SoundLetters'
  BY <1>2, CallOtherLetters, CallDemonitorLetters, CallNothingLetters
<1> QED
  BY <1>1, <1>2, CheckLetters, DepositLetters, RunLetters, Steps

-----------------------------------------------------------------------------
(* Inboxes, lists and history.                                             *)

\* The inbox with one signal fewer, and with one more.
LEMMA Taken ==
  ASSUME TypeOK, NEW p \in Procs, receive[p] # <<>>, receive' = [receive EXCEPT ![p] = Tail(@)]
  PROVE  /\ DOMAIN receive[p] = 1 .. Len(receive[p]) /\ Len(receive[p]) \in Nat \ {0}
         /\ DOMAIN receive'[p] = 1 .. Len(receive[p]) - 1
         /\ \A i \in DOMAIN receive'[p] : i + 1 \in DOMAIN receive[p] /\ receive'[p][i] = receive[p][i + 1]
         /\ \A i \in DOMAIN receive[p] : i # 1 => i - 1 \in DOMAIN receive'[p] /\ receive'[p][i - 1] = receive[p][i]
         /\ \A q \in Procs : q # p => receive'[q] = receive[q]
<1>1. receive[p] \in Seq(Signals) /\ receive'[p] = Tail(receive[p])
  BY DEF TypeOK
<1> QED
  BY <1>1 DEF TypeOK

\* Enqueue changes one inbox, at its end.
LEMMA Added ==
  ASSUME NEW f \in [Procs -> Seq(Signals)], NEW p \in Procs, NEW sig, NEW g,
         g = [f EXCEPT ![p] = Append(@, sig)]
  PROVE  /\ DOMAIN f[p] = 1 .. Len(f[p]) /\ Len(f[p]) \in Nat
         /\ DOMAIN g[p] = 1 .. Len(f[p]) + 1 /\ g[p][Len(f[p]) + 1] = sig
         /\ \A i \in DOMAIN f[p] : g[p][i] = f[p][i]
         /\ \A q \in Procs : q # p => g[q] = f[q]
<1>1. f[p] \in Seq(Signals) /\ g[p] = Append(f[p], sig)
  OBVIOUS
<1> QED
  BY <1>1

\* It is enough to look at new signals.
LEMMA NewSignals ==
  ASSUME TypeOK, Onward, SoundInboxes,
         \A p \in Procs : \A i \in DOMAIN receive'[p] :
           \/ \E j \in DOMAIN receive[p] : receive'[p][i] = receive[p][j]
           \/ \E sig \in Signals : Sound(p, sig) /\ receive'[p][i] = sig,
         \A p \in Procs : \A i \in DOMAIN mailbox'[p] :
           \/ \E j \in DOMAIN mailbox[p] : mailbox'[p][i] = mailbox[p][j]
           \/ \E sig \in Signals : Sound(p, sig) /\ mailbox'[p][i] = sig
  PROVE  SoundInboxes'
<1>1. ASSUME NEW p \in Procs
      PROVE  /\ \A i \in DOMAIN receive[p] : receive[p][i] \in Signals /\ Sound(p, receive[p][i])
             /\ \A i \in DOMAIN mailbox[p] : mailbox[p][i] \in Signals /\ Sound(p, mailbox[p][i])
  BY DEF TypeOK, SoundInboxes
<1>2. \A p \in Procs, sig \in Signals : Sound(p, sig) => Sound(p, sig)'
  BY SoundStays
<1>3. ASSUME NEW p \in Procs, NEW sig \in Signals, Sound(p, sig), NEW x, x = sig
      PROVE  Sound(p, x)'
  BY <1>2, <1>3
<1>4. ASSUME NEW p \in Procs, NEW i \in DOMAIN receive'[p], NEW x, x = receive'[p][i]
      PROVE  Sound(p, x)'
  BY <1>1, <1>3, <1>4
<1>5. ASSUME NEW p \in Procs, NEW i \in DOMAIN mailbox'[p], NEW x, x = mailbox'[p][i]
      PROVE  Sound(p, x)'
  BY <1>1, <1>3, <1>5
<1> QED
  BY <1>4, <1>5 DEF SoundInboxes

\* Sound letters make sound inboxes.
LEMMA DepositInboxes ==
  ASSUME TypeOK, Onward, SoundLetters, SoundInboxes, NEW g \in Goroutines, Deposit(g)
  PROVE  SoundInboxes'
<1> DEFINE l == Head(out[g])
<1>1. out[g] # <<>> /\ l.checked
  BY DEF Deposit
<1>2. l.to \in Procs /\ l.sig \in Signals /\ Valid(g, l)
  BY <1>1, HeadLetter
<1>3. Sound(l.to, l.sig)
  BY <1>1, <1>2 DEF Valid, Void
<1>4. /\ receive' = IF closed[l.to] THEN receive ELSE [receive EXCEPT ![l.to] = Append(@, l.sig)]
      /\ mailbox' = mailbox /\ receive \in [Procs -> Seq(Signals)]
  BY DEF Deposit, TypeOK
<1> HIDE DEF l
<1>5. CASE receive' = [receive EXCEPT ![l.to] = Append(@, l.sig)]
  <2> DEFINE q == l.to
             sig == l.sig
  <2>1. /\ DOMAIN receive[q] = 1 .. Len(receive[q]) /\ Len(receive[q]) \in Nat
        /\ DOMAIN receive'[q] = 1 .. Len(receive[q]) + 1 /\ receive'[q][Len(receive[q]) + 1] = sig
        /\ \A i \in DOMAIN receive[q] : receive'[q][i] = receive[q][i]
        /\ \A p \in Procs : p # q => receive'[p] = receive[p]
    BY <1>2, <1>4, <1>5, Added
  <2>2. ASSUME NEW p \in Procs, NEW i \in DOMAIN receive'[p]
        PROVE  \/ \E j \in DOMAIN receive[p] : receive'[p][i] = receive[p][j]
               \/ \E s \in Signals : Sound(p, s) /\ receive'[p][i] = s
    <3>1. CASE p # q
      BY <2>1, <2>2, <3>1
    <3>2. CASE p = q /\ i \in DOMAIN receive[q]
      BY <2>1, <2>2, <3>2
    <3>3. CASE p = q /\ i \notin DOMAIN receive[q]
      <4>1. i = Len(receive[q]) + 1
        BY <2>1, <2>2, <3>3
      <4> QED
        BY <1>2, <1>3, <2>1, <3>3, <4>1
    <3> QED
      BY <3>1, <3>2, <3>3
  <2> QED
    BY <1>4, <2>2, NewSignals
<1>6. CASE receive' = receive
  BY <1>4, <1>6, NewSignals
<1> QED
  BY <1>4, <1>5, <1>6

\* Taking the first one keeps them so.
LEMMA ReceiveInboxes ==
  ASSUME TypeOK, Onward, SoundInboxes, NEW p \in Procs, receive[p] # <<>>,
         receive' = [receive EXCEPT ![p] = Tail(@)],
         mailbox' = mailbox \/ mailbox' = [mailbox EXCEPT ![p] = Append(@, Head(receive[p]))]
  PROVE  SoundInboxes'
<1> DEFINE sig == Head(receive[p])
<1>1. sig \in Signals /\ Sound(p, sig)
  BY HeadSound
<1>2. \A q \in Procs : \A i \in DOMAIN receive'[q] :
        \E j \in DOMAIN receive[q] : receive'[q][i] = receive[q][j]
  BY SMTT(30), Taken
<1>3. CASE mailbox' = mailbox
  BY <1>2, <1>3, NewSignals
<1>4. CASE mailbox' = [mailbox EXCEPT ![p] = Append(@, sig)]
  <2> HIDE DEF sig
  <2>1. mailbox \in [Procs -> Seq(Signals)]
    BY DEF TypeOK
  <2>2. /\ DOMAIN mailbox[p] = 1 .. Len(mailbox[p]) /\ Len(mailbox[p]) \in Nat
        /\ DOMAIN mailbox'[p] = 1 .. Len(mailbox[p]) + 1 /\ mailbox'[p][Len(mailbox[p]) + 1] = sig
        /\ \A i \in DOMAIN mailbox[p] : mailbox'[p][i] = mailbox[p][i]
        /\ \A q \in Procs : q # p => mailbox'[q] = mailbox[q]
    BY <1>4, <2>1, Added
  <2>3. ASSUME NEW q \in Procs, NEW i \in DOMAIN mailbox'[q]
        PROVE  \/ \E j \in DOMAIN mailbox[q] : mailbox'[q][i] = mailbox[q][j]
               \/ \E s \in Signals : Sound(q, s) /\ mailbox'[q][i] = s
    <3>1. CASE q # p
      BY <2>2, <2>3, <3>1
    <3>2. CASE q = p /\ i \in DOMAIN mailbox[p]
      BY <2>2, <2>3, <3>2
    <3>3. CASE q = p /\ i \notin DOMAIN mailbox[p]
      <4>1. i = Len(mailbox[p]) + 1
        BY <2>2, <2>3, <3>3
      <4> QED
        BY <1>1, <2>2, <3>3, <4>1
    <3> QED
      BY <3>1, <3>2, <3>3
  <2> QED
    BY <1>2, <2>3, NewSignals
<1> QED
  BY <1>3, <1>4

LEMMA SameInboxes ==
  ASSUME TypeOK, Onward, SoundInboxes, UNCHANGED <<receive, mailbox>>
  PROVE  SoundInboxes'
  BY NewSignals

LEMMA StepInboxes ==
  ASSUME TypeOK, Control, Truthful, Next
  PROVE  SoundInboxes'
<1> USE StepOnward DEF Truthful
<1>1. CASE \E g \in Goroutines : Check(g) \/ Deposit(g)
  BY <1>1, DepositInboxes, SameInboxes DEF Check
<1>2. ASSUME NEW p \in Procs, NEW q \in Procs,
             \/ CallLink(p, q) \/ CallUnlink(p, q) \/ CallMonitor(p, q) \/ CallSend(p, q)
             \/ CallSpawnAlone(p, q) \/ CallSpawnLink(p, q) \/ CallSpawnMonitor(p, q)
             \/ (\E why \in Reasons : CallExit(p, q, why)) \/ CallTrapExit(p)
             \/ \E r \in DOMAIN monitor : CallDemonitor(p, r)
      PROVE  SoundInboxes'
  BY <1>2, SameInboxes DEF CallLink, CallUnlink, CallMonitor, CallSend, CallExit, CallDemonitor,
    CallTrapExit, CallSpawnAlone, CallSpawnLink, CallSpawnMonitor, CallSpawn
<1>3. ASSUME NEW p \in Procs, OnSignal(p)
      PROVE  SoundInboxes'
  <2> DEFINE sig == Head(receive[p])
  <2>1. /\ receive[p] # <<>> /\ receive' = [receive EXCEPT ![p] = Tail(@)]
        /\ mailbox' = mailbox \/ mailbox' = [mailbox EXCEPT ![p] = Append(@, sig)]
    BY <1>3 DEF OnSignal, OnBookkeeping, OnMessage, OnDown, OnExitSurvived, OnExitFatal, Receive
  <2> QED
    BY <2>1, ReceiveInboxes
<1>4. ASSUME NEW p \in Procs, Drain(p) \/ DrainNext(p)
      PROVE  SoundInboxes'
  BY <1>4, ReceiveInboxes, SameInboxes DEF Drain, DrainNext
<1>5. ASSUME NEW p \in Procs, EndExit(p)
      PROVE  SoundInboxes'
  <2>1. \A q \in Procs : \A i \in DOMAIN mailbox'[q] :
          \E j \in DOMAIN mailbox[q] : mailbox'[q][i] = mailbox[q][j]
    BY <1>5 DEF TypeOK, EndExit
  <2> QED
    BY <1>5, <2>1, NewSignals DEF EndExit
<1>6. ASSUME NEW p \in Procs,
             \/ Boot(p) \/ Start(p) \/ OnDone(p) \/ DrainDone(p) \/ Notify(p) \/ CloseMailbox(p)
             \/ Panic(p) \/ \E why \in Reasons : Return(p, why)
      PROVE  SoundInboxes'
  BY <1>6, SameInboxes DEF Boot, Start, OnDone, DrainDone, Notify, CloseMailbox, Panic, Return
<1> QED
  BY <1>1, <1>2, <1>3, <1>4, <1>5, <1>6, Steps

\* The lists hold what they held, or less.
LEMMA FewerLists ==
  ASSUME TypeOK, Onward, SoundLists, UNCHANGED <<monitor, parent>>,
         \A p \in Procs : /\ links'[p] \subseteq links[p] /\ monitors'[p] \subseteq monitors[p]
                          /\ monitoring'[p] \subseteq monitoring[p]
  PROVE  SoundLists'
<1>1. \A p \in Procs : Known(p) => Known(p)'
  BY DEF Onward
<1>2. \A r \in DOMAIN monitor : Owner(r) \in Procs /\ Target(r) \in Procs
  BY RefIs
<1>3. \A p \in Procs : parent[p].kind # "none" => parent[p].pid \in Procs
  BY ParentIs
<1>4. \A p \in Procs : \A q \in links[p] : q \in Procs
  BY DEF TypeOK
<1> QED
  BY <1>1, <1>2, <1>3, <1>4 DEF SoundLists, Owner, Target, Known

\* Links, monitors and monitoring hold what sound signals asked for.
LEMMA AbsorbsLists ==
  ASSUME TypeOK, Onward, SoundLists, NEW p \in Procs, NEW sig \in Signals, Sound(p, sig),
         Absorbs(p, sig), UNCHANGED <<status, monitor, parent>>
  PROVE  SoundLists'
<1> DEFINE L == Absorb(p, sig)
<1>1. \A q \in L.links : Known(q)
  BY DEF SoundLists, Sound, Absorb, AfterLink, AfterUnlink, AfterMonitor, AfterDemonitor, Local
<1>2. /\ \A m \in L.monitors : m.ref \in DOMAIN monitor /\ m.pid = Owner(m.ref) /\ p = Target(m.ref)
      /\ \A e \in L.monitoring : e.ref \in DOMAIN monitor /\ p = Owner(e.ref) /\ e.pid = Target(e.ref)
  <2>1. CASE sig.type = "monitor"
    <3>1. /\ sig.ref \in DOMAIN monitor /\ sig.monitor = Owner(sig.ref) /\ sig.monitored = Target(sig.ref)
          /\ p \in {sig.monitor, sig.monitored}
      BY <2>1, Fields DEF Sound, MonSig
    <3> QED
      BY <2>1, <3>1 DEF SoundLists, Absorb, AfterMonitor, Local
  <2>2. CASE sig.type # "monitor"
    BY <2>2 DEF SoundLists, Absorb, AfterLink, AfterUnlink, AfterDemonitor, Local
  <2> QED
    BY <2>1, <2>2
<1>3. /\ links' = [links EXCEPT ![p] = L.links] /\ monitors' = [monitors EXCEPT ![p] = L.monitors]
      /\ monitoring' = [monitoring EXCEPT ![p] = L.monitoring]
  BY DEF Absorbs
<1> HIDE DEF L
<1>4. /\ \A q \in Procs : q # p => /\ links'[q] = links[q] /\ monitors'[q] = monitors[q]
                                  /\ monitoring'[q] = monitoring[q]
      /\ links'[p] = L.links /\ monitors'[p] = L.monitors /\ monitoring'[p] = L.monitoring
  BY <1>3 DEF TypeOK
<1> QED
  BY <1>1, <1>2, <1>4 DEF SoundLists, Known, Owner, Target

LEMMA BootLists ==
  ASSUME TypeOK, Onward, SoundLists, NEW p \in Procs, Boot(p)
  PROVE  SoundLists'
<1>1. UNCHANGED <<status, monitor, parent, monitoring>>
  BY DEF Boot
<1>2. /\ \A q \in Procs : q # p => links'[q] = links[q] /\ monitors'[q] = monitors[q]
      /\ links'[p] = IF parent[p].kind = "link" THEN {parent[p].pid} ELSE links[p]
      /\ monitors'[p] = IF parent[p].kind = "monitor"
                          THEN {[pid |-> parent[p].pid, ref |-> parent[p].ref]} ELSE monitors[p]
  BY DEF Boot, TypeOK
<1> QED
  BY <1>1, <1>2 DEF SoundLists, Known, Owner, Target

\* A new monitor.
LEMMA MonitorsLists ==
  ASSUME TypeOK, Onward, SoundLists, NEW p \in Procs, NEW q \in Procs, p # q,
         NEW spawned \in BOOLEAN, Monitors(p, q, spawned), Known(p)', Known(q)',
         UNCHANGED <<links, monitors, monitoring>>,
         \A x \in Procs : parent'[x] = parent[x]
                          \/ (x = q /\ spawned /\ parent'[x] = [kind |-> "monitor", pid |-> p, ref |-> NextRef])
  PROVE  SoundLists'
<1>1. /\ DOMAIN monitor' = DOMAIN monitor \cup {NextRef} /\ NextRef \notin DOMAIN monitor
      /\ \A r \in DOMAIN monitor : monitor'[r] = monitor[r]
      /\ monitor'[NextRef].owner = p /\ monitor'[NextRef].target = q
      /\ monitor'[NextRef].spawned = spawned
  BY MonitorsTypes
<1>2. \A r \in DOMAIN monitor : monitor[r].owner \in Procs /\ monitor[r].target \in Procs
  BY RefIs
<1>3. \A x \in Procs : status[x] # "unborn" => status'[x] # "unborn"
  BY DEF Onward, Known
<1>4. ASSUME NEW r \in DOMAIN monitor'
      PROVE  /\ monitor'[r].owner # monitor'[r].target
             /\ status'[monitor'[r].owner] # "unborn" /\ status'[monitor'[r].target] # "unborn"
  BY <1>1, <1>2, <1>3 DEF SoundLists, Owner, Target, Known
<1>5. ASSUME NEW x \in Procs
      PROVE  /\ \A y \in links'[x] : status'[y] # "unborn"
             /\ \A m \in monitors'[x] : /\ m.ref \in DOMAIN monitor'
                                        /\ m.pid = monitor'[m.ref].owner /\ x = monitor'[m.ref].target
             /\ \A e \in monitoring'[x] : /\ e.ref \in DOMAIN monitor'
                                          /\ x = monitor'[e.ref].owner /\ e.pid = monitor'[e.ref].target
  <2>1. links[x] \subseteq Procs
    BY DEF TypeOK
  <2> QED
    BY <2>1, <1>1, <1>3 DEF SoundLists, Owner, Target, Known
<1>6. ASSUME NEW x \in Procs
      PROVE  /\ parent'[x].kind # "none" => parent'[x].pid # x /\ status'[parent'[x].pid] # "unborn"
             /\ parent'[x].kind = "monitor" =>
                  /\ parent'[x].ref \in DOMAIN monitor' /\ monitor'[parent'[x].ref].spawned
                  /\ parent'[x].pid = monitor'[parent'[x].ref].owner /\ x = monitor'[parent'[x].ref].target
  <2>1. CASE parent'[x] = parent[x]
    <3>1. parent[x].kind # "none" => parent[x].pid \in Procs
      BY ParentIs
    <3> QED
      BY <2>1, <3>1, <1>1, <1>3 DEF SoundLists, Owner, Target, Known
  <2>2. CASE x = q /\ spawned /\ parent'[x] = [kind |-> "monitor", pid |-> p, ref |-> NextRef]
    <3>1. parent'[x].pid = p /\ parent'[x].ref = NextRef
      BY <2>2
    <3>2. monitor'[NextRef].spawned
      BY <1>1, <2>2
    <3> QED
      BY <2>2, <3>1, <3>2, <1>1 DEF Known
  <2> QED
    BY <2>1, <2>2
<1> QED
  BY <1>4, <1>5, <1>6 DEF SoundLists, Owner, Target, Known

\* The same monitors, and perhaps a new process.
LEMMA SpawnLists ==
  ASSUME TypeOK, Control, Onward, SoundLists, NEW p \in Procs, NEW q \in Procs, p # q, Known(p),
         CallSpawnAlone(p, q) \/ CallSpawnLink(p, q)
  PROVE  SoundLists'
<1>1. /\ UNCHANGED <<links, monitors, monitoring, monitor>>
      /\ \A x \in Procs : parent'[x] = parent[x]
           \/ (x = q /\ parent'[x] \in {NoParent, [kind |-> "link", pid |-> p]})
  BY DEF CallSpawnAlone, CallSpawnLink, CallSpawn, TypeOK
<1>2. \A r \in DOMAIN monitor : monitor[r].owner \in Procs /\ monitor[r].target \in Procs
  BY RefIs
<1>3. \A x \in Procs : status[x] # "unborn" => status'[x] # "unborn"
  BY DEF Onward, Known
<1>4. ASSUME NEW x \in Procs
      PROVE  /\ parent'[x].kind # "none" => parent'[x].pid # x /\ status'[parent'[x].pid] # "unborn"
             /\ parent'[x].kind = "monitor" =>
                  /\ parent'[x].ref \in DOMAIN monitor' /\ monitor'[parent'[x].ref].spawned
                  /\ parent'[x].pid = monitor'[parent'[x].ref].owner /\ x = monitor'[parent'[x].ref].target
  <2>1. CASE parent'[x] = parent[x]
    <3>1. parent[x].kind # "none" => parent[x].pid \in Procs
      BY ParentIs
    <3> QED
      BY <2>1, <3>1, <1>1, <1>3 DEF SoundLists, Owner, Target, Known
  <2>2. CASE x = q /\ parent'[x] \in {NoParent, [kind |-> "link", pid |-> p]}
    BY <2>2, <1>3 DEF Known, NoParent
  <2> QED
    BY <1>1, <2>1, <2>2
<1>5. \A x \in Procs : links[x] \subseteq Procs
  BY DEF TypeOK
<1> QED
  BY <1>1, <1>2, <1>3, <1>4, <1>5 DEF SoundLists, Owner, Target, Known

\* A caller writes into its own lists, before the signal that tells the other.
LEMMA CallLists ==
  ASSUME TypeOK, Control, Onward, SoundLists, NEW p \in Procs, NEW q \in Procs, p # q,
         \/ CallLink(p, q) \/ CallUnlink(p, q) \/ CallMonitor(p, q) \/ CallSend(p, q)
         \/ CallSpawnAlone(p, q) \/ CallSpawnLink(p, q) \/ CallSpawnMonitor(p, q)
  PROVE  SoundLists'
<1>1. rbl[p] = "active"
  BY DEF CallLink, CallUnlink, CallMonitor, CallSend, CallSpawnAlone, CallSpawnLink, CallSpawnMonitor,
    CallSpawn, Call
<1>2. Known(p) /\ Known(p)'
  BY <1>1, Callers DEF Onward
<1>3. CASE CallLink(p, q) \/ CallUnlink(p, q) \/ CallSend(p, q)
  BY <1>3, FewerLists DEF CallLink, CallUnlink, CallSend, procVars
<1>4. CASE CallMonitor(p, q)
  <2>1. PICK spawned \in BOOLEAN : Monitors(p, q, spawned)
    BY <1>4 DEF CallMonitor
  <2>2. Known(q)'
    BY <1>4 DEF CallMonitor, Onward
  <2>3. UNCHANGED <<links, monitors, monitoring, parent>>
    BY <1>4 DEF CallMonitor, procVars
  <2> QED
    BY <1>2, <2>1, <2>2, <2>3, MonitorsLists
<1>5. CASE CallSpawnAlone(p, q) \/ CallSpawnLink(p, q)
  BY <1>2, <1>5, SpawnLists
<1>6. CASE CallSpawnMonitor(p, q)
  <2>1. /\ Monitors(p, q, TRUE) /\ TRUE \in BOOLEAN /\ UNCHANGED <<links, monitors, monitoring>>
        /\ Known(q)'
        /\ \A x \in Procs : parent'[x] = parent[x]
             \/ (x = q /\ parent'[x] = [kind |-> "monitor", pid |-> p, ref |-> NextRef])
    BY <1>6 DEF CallSpawnMonitor, CallSpawn, TypeOK, Known
  <2>2. PICK spawned \in BOOLEAN : spawned /\ Monitors(p, q, spawned)
    BY <2>1
  <2> QED
    BY <1>2, <2>1, <2>2, MonitorsLists
<1> QED
  BY <1>3, <1>4, <1>5, <1>6

LEMMA StepLists ==
  ASSUME TypeOK, Control, Truthful, Next
  PROVE  SoundLists'
<1> USE StepOnward DEF Truthful
<1>1. CASE \E g \in Goroutines : Check(g) \/ Deposit(g)
  BY <1>1, FewerLists DEF Check, Deposit, procVars
<1>2. ASSUME NEW p \in Procs, NEW q \in Procs \ {p},
             \/ CallLink(p, q) \/ CallUnlink(p, q) \/ CallMonitor(p, q) \/ CallSend(p, q)
             \/ CallSpawnAlone(p, q) \/ CallSpawnLink(p, q) \/ CallSpawnMonitor(p, q)
      PROVE  SoundLists'
  BY <1>2, CallLists
<1>3. ASSUME NEW p \in Procs,
             \/ \E q \in Procs, why \in Reasons : CallExit(p, q, why)
             \/ \E r \in DOMAIN monitor : CallDemonitor(p, r)
             \/ CallTrapExit(p)
      PROVE  SoundLists'
  BY <1>3, FewerLists DEF CallExit, CallDemonitor, CallTrapExit, procVars
<1>4. ASSUME NEW p \in Procs, OnSignal(p) \/ DrainNext(p)
      PROVE  SoundLists'
  <2> DEFINE sig == Head(receive[p])
  <2>1. receive[p] # <<>>
    BY <1>4 DEF OnSignal, DrainNext
  <2>2. sig \in Signals /\ Sound(p, sig)
    BY <2>1, HeadSound
  <2>3. CASE OnBookkeeping(p, sig) \/ DrainNext(p)
    <3>1. Absorbs(p, sig) /\ UNCHANGED <<status, monitor, parent>>
      BY <2>3 DEF OnBookkeeping, DrainNext
    <3> HIDE DEF sig
    <3> QED
      BY <3>1, <2>2, AbsorbsLists
  <2>4. CASE OnMessage(p, sig) \/ OnDown(p, sig) \/ OnExitSurvived(p, sig) \/ OnExitFatal(p, sig)
    BY <2>4, FewerLists DEF OnMessage, OnDown, OnExitSurvived, OnExitFatal, procVars
  <2> QED
    BY <1>4, <2>3, <2>4 DEF OnSignal
<1>5. ASSUME NEW p \in Procs, Notify(p)
      PROVE  SoundLists'
  <2>1. /\ UNCHANGED <<monitor, parent>>
        /\ \A q \in Procs : /\ links'[q] \subseteq links[q] /\ monitors'[q] \subseteq monitors[q]
                            /\ monitoring'[q] \subseteq monitoring[q]
    <3>1. \/ \E q \in links[p] : NotifyLink(p, q)
          \/ \E m \in monitors[p] : NotifyMonitor(p, m)
          \/ \E e \in monitoring[p] : NotifyMonitored(p, e)
      BY <1>5 DEF Notify
    <3>2. UNCHANGED <<monitor, parent>>
      BY <1>5 DEF Notify
    <3>3. links \in [Procs -> SUBSET Procs] /\ monitors \in [Procs -> SUBSET Pid]
          /\ monitoring \in [Procs -> SUBSET Pid]
      BY DEF TypeOK
    <3>4. CASE \E q \in links[p] : NotifyLink(p, q)
      BY <3>2, <3>3, <3>4 DEF NotifyLink
    <3>5. CASE \E m \in monitors[p] : NotifyMonitor(p, m)
      BY <3>2, <3>3, <3>5 DEF NotifyMonitor
    <3>6. CASE \E e \in monitoring[p] : NotifyMonitored(p, e)
      BY <3>2, <3>3, <3>6 DEF NotifyMonitored
    <3> QED
      BY <3>1, <3>4, <3>5, <3>6
  <2> QED
    BY <2>1, FewerLists
<1>6. ASSUME NEW p \in Procs,
             \/ Start(p) \/ OnDone(p) \/ Drain(p) \/ DrainDone(p) \/ CloseMailbox(p)
             \/ EndExit(p) \/ Panic(p) \/ \E why \in Reasons : Return(p, why)
      PROVE  SoundLists'
  BY <1>6, FewerLists DEF Start, OnDone, Drain, DrainDone, CloseMailbox, EndExit, Panic, Return, procVars
<1> QED
  BY <1>1, <1>2, <1>3, <1>4, <1>5, <1>6, BootLists, Steps

\* History.
LEMMA StepHistory ==
  ASSUME TypeOK, Control, Truthful, Next
  PROVE  SoundHistory'
<1> USE DEF Truthful
<1>1. /\ DOMAIN monitor \subseteq DOMAIN monitor' /\ past \in Past
      /\ \A p \in Procs : Gone(p) => Gone(p)'
      /\ \A p \in Procs : closed[p] => closed'[p]
  BY StepOnward DEF Onward, TypeOK
<1>2. /\ \A l \in past.lost : closed[l.to] /\ l.to \in Procs
      /\ \A t \in past.told : Gone(t[2]) /\ t[2] \in Procs
      /\ past.demonitored \subseteq DOMAIN monitor /\ past.silenced \subseteq past.demonitored
  BY <1>1 DEF SoundHistory, Past
<1>3. ASSUME past'.lost = past.lost, past'.demonitored = past.demonitored,
             past'.silenced = past.silenced, past'.told = past.told
      PROVE  SoundHistory'
  BY <1>1, <1>2, <1>3 DEF SoundHistory, Gone
<1>4. ASSUME NEW g \in Goroutines, Deposit(g)
      PROVE  SoundHistory'
  <2> DEFINE l == Head(out[g])
  <2>1. out[g] # <<>> /\ l.checked
    BY <1>4 DEF Deposit
  <2>2. l.to \in Procs /\ l.sig \in Signals /\ Valid(g, l)
    BY <2>1, HeadLetter
  <2>3. From(g, l) /\ Sound(l.to, l.sig)
    BY <2>1, <2>2 DEF Valid, Void
  <2>4. /\ past' = [past EXCEPT !.lost = @ \cup (IF closed[l.to] THEN Loss(l) ELSE {}),
                               !.silenced = @ \cup Silenced(l)]
        /\ UNCHANGED <<status, closed, monitor>>
    BY <1>4 DEF Deposit
  <2>5. Silenced(l) \subseteq past.demonitored
    BY <2>3 DEF Silenced, From
  <2>6. \A x \in Loss(l) : x.to = l.to
    BY DEF Loss
  <2> HIDE DEF l
  <2>7. /\ past'.lost = past.lost \cup (IF closed[l.to] THEN Loss(l) ELSE {})
        /\ past'.silenced = past.silenced \cup Silenced(l)
        /\ past'.told = past.told /\ past'.demonitored = past.demonitored
    BY <1>1, <2>4 DEF Past
  <2> QED
    BY <1>2, <2>4, <2>5, <2>6, <2>7 DEF SoundHistory, Gone
<1>5. ASSUME NEW p \in Procs, NEW q \in Procs,
             \/ CallLink(p, q) \/ CallUnlink(p, q) \/ CallMonitor(p, q) \/ CallSend(p, q)
             \/ CallSpawnAlone(p, q) \/ CallSpawnLink(p, q) \/ CallSpawnMonitor(p, q)
             \/ (\E why \in Reasons : CallExit(p, q, why)) \/ CallTrapExit(p)
      PROVE  SoundHistory'
  <2>1. \/ past' = past \/ past' = [past EXCEPT !.unlinked = @ \cup {{p, q}}]
        \/ \E x : past' = [past EXCEPT !.killed = @ \cup x]
    BY <1>5 DEF CallLink, CallUnlink, CallMonitor, CallSend, CallExit, CallTrapExit, CallSpawnAlone,
      CallSpawnLink, CallSpawnMonitor, CallSpawn
  <2> QED
    BY <1>1, <1>3, <2>1 DEF Past
<1>6. ASSUME NEW p \in Procs, NEW r \in DOMAIN monitor, CallDemonitor(p, r)
      PROVE  SoundHistory'
  <2>1. /\ past'.lost = past.lost /\ past'.demonitored = past.demonitored \cup {r}
        /\ past'.silenced = past.silenced /\ past'.told = past.told
        /\ UNCHANGED <<status, closed, monitor>>
    BY <1>1, <1>6 DEF CallDemonitor, Past
  <2> QED
    BY <1>2, <2>1 DEF SoundHistory, Gone
<1>7. ASSUME NEW p \in Procs, OnSignal(p)
      PROVE  SoundHistory'
  <2> DEFINE sig == Head(receive[p])
  <2>1. receive[p] # <<>>
    BY <1>7 DEF OnSignal
  <2>2. sig \in Signals /\ Sound(p, sig)
    BY <2>1, HeadSound
  <2>3. CASE OnBookkeeping(p, sig) \/ OnMessage(p, sig) \/ OnDown(p, sig)
    BY <1>3, <2>3 DEF OnBookkeeping, OnMessage, OnDown
  <2>4. CASE OnExitSurvived(p, sig) \/ OnExitFatal(p, sig)
    <3>1. past' = Told(p, sig) /\ sig.type = "exit" /\ UNCHANGED <<closed, monitor>>
      BY <2>4 DEF OnExitSurvived, OnExitFatal
    <3>2. sig.link => Gone(sig.sender) /\ sig.sender \in Procs
      BY <2>2, <3>1, Shapes DEF Sound
    <3> HIDE DEF sig
    <3>3. /\ past'.lost = past.lost /\ past'.demonitored = past.demonitored
          /\ past'.silenced = past.silenced
          /\ \A t \in past'.told : t \in past.told \/ (sig.link /\ t = <<p, sig.sender>>)
      BY <1>1, <3>1 DEF Told, Past
    <3> QED
      BY <1>1, <1>2, <3>1, <3>2, <3>3 DEF SoundHistory
  <2> QED
    BY <1>7, <2>3, <2>4 DEF OnSignal
<1>8. ASSUME NEW p \in Procs, Drain(p)
      PROVE  SoundHistory'
  <2>1. past' = past \/ past' = [past EXCEPT !.lost = @ \cup Loss(Letter(p, Head(receive[p])))]
    BY <1>8 DEF Drain
  <2>2. \A x \in Loss(Letter(p, Head(receive[p]))) : x.to = p
    BY DEF Loss, Letter
  <2>3. /\ \A x \in past'.lost : x \in past.lost \/ x.to = p
        /\ past'.demonitored = past.demonitored /\ past'.silenced = past.silenced
        /\ past'.told = past.told
    BY <1>1, <2>1, <2>2 DEF Past
  <2>4. closed'[p] /\ UNCHANGED <<status, monitor>>
    BY <1>8 DEF Drain, TypeOK
  <2> QED
    BY <1>1, <1>2, <2>3, <2>4 DEF SoundHistory, Gone
<1>9. ASSUME NEW p \in Procs,
             \/ Boot(p) \/ Start(p) \/ OnDone(p) \/ DrainNext(p) \/ DrainDone(p) \/ Notify(p)
             \/ CloseMailbox(p) \/ EndExit(p) \/ Panic(p) \/ \E why \in Reasons : Return(p, why)
      PROVE  SoundHistory'
  <2>1. past' = past \/ past' = [past EXCEPT !.returned = @ \cup {p}]
    BY <1>9 DEF Boot, Start, OnDone, DrainNext, DrainDone, Notify, CloseMailbox, EndExit, Panic, Return
  <2> QED
    BY <1>1, <1>3, <2>1 DEF Past
<1>10. ASSUME NEW g \in Goroutines, Check(g)
       PROVE  SoundHistory'
  BY <1>3, <1>10 DEF Check
<1> QED
  BY <1>4, <1>5, <1>6, <1>7, <1>8, <1>9, <1>10, Steps

Base == TypeOK /\ Control /\ Truthful

\* Base, initially and by every step.
LEMMA InitBase == Init => Base
<1> SUFFICES ASSUME Init PROVE Base
  OBVIOUS
<1>1. \A S : <<>> \in Seq(S) /\ DOMAIN <<>> = {}
  OBVIOUS
<1>2. TypeOK
  <2>1. past \in Past
    BY DEF Init, Past
  <2>2. monitor \in Seq([owner : Procs, target : Procs, spawned : BOOLEAN]) /\ Len(monitor) <= MaxRefs
    BY <1>1, ProcessAssumption DEF Init
  <2>3. /\ out \in [Goroutines -> Seq(Letters)]
        /\ receive \in [Procs -> Seq(Signals)] /\ mailbox \in [Procs -> Seq(Signals)]
    BY <1>1 DEF Init
  <2>4. parent \in [Procs -> Parents]
    BY DEF Init, Parents
  <2> QED
    BY <2>1, <2>2, <2>3, <2>4, ProcessAssumption DEF TypeOK, Init
<1>3. Control
  BY Sides DEF Init, Control, Gone
<1>4. Truthful
  <2>1. SoundLetters /\ SoundInboxes
    BY <1>1 DEF Init, SoundLetters, SoundInboxes
  <2>2. SoundLists /\ SoundHistory
    BY <1>1 DEF Init, SoundLists, SoundHistory, NoParent
  <2> QED
    BY <2>1, <2>2 DEF Truthful
<1> QED
  BY <1>2, <1>3, <1>4 DEF Base

LEMMA StepBase == Base /\ [Next]_vars => Base'
<1> SUFFICES ASSUME Base, [Next]_vars PROVE Base'
  OBVIOUS
<1>1. CASE Next
  BY <1>1, StepTypes, StepControl, StepLetters, StepInboxes, StepLists, StepHistory DEF Base, Truthful
<1>2. CASE UNCHANGED vars
  <2>1. Onward
    BY <1>2 DEF Onward, Known, Gone, vars, procVars
  <2>2. SoundLetters' /\ SoundInboxes'
    BY <1>2, <2>1, SameLetters, SameInboxes DEF Base, Truthful, vars
  <2>3. SoundLists'
    BY <1>2, <2>1, FewerLists DEF Base, Truthful, vars, procVars
  <2>4. SoundHistory'
    BY <1>2 DEF Base, Truthful, SoundHistory, Gone, vars
  <2> QED
    BY <1>2, <2>2, <2>3, <2>4, StutterTypes, StutterControl DEF Base, Truthful
<1> QED
  BY <1>1, <1>2

LEMMA BaseInv == Base => Inv /\ DownIsTruthful
<1> SUFFICES ASSUME Base PROVE Inv /\ DownIsTruthful
  OBVIOUS
<1>1. ExitedIsOver
  BY DEF Base, Control, ExitedIsOver
<1>2. ASSUME NEW p \in Procs, NEW i \in DOMAIN mailbox[p], mailbox[p][i].type = "down"
      PROVE  LET d == mailbox[p][i] IN
               /\ status[d.proc] \in {"EXITING", "EXITED"}
               /\ d.reason \in {reason[d.proc], "noproc"}
               /\ monitor[d.ref].owner = p /\ monitor[d.ref].target = d.proc
  BY <1>2 DEF Base, Truthful, SoundInboxes, Sound, Gone, Owner, Target
<1> QED
  BY <1>1, <1>2 DEF Base, Inv, DownIsTruthful

-----------------------------------------------------------------------------
(* Messages before the DOWN signal.                                        *)

DownOf(sig, p) == sig.type = "down" /\ sig.proc = p

\* A Runnable that returned does not come back.
LEMMA StillReturned ==
  ASSUME Base, Orderly, Next, NEW p \in past.returned
  PROVE  rbl'[p] \in {"finished", "vanished"}
<1>1. p \in Procs /\ rbl[p] \in {"finished", "vanished"}
  BY DEF Base, TypeOK, Past, Orderly
<1>2. CASE rbl' = rbl
  BY <1>1, <1>2
<1>3. ASSUME NEW q \in Procs, Start(q) \/ OnDone(q) \/ EndExit(q) \/ Panic(q) \/ \E why \in Reasons : Return(q, why)
      PROVE  rbl'[p] \in {"finished", "vanished"}
  <2>1. pc[q] = "start" => rbl[q] = "none"
    BY DEF Base, Control
  <2> QED
    BY <1>1, <1>3, <2>1 DEF Base, TypeOK, Start, OnDone, EndExit, DoneReady, Panic, Return
<1>4. rbl' = rbl \/ \E q \in Procs : Start(q) \/ OnDone(q) \/ EndExit(q) \/ Panic(q) \/ \E why \in Reasons : Return(q, why)
  BY ZenonT(40), Steps DEF Check, Deposit, CallLink, CallUnlink, CallMonitor, CallSend, CallExit, CallDemonitor,
    CallTrapExit, CallSpawnAlone, CallSpawnLink, CallSpawnMonitor, CallSpawn, Boot, OnSignal,
    OnBookkeeping, OnMessage, OnDown, OnExitSurvived, OnExitFatal, Drain, DrainNext, DrainDone,
    Notify, CloseMailbox
<1> QED
  BY <1>2, <1>3, <1>4

\* Inboxes and mailboxes the same, or less; nobody returns.
LEMMA SameOrder ==
  ASSUME Base, Orderly, MessagesBeforeDown, past'.returned = past.returned,
         \A p \in past.returned : rbl'[p] \in {"finished", "vanished"},
         receive' = receive, \A q \in Procs : mailbox'[q] \in {mailbox[q], <<>>}
  PROVE  Orderly' /\ MessagesBeforeDown'
  BY DEF Orderly, MessagesBeforeDown

\* Messages and done values arrive in the order they were sent: each goroutine's letters are one queue.
LEMMA DepositOrder ==
  ASSUME Base, Orderly, MessagesBeforeDown, NEW g \in Goroutines, Deposit(g),
         \A p \in past.returned : rbl'[p] \in {"finished", "vanished"}
  PROVE  Orderly' /\ MessagesBeforeDown'
<1> DEFINE l == Head(out[g])
           q == l.to
           sig == l.sig
           n == Len(receive[q]) + 1
<1>1. out[g] # <<>>
  BY DEF Deposit
<1>2. q \in Procs /\ sig \in Signals /\ From(g, l)
  BY <1>1, HeadLetter DEF Base, Truthful, Valid
<1>3. /\ receive' = receive \/ receive' = [receive EXCEPT ![q] = Append(@, sig)]
      /\ UNCHANGED <<mailbox, rbl>> /\ past'.returned = past.returned /\ receive \in [Procs -> Seq(Signals)]
  BY DEF Deposit, Base, TypeOK, Past
<1>4. sig.type = "msg" => sig.sender \notin past.returned
  <2>1. sig.type = "msg" => g = Rbl(sig.sender) /\ sig.sender \in Procs
    BY <1>2, Shapes DEF From
  <2> QED
    BY <1>1, <2>1 DEF Base, Control, Orderly
<1> HIDE DEF l
<1>5. CASE receive' = receive
  BY <1>3, <1>5, SameOrder
<1>6. CASE receive' = [receive EXCEPT ![q] = Append(@, sig)]
  <2>1. /\ DOMAIN receive[q] = 1 .. Len(receive[q]) /\ Len(receive[q]) \in Nat
        /\ DOMAIN receive'[q] = 1 .. n /\ receive'[q][n] = sig
        /\ \A i \in DOMAIN receive[q] : receive'[q][i] = receive[q][i]
        /\ \A p \in Procs : p # q => receive'[p] = receive[p]
    BY <1>2, <1>3, <1>6, Added
  <2> HIDE DEF q, sig, n
  <2>2. ASSUME NEW i \in DOMAIN receive'[q], receive'[q][i].type = "msg",
               receive'[q][i].sender \in past.returned
        PROVE  i \in DOMAIN receive[q] /\ receive[q][i] = receive'[q][i]
    BY <1>4, <2>1, <2>2 DEF n
  <2>3. ASSUME NEW i \in DOMAIN receive'[q], receive'[q][i].type = "msg",
               receive'[q][i].sender \in past.returned
        PROVE  /\ \A j \in 1 .. i : receive'[q][j].type = "down" => receive'[q][j].proc # receive'[q][i].sender
               /\ \A j \in DOMAIN mailbox[q] : mailbox[q][j].type = "down" => mailbox[q][j].proc # receive'[q][i].sender
    <3>1. i \in DOMAIN receive[q] /\ receive[q][i] = receive'[q][i]
      BY <2>2, <2>3
    <3>2. \A j \in 1 .. i : j \in DOMAIN receive[q] /\ receive'[q][j] = receive[q][j]
      BY <3>1, <2>1
    <3> QED
      BY <1>2, <2>3, <3>1, <3>2 DEF Orderly, q
  <2>4. ASSUME NEW p \in Procs, p # q
        PROVE  receive'[p] = receive[p]
    BY <2>1, <2>4
  <2>5. ASSUME NEW x \in Procs, NEW i \in DOMAIN receive'[x], receive'[x][i].type = "msg",
               receive'[x][i].sender \in past.returned
        PROVE  /\ \A j \in 1 .. i : receive'[x][j].type = "down" => receive'[x][j].proc # receive'[x][i].sender
               /\ \A j \in DOMAIN mailbox[x] : mailbox[x][j].type = "down" => mailbox[x][j].proc # receive'[x][i].sender
    <3>1. CASE x = q
      BY <2>3, <2>5, <3>1
    <3>2. CASE x # q
      BY <2>4, <2>5, <3>2 DEF Orderly
    <3> QED
      BY <3>1, <3>2
  <2>6. Orderly'
    BY <1>3, <2>5 DEF Orderly
  <2> QED
    BY <1>3, <2>6 DEF MessagesBeforeDown
<1> QED
  BY <1>3, <1>5, <1>6

\* run takes them in the order they arrived.
LEMMA ReceiveOrder ==
  ASSUME Base, Orderly, MessagesBeforeDown, NEW p \in Procs, receive[p] # <<>>,
         receive' = [receive EXCEPT ![p] = Tail(@)], past'.returned = past.returned,
         mailbox' = mailbox \/ mailbox' = [mailbox EXCEPT ![p] = Append(@, Head(receive[p]))],
         \A q \in past.returned : rbl'[q] \in {"finished", "vanished"}
  PROVE  Orderly' /\ MessagesBeforeDown'
<1> DEFINE sig == Head(receive[p])
<1>1. /\ DOMAIN receive[p] = 1 .. Len(receive[p]) /\ Len(receive[p]) \in Nat \ {0}
      /\ DOMAIN receive'[p] = 1 .. Len(receive[p]) - 1 /\ sig = receive[p][1]
      /\ \A i \in DOMAIN receive'[p] : i + 1 \in DOMAIN receive[p] /\ receive'[p][i] = receive[p][i + 1]
      /\ \A q \in Procs : q # p => receive'[q] = receive[q]
  BY Taken, HeadSound DEF Base, Truthful
<1> HIDE DEF sig
<1>2. /\ DOMAIN mailbox[p] = 1 .. Len(mailbox[p]) /\ Len(mailbox[p]) \in Nat
      /\ \A i \in DOMAIN mailbox'[p] :
           \/ i \in DOMAIN mailbox[p] /\ mailbox'[p][i] = mailbox[p][i]
           \/ i = Len(mailbox[p]) + 1 /\ mailbox'[p][i] = sig
      /\ \A q \in Procs : q # p => mailbox'[q] = mailbox[q]
  <2>1. mailbox \in [Procs -> Seq(Signals)] /\ mailbox[p] \in Seq(Signals)
    BY DEF Base, TypeOK
  <2>2. DOMAIN mailbox[p] = 1 .. Len(mailbox[p]) /\ Len(mailbox[p]) \in Nat
    BY <2>1
  <2>3. CASE mailbox' = mailbox
    BY <2>2, <2>3
  <2>4. CASE mailbox' = [mailbox EXCEPT ![p] = Append(@, sig)]
    <3>1. /\ DOMAIN mailbox'[p] = 1 .. Len(mailbox[p]) + 1 /\ mailbox'[p][Len(mailbox[p]) + 1] = sig
          /\ \A i \in DOMAIN mailbox[p] : mailbox'[p][i] = mailbox[p][i]
          /\ \A q \in Procs : q # p => mailbox'[q] = mailbox[q]
      BY <2>1, <2>4, Added
    <3>2. \A i \in DOMAIN mailbox'[p] : i \in DOMAIN mailbox[p] \/ i = Len(mailbox[p]) + 1
      BY <2>2, <3>1
    <3> QED
      BY <2>2, <3>1, <3>2
  <2> QED
    BY <2>3, <2>4 DEF sig
<1>3. ASSUME NEW i \in DOMAIN receive'[p], receive'[p][i].type = "msg",
             receive'[p][i].sender \in past.returned
      PROVE  /\ \A j \in 1 .. i : receive'[p][j].type = "down" => receive'[p][j].proc # receive'[p][i].sender
             /\ \A j \in DOMAIN mailbox'[p] : mailbox'[p][j].type = "down" => mailbox'[p][j].proc # receive'[p][i].sender
  <2> DEFINE s == receive'[p][i].sender
  <2>1. i + 1 \in DOMAIN receive[p] /\ receive'[p][i] = receive[p][i + 1] /\ 1 \in 1 .. i + 1
    BY <1>1
  <2>2. /\ \A j \in 1 .. i + 1 : receive[p][j].type = "down" => receive[p][j].proc # s
        /\ \A j \in DOMAIN mailbox[p] : mailbox[p][j].type = "down" => mailbox[p][j].proc # s
    BY <1>3, <2>1 DEF Orderly
  <2>3. \A j \in 1 .. i : receive'[p][j] = receive[p][j + 1] /\ j + 1 \in 1 .. i + 1
    BY <1>1
  <2>4. sig.type = "down" => sig.proc # s
    BY <1>1, <2>1, <2>2
  <2> QED
    BY <1>2, <2>2, <2>3, <2>4
<1>4. Orderly'
  <2>1. ASSUME NEW x \in Procs, NEW i \in DOMAIN receive'[x], receive'[x][i].type = "msg",
               receive'[x][i].sender \in past.returned
        PROVE  /\ \A j \in 1 .. i : receive'[x][j].type = "down" => receive'[x][j].proc # receive'[x][i].sender
               /\ \A j \in DOMAIN mailbox'[x] : mailbox'[x][j].type = "down" => mailbox'[x][j].proc # receive'[x][i].sender
    <3>1. CASE x = p
      BY <1>3, <2>1, <3>1
    <3>2. CASE x # p
      BY <1>1, <1>2, <2>1, <3>2 DEF Orderly
    <3> QED
      BY <3>1, <3>2
  <2> QED
    BY <2>1 DEF Orderly
<1>5. ASSUME NEW i \in DOMAIN mailbox'[p], NEW j \in DOMAIN mailbox'[p], i < j,
             mailbox'[p][i].type = "down", mailbox'[p][j].type = "msg",
             mailbox'[p][i].proc = mailbox'[p][j].sender
      PROVE  mailbox'[p][j].sender \notin past.returned
  <2>1. i \in DOMAIN mailbox[p] /\ mailbox'[p][i] = mailbox[p][i]
    BY <1>2, <1>5
  <2>2. CASE j \in DOMAIN mailbox[p] /\ mailbox'[p][j] = mailbox[p][j]
    BY <1>5, <2>1, <2>2 DEF MessagesBeforeDown
  <2>3. CASE mailbox'[p][j] = sig
    <3>1. 1 \in DOMAIN receive[p] /\ receive[p][1].type = "msg"
      BY <1>1, <1>5, <2>3
    <3>2. receive[p][1].sender \in past.returned => mailbox[p][i].proc # receive[p][1].sender
      BY <1>5, <2>1, <3>1 DEF Orderly
    <3> QED
      BY <1>1, <1>5, <2>1, <2>3, <3>2
  <2> QED
    BY <1>2, <2>2, <2>3
<1>6. MessagesBeforeDown'
  BY <1>2, <1>5 DEF MessagesBeforeDown
<1> QED
  BY <1>4, <1>6

\* A process reads done only when its Runnable's letters are in the inboxes.
LEMMA OnDoneOrder ==
  ASSUME Base, Orderly, MessagesBeforeDown, NEW p \in Procs, OnDone(p),
         \A q \in past.returned : rbl'[q] \in {"finished", "vanished"}
  PROVE  Orderly' /\ MessagesBeforeDown'
<1>1. /\ past'.returned = past.returned \cup {p} /\ rbl'[p] \in {"finished", "vanished"}
      /\ UNCHANGED <<receive, mailbox>> /\ status[p] = "RUNNING"
  BY DEF Base, TypeOK, Past, Control, OnDone
<1>2. \A q \in Procs : /\ \A i \in DOMAIN receive[q] : receive[q][i].type = "down" => receive[q][i].proc # p
                       /\ \A i \in DOMAIN mailbox[q] : mailbox[q][i].type = "down" => mailbox[q][i].proc # p
  BY <1>1 DEF Base, Truthful, SoundInboxes, Sound, Gone
<1>3. \A q \in Procs : \A i \in DOMAIN receive[q] : 1 .. i \subseteq DOMAIN receive[q]
  BY DEF Base, TypeOK
<1>4. Orderly'
  BY <1>1, <1>2, <1>3 DEF Orderly
<1> QED
  BY <1>1, <1>2, <1>4 DEF MessagesBeforeDown

LEMMA StepOrder ==
  ASSUME Base, Orderly, MessagesBeforeDown, Next
  PROVE  Orderly' /\ MessagesBeforeDown'
<1>1. \A p \in past.returned : rbl'[p] \in {"finished", "vanished"}
  BY StillReturned
<1>2. ASSUME past'.returned = past.returned, receive' = receive, mailbox' = mailbox
      PROVE  Orderly' /\ MessagesBeforeDown'
  BY <1>1, <1>2, SameOrder
<1>3. past \in Past
  BY DEF Base, TypeOK
<1>4. CASE \E g \in Goroutines : Check(g) \/ Deposit(g)
  BY <1>1, <1>2, <1>4, DepositOrder DEF Check
<1>5. ASSUME NEW p \in Procs, NEW q \in Procs,
             \/ CallLink(p, q) \/ CallUnlink(p, q) \/ CallMonitor(p, q) \/ CallSend(p, q)
             \/ CallSpawnAlone(p, q) \/ CallSpawnLink(p, q) \/ CallSpawnMonitor(p, q)
             \/ (\E why \in Reasons : CallExit(p, q, why)) \/ CallTrapExit(p)
             \/ \E r \in DOMAIN monitor : CallDemonitor(p, r)
      PROVE  Orderly' /\ MessagesBeforeDown'
  <2>1. past'.returned = past.returned
    BY <1>3, <1>5 DEF Past, CallLink, CallUnlink, CallMonitor, CallSend, CallExit, CallDemonitor,
      CallTrapExit, CallSpawnAlone, CallSpawnLink, CallSpawnMonitor, CallSpawn
  <2>2. receive' = receive /\ mailbox' = mailbox
    BY <1>5 DEF CallLink, CallUnlink, CallMonitor, CallSend, CallExit, CallDemonitor,
      CallTrapExit, CallSpawnAlone, CallSpawnLink, CallSpawnMonitor, CallSpawn
  <2> QED
    BY <1>2, <2>1, <2>2
<1>6. ASSUME NEW p \in Procs, OnSignal(p)
      PROVE  Orderly' /\ MessagesBeforeDown'
  <2> DEFINE sig == Head(receive[p])
  <2>1. /\ receive[p] # <<>> /\ receive' = [receive EXCEPT ![p] = Tail(@)]
        /\ mailbox' = mailbox \/ mailbox' = [mailbox EXCEPT ![p] = Append(@, sig)]
        /\ past' = past \/ past' = Told(p, sig)
    BY <1>6 DEF OnSignal, OnBookkeeping, OnMessage, OnDown, OnExitSurvived, OnExitFatal, Receive
  <2>2. past'.returned = past.returned
    BY <1>3, <2>1 DEF Told, Past
  <2> QED
    BY <1>1, <2>1, <2>2, ReceiveOrder
<1>7. ASSUME NEW p \in Procs, Drain(p) \/ DrainNext(p)
      PROVE  Orderly' /\ MessagesBeforeDown'
  <2>1. past'.returned = past.returned /\ mailbox' = mailbox
    BY <1>3, <1>7 DEF Drain, DrainNext, Past
  <2>2. receive' = receive \/ (receive[p] # <<>> /\ receive' = [receive EXCEPT ![p] = Tail(@)])
    BY <1>7 DEF Drain, DrainNext
  <2> QED
    BY <1>1, <1>2, <2>1, <2>2, ReceiveOrder
<1>8. ASSUME NEW p \in Procs,
             \/ Boot(p) \/ Start(p) \/ DrainDone(p) \/ Notify(p) \/ CloseMailbox(p)
             \/ EndExit(p) \/ Panic(p) \/ \E why \in Reasons : Return(p, why)
      PROVE  Orderly' /\ MessagesBeforeDown'
  <2>1. past' = past /\ receive' = receive
    BY <1>8 DEF Boot, Start, DrainDone, Notify, CloseMailbox, EndExit, Panic, Return
  <2>2. \A q \in Procs : mailbox'[q] \in {mailbox[q], <<>>}
    BY <1>8 DEF Base, TypeOK, Boot, Start, DrainDone, Notify, CloseMailbox, EndExit, Panic, Return
  <2> QED
    BY <1>1, <2>1, <2>2, SameOrder
<1> QED
  BY <1>1, <1>4, <1>5, <1>6, <1>7, <1>8, OnDoneOrder, Steps

-----------------------------------------------------------------------------
(* The way of a signal.                                                    *)

\* g's next letter is `sig' for q.
Leads(g, q, sig) == out[g] # <<>> /\ Head(out[g]).to = q /\ Head(out[g]).sig = sig

\* A step does one of four things to the letters.
LEMMA OutSteps ==
  ASSUME TypeOK, Control, Next
  PROVE  \/ out' = out
         \/ \E g \in Goroutines : out[g] # <<>> /\ SentOne(g) /\ (Deposit(g) \/ Check(g))
         \/ \E g \in Goroutines : Check(g) /\ \E l : SendsOn(g, l)
         \/ \E g \in Goroutines : \E ls : out[g] = <<>> /\ out' = [out EXCEPT ![g] = ls]
<1>1. ASSUME NEW g \in Goroutines, Check(g) \/ Deposit(g)
      PROVE  \/ out[g] # <<>> /\ SentOne(g)
             \/ Check(g) /\ \E l : SendsOn(g, l)
  BY <1>1 DEF Check, Deposit, ToSend
<1>2. ASSUME NEW p \in Procs, NEW q \in Procs,
             \/ CallLink(p, q) \/ CallUnlink(p, q) \/ CallMonitor(p, q) \/ CallSend(p, q)
             \/ CallSpawnAlone(p, q) \/ CallSpawnLink(p, q) \/ CallSpawnMonitor(p, q)
             \/ (\E why \in Reasons : CallExit(p, q, why)) \/ CallTrapExit(p)
             \/ \E r \in DOMAIN monitor : CallDemonitor(p, r)
      PROVE  \E ls : out[Rbl(p)] = <<>> /\ out' = [out EXCEPT ![Rbl(p)] = ls]
  BY <1>2 DEF CallLink, CallUnlink, CallMonitor, CallSend, CallExit, CallDemonitor,
    CallTrapExit, CallSpawnAlone, CallSpawnLink, CallSpawnMonitor, CallSpawn, Call
<1>3. ASSUME NEW p \in Procs, Boot(p) \/ OnSignal(p) \/ DrainNext(p) \/ Notify(p)
      PROVE  \/ out' = out
             \/ \E ls : out[Run(p)] = <<>> /\ out' = [out EXCEPT ![Run(p)] = ls]
  <2>1. pc[p] = "boot" => out[Run(p)] = <<>>
    BY DEF Control
  <2>2. CASE Boot(p)
    BY <2>1, <2>2 DEF Boot
  <2>3. CASE OnSignal(p)
    BY <2>3 DEF OnSignal, OnBookkeeping, OnMessage, OnDown, OnExitSurvived, OnExitFatal, Receive, Absorbs
  <2>4. CASE DrainNext(p)
    BY <2>4 DEF DrainNext, Absorbs
  <2>5. CASE Notify(p)
    BY <2>5 DEF Notify, NotifyLink, NotifyMonitor, NotifyMonitored
  <2> QED
    BY <1>3, <2>2, <2>3, <2>4, <2>5
<1>4. ASSUME NEW p \in Procs,
             \/ Start(p) \/ OnDone(p) \/ Drain(p) \/ DrainDone(p) \/ CloseMailbox(p)
             \/ EndExit(p) \/ Panic(p) \/ \E why \in Reasons : Return(p, why)
      PROVE  out' = out
  BY <1>4 DEF Start, OnDone, Drain, DrainDone, CloseMailbox, EndExit, Panic, Return
<1>5. \A p \in Procs : Run(p) \in Goroutines /\ Rbl(p) \in Goroutines
  BY Sides
<1> QED
  BY <1>1, <1>2, <1>3, <1>4, <1>5, Steps

\* A posted signal stays until its sender comes to it.
LEMMA PostedStays ==
  ASSUME TypeOK, Control, Next, NEW q \in Procs, NEW sig, Posted(q, sig)
  PROVE  \/ Posted(q, sig)'
         \/ \E g \in Goroutines : Leads(g, q, sig) /\ (Deposit(g) \/ Check(g))
<1>1. PICK h \in Goroutines : \E i \in DOMAIN out[h] : out[h][i].to = q /\ out[h][i].sig = sig
  BY DEF Posted
<1>2. PICK i \in DOMAIN out[h] : out[h][i].to = q /\ out[h][i].sig = sig
  BY <1>1
<1>3. CASE out' = out
  BY <1>2, <1>3 DEF Posted
<1>4. ASSUME NEW g \in Goroutines, out[g] # <<>>, SentOne(g), Deposit(g) \/ Check(g)
      PROVE  Posted(q, sig)' \/ (Leads(g, q, sig) /\ (Deposit(g) \/ Check(g)))
  <2>1. /\ Head(out[g]) = out[g][1]
        /\ \A j \in DOMAIN out[g] : j # 1 => j - 1 \in DOMAIN out'[g] /\ out'[g][j - 1] = out[g][j]
        /\ \A x \in Goroutines : x # g => out'[x] = out[x]
    BY <1>4, OneSent
  <2> QED
    BY <1>2, <1>4, <2>1 DEF Posted, Leads
<1>5. ASSUME NEW g \in Goroutines, Check(g), NEW l, SendsOn(g, l)
      PROVE  Posted(q, sig)' \/ (Leads(g, q, sig) /\ Check(g))
  <2>1. out[g] # <<>>
    BY <1>5 DEF Check, ToSend
  <2>2. /\ Head(out[g]) = out[g][1] /\ DOMAIN out'[g] = DOMAIN out[g]
        /\ \A j \in DOMAIN out[g] : j # 1 => out'[g][j] = out[g][j]
        /\ \A x \in Goroutines : x # g => out'[x] = out[x]
    BY <1>5, <2>1, OneSwapped
  <2> QED
    BY <1>2, <1>5, <2>1, <2>2 DEF Posted, Leads
<1>6. ASSUME NEW g \in Goroutines, NEW ls, out[g] = <<>>, out' = [out EXCEPT ![g] = ls]
      PROVE  Posted(q, sig)'
  <2>1. \A x \in Goroutines : x # g => out'[x] = out[x]
    BY <1>6, NewPut
  <2>2. h # g
    BY <1>2, <1>6
  <2> QED
    BY <1>2, <2>1, <2>2 DEF Posted
<1> QED
  BY <1>3, <1>4, <1>5, <1>6, OutSteps

\* What the sender then does with it.
LEMMA SenderActs ==
  ASSUME Base, NEW g \in Goroutines, NEW q \in Procs, NEW sig \in Signals, Leads(g, q, sig),
         Deposit(g) \/ Check(g)
  PROVE  \/ Posted(q, sig)'
         \/ Waiting(q, sig)'
         \/ closed[q] /\ (sig.type \in {"link", "monitor"} => [to |-> q, sig |-> sig] \in past'.lost)
         \/ /\ status[q] # "RUNNING"
            /\ sig.type = "link" => Posted(sig.pid, ExitSig(q, "noproc", TRUE))'
            /\ sig.type = "monitor" => Posted(sig.monitor, DownSig(q, sig.ref, "noproc"))'
<1> DEFINE l == Head(out[g])
<1>1. out[g] # <<>> /\ l.to = q /\ l.sig = sig /\ l \in Letters
  BY HeadLetter DEF Leads, Base, Truthful
<1>2. CASE Deposit(g)
  <2>1. CASE closed[q]
    <3>1. \E y : past' = [past EXCEPT !.lost = @ \cup Loss(l), !.silenced = @ \cup y]
      BY <1>1, <1>2, <2>1 DEF Deposit
    <3>2. past'.lost = past.lost \cup Loss(l)
      BY <3>1 DEF Base, TypeOK, Past
    <3> QED
      BY <1>1, <2>1, <3>2 DEF Loss, Matters
  <2>2. CASE ~closed[q]
    <3>1. receive' = [receive EXCEPT ![q] = Append(@, sig)] /\ receive \in [Procs -> Seq(Signals)]
      BY <1>1, <1>2, <2>2 DEF Deposit, Base, TypeOK
    <3>2. /\ DOMAIN receive'[q] = 1 .. Len(receive[q]) + 1 /\ Len(receive[q]) \in Nat
          /\ receive'[q][Len(receive[q]) + 1] = sig
      BY <3>1, Added
    <3>3. Len(receive[q]) + 1 \in DOMAIN receive'[q]
      BY <3>2
    <3> QED
      BY <3>2, <3>3 DEF Waiting
  <2> QED
    BY <2>1, <2>2
<1>3. CASE Check(g)
  <2> DEFINE Swapped(k) == out'[g][1] = k /\ 1 \in DOMAIN out'[g]
  <2>1. \A k : SendsOn(g, k) => Swapped(k)
    BY <1>1, OneSwapped DEF Base
  <2>2. CASE SendsOn(g, [l EXCEPT !.checked = TRUE])
    <3>1. PICK k : k = [l EXCEPT !.checked = TRUE]
      OBVIOUS
    <3>2. k.to = q /\ k.sig = sig
      BY <1>1, <3>1 DEF Letters
    <3>3. Swapped(k)
      BY <2>1, <2>2, <3>1
    <3> QED
      BY <3>2, <3>3 DEF Posted
  <2>3. CASE status[q] # "RUNNING" /\ Answered(l) /\ SendsOn(g, DeadReply(l))
    <3>1. PICK k : k = DeadReply(l)
      OBVIOUS
    <3>2. Swapped(k)
      BY <2>1, <2>3, <3>1
    <3>3. /\ sig.type = "link" => k.to = sig.pid /\ k.sig = ExitSig(q, "noproc", TRUE)
          /\ sig.type = "monitor" => k.to = sig.monitor /\ k.sig = DownSig(q, sig.ref, "noproc")
      BY <1>1, <3>1 DEF DeadReply, Letter
    <3> QED
      BY <2>3, <3>2, <3>3 DEF Posted
  <2>4. CASE status[q] # "RUNNING" /\ ~Answered(l)
    BY <1>1, <2>4 DEF Answered
  <2> QED
    BY <1>1, <1>3, <2>2, <2>3, <2>4 DEF Check
<1> QED
  BY <1>2, <1>3

\* A step does one of three things to the inboxes.
LEMMA InboxSteps ==
  ASSUME Next
  PROVE  \/ receive' = receive
         \/ \E g \in Goroutines : Deposit(g)
         \/ \E p \in Procs : /\ receive[p] # <<>> /\ receive' = [receive EXCEPT ![p] = Tail(@)]
                             /\ OnSignal(p) \/ Drain(p) \/ DrainNext(p)
<1>1. ASSUME NEW p \in Procs, OnSignal(p) \/ Drain(p) \/ DrainNext(p)
      PROVE  \/ receive' = receive
             \/ receive[p] # <<>> /\ receive' = [receive EXCEPT ![p] = Tail(@)]
  BY <1>1 DEF OnSignal, OnBookkeeping, OnMessage, OnDown, OnExitSurvived, OnExitFatal, Receive, Drain, DrainNext
<1>2. ASSUME \/ \E g \in Goroutines : Check(g)
             \/ \E p \in Procs :
                  \/ \E q2 \in Procs \ {p} :
                       \/ CallLink(p, q2) \/ CallUnlink(p, q2) \/ CallMonitor(p, q2) \/ CallSend(p, q2)
                       \/ CallSpawnAlone(p, q2) \/ CallSpawnLink(p, q2) \/ CallSpawnMonitor(p, q2)
                  \/ \E q2 \in Procs, why \in Reasons : CallExit(p, q2, why)
                  \/ \E r \in DOMAIN monitor : CallDemonitor(p, r)
                  \/ CallTrapExit(p)
                  \/ Boot(p) \/ Start(p) \/ OnDone(p) \/ DrainDone(p) \/ Notify(p) \/ CloseMailbox(p)
                  \/ EndExit(p) \/ Panic(p)
                  \/ \E why \in Reasons : Return(p, why)
      PROVE  receive' = receive
  BY ZenonT(40), <1>2 DEF Check, CallLink, CallUnlink, CallMonitor, CallSend, CallExit, CallDemonitor,
    CallTrapExit, CallSpawnAlone, CallSpawnLink, CallSpawnMonitor, CallSpawn, Boot, Start, OnDone,
    DrainDone, Notify, CloseMailbox, EndExit, Panic, Return
<1> QED
  BY <1>1, <1>2, Steps

\* A waiting signal stays until the process comes to it.
LEMMA WaitingStays ==
  ASSUME TypeOK, Next, NEW q \in Procs, NEW sig, Waiting(q, sig)
  PROVE  \/ Waiting(q, sig)'
         \/ /\ receive[q] # <<>> /\ Head(receive[q]) = sig
            /\ receive' = [receive EXCEPT ![q] = Tail(@)]
            /\ OnSignal(q) \/ Drain(q) \/ DrainNext(q)
<1>1. PICK i \in DOMAIN receive[q] : receive[q][i] = sig
  BY DEF Waiting
<1>2. CASE receive' = receive
  BY <1>1, <1>2 DEF Waiting
<1>3. ASSUME NEW p \in Procs, receive[p] # <<>>, receive' = [receive EXCEPT ![p] = Tail(@)],
             OnSignal(p) \/ Drain(p) \/ DrainNext(p)
      PROVE  Waiting(q, sig)' \/ (p = q /\ Head(receive[q]) = sig)
  <2>1. /\ \A j \in DOMAIN receive[p] : j # 1 => j - 1 \in DOMAIN receive'[p] /\ receive'[p][j - 1] = receive[p][j]
        /\ \A x \in Procs : x # p => receive'[x] = receive[x]
    BY <1>3, Taken
  <2>2. Head(receive[p]) = receive[p][1]
    <3>1. receive[p] \in Seq(Signals)
      BY DEF TypeOK
    <3> QED
      BY <1>3, <3>1
  <2> QED
    BY <1>1, <2>1, <2>2 DEF Waiting
<1>4. ASSUME NEW g \in Goroutines, Deposit(g)
      PROVE  Waiting(q, sig)'
  <2> DEFINE l == Head(out[g])
  <2>1. l.to \in Procs /\ receive \in [Procs -> Seq(Signals)]
    <3>1. out[g] \in Seq(Letters) /\ out[g] # <<>>
      BY <1>4 DEF TypeOK, Deposit
    <3>2. l \in Letters
      BY <3>1
    <3> QED
      BY <3>2 DEF Letters, TypeOK
  <2>2. receive' = receive \/ receive' = [receive EXCEPT ![l.to] = Append(@, l.sig)]
    BY <1>4 DEF Deposit
  <2> HIDE DEF l
  <2>3. ASSUME receive' = [receive EXCEPT ![l.to] = Append(@, l.sig)]
        PROVE  /\ DOMAIN receive[l.to] \subseteq DOMAIN receive'[l.to]
               /\ \A j \in DOMAIN receive[l.to] : receive'[l.to][j] = receive[l.to][j]
               /\ \A x \in Procs : x # l.to => receive'[x] = receive[x]
    <3>1. PICK t \in Procs : t = l.to
      BY <2>1
    <3>2. /\ DOMAIN receive[t] = 1 .. Len(receive[t]) /\ Len(receive[t]) \in Nat
          /\ DOMAIN receive'[t] = 1 .. Len(receive[t]) + 1
          /\ \A j \in DOMAIN receive[t] : receive'[t][j] = receive[t][j]
          /\ \A x \in Procs : x # t => receive'[x] = receive[x]
      BY <2>1, <2>3, <3>1, Added
    <3> QED
      BY <3>1, <3>2
  <2> QED
    BY <1>1, <1>2, <2>2, <2>3 DEF Waiting
<1> QED
  BY <1>2, <1>3, <1>4, InboxSteps

-----------------------------------------------------------------------------
(* Links.                                                                  *)

\* Whatever is on its way to q arrives, or q takes it, or it is lost.
LEMMA UnderwayStays ==
  ASSUME Base, Next, NEW q \in Procs, NEW sig \in Signals, Underway(q, sig)
  PROVE  \/ Underway(q, sig)'
         \/ closed[q] /\ (sig.type \in {"link", "monitor"} => [to |-> q, sig |-> sig] \in past'.lost)
         \/ /\ status[q] # "RUNNING"
            /\ sig.type = "link" => Posted(sig.pid, ExitSig(q, "noproc", TRUE))'
            /\ sig.type = "monitor" => Posted(sig.monitor, DownSig(q, sig.ref, "noproc"))'
         \/ /\ receive[q] # <<>> /\ Head(receive[q]) = sig
            /\ receive' = [receive EXCEPT ![q] = Tail(@)]
            /\ OnSignal(q) \/ Drain(q) \/ DrainNext(q)
<1>1. TypeOK /\ Control
  BY DEF Base
<1>2. CASE Posted(q, sig)
  BY <1>1, <1>2, PostedStays, SenderActs DEF Underway
<1>3. CASE Waiting(q, sig)
  BY <1>1, <1>3, WaitingStays DEF Underway
<1> QED
  BY <1>2, <1>3 DEF Underway

\* What Drain may lose.
LEMMA DrainLoses ==
  ASSUME TypeOK, NEW q \in Procs, Drain(q), receive[q] # <<>>,
         receive' = [receive EXCEPT ![q] = Tail(@)],
         Head(receive[q]).type \in {"link", "monitor"}
  PROVE  [to |-> q, sig |-> Head(receive[q])] \in past'.lost
<1>1. receive' # receive
  <2>1. /\ DOMAIN receive[q] = 1 .. Len(receive[q]) /\ Len(receive[q]) \in Nat \ {0}
        /\ DOMAIN receive'[q] = 1 .. Len(receive[q]) - 1
    BY Taken
  <2>2. Len(receive[q]) \in DOMAIN receive[q] /\ Len(receive[q]) \notin DOMAIN receive'[q]
    BY <2>1
  <2> QED
    BY <2>2
<1>2. past' = [past EXCEPT !.lost = @ \cup Loss(Letter(q, Head(receive[q])))]
  BY <1>1 DEF Drain
<1>3. past'.lost = past.lost \cup Loss(Letter(q, Head(receive[q])))
  BY <1>2 DEF TypeOK, Past
<1> QED
  BY <1>3 DEF Loss, Matters, Letter

\* A letter that a step writes is on its way.
LEMMA PutPosted ==
  ASSUME TypeOK, NEW g \in Goroutines, NEW ls, out' = [out EXCEPT ![g] = ls],
         NEW i \in DOMAIN ls, NEW q, NEW sig, ls[i].to = q, ls[i].sig = sig
  PROVE  Posted(q, sig)'
  BY NewPut DEF Posted

\* A link that somebody has, somebody keeps.
LEMMA TiedStays ==
  ASSUME Base, Next, NEW p \in Procs, NEW q \in Procs, {p, q} \notin past'.unlinked, Tied(p, q)
  PROVE  Tied(p, q)'
<1>1. Onward /\ TypeOK /\ Control /\ {p, q} \notin past.unlinked
  BY StepOnward DEF Base, Onward
<1>2. CASE Gone(p) \/ <<p, q>> \in past.told \/ [to |-> q, sig |-> LinkSig(p)] \in past.lost
  BY <1>1, <1>2 DEF Onward, Tied
<1>3. CASE p \in links[q]
  <2>1. CASE links' = links
    BY <1>3, <2>1 DEF Tied
  <2>2. ASSUME NEW x \in Procs, NEW sig \in Signals, Absorbs(x, sig), Sound(x, sig)
        PROVE  p \in links'[q]
    <3>1. links'[q] = links[q] \/ (x = q /\ links'[q] = Absorb(x, sig).links)
      BY <2>2, <1>1 DEF Absorbs, TypeOK
    <3>2. x = q => p \in Absorb(x, sig).links
      <4>1. sig.type = "unlink" => {x, sig.pid} \in past.unlinked
        BY <2>2 DEF Sound
      <4>2. x = q /\ sig.type = "unlink" => sig.pid # p
        <5>1. {q, p} = {p, q}
          OBVIOUS
        <5> QED
          BY <1>1, <4>1, <5>1
      <4> QED
        BY <1>3, <4>2 DEF Absorb, AfterLink, AfterUnlink, AfterMonitor, AfterDemonitor, Local
    <3> QED
      BY <1>3, <3>1, <3>2
  <2>3. ASSUME NEW x \in Procs, OnSignal(x) \/ DrainNext(x)
        PROVE  p \in links'[q]
    <3> DEFINE sig == Head(receive[x])
    <3>1. receive[x] # <<>>
      BY <2>3 DEF OnSignal, DrainNext
    <3>2. sig \in Signals /\ Sound(x, sig)
      BY <3>1, <1>1, HeadSound DEF Base, Truthful
    <3>3. links' = links \/ Absorbs(x, sig)
      BY <2>3 DEF OnSignal, OnBookkeeping, OnMessage, OnDown, OnExitSurvived, OnExitFatal, DrainNext, procVars
    <3> QED
      BY <1>3, <2>2, <3>2, <3>3
  <2>4. ASSUME NEW x \in Procs, Boot(x)
        PROVE  p \in links'[q]
    <3>1. links[x] = {}
      BY <2>4 DEF Boot, Base, Control
    <3> QED
      BY <1>1, <1>3, <2>4, <3>1 DEF Boot, TypeOK
  <2>5. ASSUME NEW x \in Procs, Notify(x)
        PROVE  Tied(p, q)'
    <3>1. CASE p \in links'[q]
      BY <3>1 DEF Tied
    <3>2. CASE p \notin links'[q]
      <4>1. x = q /\ NotifyLink(q, p)
        <5>1. links' # links
          BY <1>3, <3>2
        <5>2. PICK y \in links[x] : NotifyLink(x, y)
          BY <2>5, <5>1 DEF Notify, NotifyMonitor, NotifyMonitored
        <5>3. x = q /\ y = p
          BY <1>1, <1>3, <3>2, <5>2 DEF NotifyLink, TypeOK
        <5> QED
          BY <5>2, <5>3
      <4>2. reason[q] \in ExitReasons
        BY <1>1, <2>5, <4>1 DEF Notify, Control, TypeOK, Gone
      <4>3. PICK why \in ExitReasons : why = reason[q]
        BY <4>2
      <4>4. PICK l, ls : /\ l = Letter(p, ExitSig(q, why, TRUE)) /\ ls = <<l>>
                         /\ out' = [out EXCEPT ![Run(q)] = ls]
        BY <4>1, <4>3 DEF NotifyLink
      <4>5. 1 \in DOMAIN ls /\ ls[1] = l /\ l.to = p /\ l.sig = ExitSig(q, why, TRUE)
        BY <4>4 DEF Letter
      <4>6. Posted(p, ExitSig(q, why, TRUE))'
        BY <1>1, <4>4, <4>5, PutPosted, Sides
      <4> QED
        BY <4>6 DEF Tied, Underway
    <3> QED
      BY <3>1, <3>2
  <2>6. ASSUME \/ \E g \in Goroutines : Check(g) \/ Deposit(g)
               \/ \E x \in Procs :
                    \/ \E y \in Procs \ {x} :
                         \/ CallLink(x, y) \/ CallUnlink(x, y) \/ CallMonitor(x, y) \/ CallSend(x, y)
                         \/ CallSpawnAlone(x, y) \/ CallSpawnLink(x, y) \/ CallSpawnMonitor(x, y)
                    \/ \E y \in Procs, why \in Reasons : CallExit(x, y, why)
                    \/ \E r \in DOMAIN monitor : CallDemonitor(x, r)
                    \/ CallTrapExit(x)
                    \/ Start(x) \/ OnDone(x) \/ Drain(x) \/ DrainDone(x) \/ CloseMailbox(x)
                    \/ EndExit(x) \/ Panic(x)
                    \/ \E why \in Reasons : Return(x, why)
        PROVE  links' = links
    BY ZenonT(40), <2>6 DEF Check, Deposit, CallLink, CallUnlink, CallMonitor, CallSend, CallExit, CallDemonitor,
      CallTrapExit, CallSpawnAlone, CallSpawnLink, CallSpawnMonitor, CallSpawn, Start, OnDone, Drain,
      DrainDone, CloseMailbox, EndExit, Panic, Return, procVars
  <2>7. p \in links'[q] => Tied(p, q)'
    BY DEF Tied
  <2> QED
    BY <2>1, <2>3, <2>4, <2>5, <2>6, <2>7, Steps
<1>4. CASE Underway(q, LinkSig(p))
  <2> DEFINE sig == LinkSig(p)
  <2>1. sig \in Signals /\ sig.type = "link" /\ sig.pid = p
    BY Constructed DEF LinkSig
  <2>2. CASE Underway(q, sig)' \/ [to |-> q, sig |-> sig] \in past'.lost
    BY <2>2 DEF Tied
  <2>3. CASE Posted(p, ExitSig(q, "noproc", TRUE))'
    BY <2>3 DEF Tied, Underway, ExitReasons
  <2>4. CASE /\ receive[q] # <<>> /\ Head(receive[q]) = sig
             /\ receive' = [receive EXCEPT ![q] = Tail(@)]
             /\ OnSignal(q) \/ Drain(q) \/ DrainNext(q)
    <3>1. CASE Drain(q)
      <4>1. [to |-> q, sig |-> sig] \in past'.lost
        BY <1>1, <2>1, <2>4, <3>1, DrainLoses
      <4> QED
        BY <4>1 DEF Tied
    <3>2. CASE OnSignal(q) \/ DrainNext(q)
      <4>1. Absorbs(q, sig)
        BY <2>1, <2>4, <3>2 DEF OnSignal, OnBookkeeping, OnMessage, OnDown, OnExitSurvived, OnExitFatal, DrainNext
      <4>2. p \in Absorb(q, sig).links
        BY <2>1 DEF Absorb, AfterLink, Local
      <4>3. p \in links'[q]
        BY <1>1, <4>1, <4>2 DEF Absorbs, TypeOK
      <4> QED
        BY <4>3 DEF Tied
    <3> QED
      BY <2>4, <3>1, <3>2
  <2> HIDE DEF sig
  <2> QED
    BY <1>4, <2>1, <2>2, <2>3, <2>4, UnderwayStays DEF sig
<1>5. ASSUME NEW why \in ExitReasons, Underway(p, ExitSig(q, why, TRUE))
      PROVE  Tied(p, q)'
  <2> DEFINE sig == ExitSig(q, why, TRUE)
  <2>1. sig \in Signals /\ sig.type = "exit" /\ sig.link /\ sig.sender = q
    BY Constructed DEF ExitSig
  <2>2. CASE Underway(p, sig)'
    BY <2>2 DEF Tied
  <2>3. CASE closed[p]
    <3>1. Gone(p)
      BY <1>1, <2>3 DEF TypeOK, Control, Gone
    <3> QED
      BY <1>2, <3>1
  <2>4. CASE status[p] # "RUNNING"
    <3>1. Known(p)
      <4>1. CASE Waiting(p, sig)
        BY <4>1 DEF Waiting, Base, Truthful, SoundInboxes, Sound
      <4>2. CASE Posted(p, sig)
        BY <4>2, <2>1 DEF Posted, Base, Truthful, SoundLetters, Valid, Void, Sound
      <4> QED
        BY <1>5, <4>1, <4>2 DEF Underway
    <3> QED
      <4>1. Gone(p)
        BY <1>1, <2>4, <3>1 DEF Known, Gone, TypeOK
      <4> QED
        BY <1>2, <4>1
  <2>5. CASE /\ receive[p] # <<>> /\ Head(receive[p]) = sig
             /\ receive' = [receive EXCEPT ![p] = Tail(@)]
             /\ OnSignal(p) \/ Drain(p) \/ DrainNext(p)
    <3>1. CASE Drain(p) \/ DrainNext(p)
      <4>1. Gone(p)
        BY <1>1, <3>1 DEF TypeOK, Control, Gone, Drain, DrainNext
      <4> QED
        BY <1>2, <4>1
    <3>2. CASE OnSignal(p)
      <4>1. past' = Told(p, sig)
        BY <2>1, <2>5, <3>2 DEF OnSignal, OnBookkeeping, OnMessage, OnDown, OnExitSurvived, OnExitFatal, Bookkeeping
      <4>2. <<p, q>> \in past'.told
        BY <1>1, <2>1, <4>1 DEF Told, TypeOK, Past
      <4> QED
        BY <4>2 DEF Tied
    <3> QED
      BY <2>5, <3>1, <3>2
  <2> HIDE DEF sig
  <2> QED
    BY <1>5, <2>1, <2>2, <2>3, <2>4, <2>5, UnderwayStays DEF sig
<1> QED
  BY <1>2, <1>3, <1>4, <1>5 DEF Tied

-----------------------------------------------------------------------------
(* Where a letter comes from.                                              *)

\* The letters of a call, and those of run.
Calls(p, l) ==
  \/ \E q \in Procs \ {p} :
       \/ CallLink(p, q) /\ l \in {Letter(p, LinkSig(q)), Letter(q, LinkSig(p))}
       \/ CallUnlink(p, q) /\ l \in {Letter(p, UnlinkSig(q)), Letter(q, UnlinkSig(p))}
       \/ CallMonitor(p, q) /\ l \in {Letter(p, MonitorSig(NextRef, p, q)), Letter(q, MonitorSig(NextRef, p, q))}
       \/ CallSend(p, q) /\ l = Letter(q, MessageSig(p))
  \/ \E q \in Procs, why \in Reasons : CallExit(p, q, why) /\ l = Letter(q, ExitSig(p, why, FALSE))
  \/ \E r \in DOMAIN monitor : CallDemonitor(p, r) /\ l = Letter(p, DemonitorSig(r, p))

PassesOn(p, l) ==
  /\ OnSignal(p) \/ DrainNext(p)
  /\ receive[p] # <<>> /\ Head(receive[p]).type = "demonitor" /\ Head(receive[p]).origin = p
  /\ KnownRef(p, Head(receive[p]).ref)
  /\ l = Letter(Target(Head(receive[p]).ref), Head(receive[p]))

Runs(p, l) ==
  \/ Boot(p) /\ parent[p].kind = "link" /\ l = Letter(parent[p].pid, LinkSig(p))
  \/ /\ Boot(p) /\ parent[p].kind = "monitor"
     /\ l = Letter(parent[p].pid, MonitorSig(parent[p].ref, parent[p].pid, p))
  \/ PassesOn(p, l)
  \/ /\ Notify(p)
     /\ \/ \E q \in links[p] : NotifyLink(p, q) /\ l = Letter(q, ExitSig(p, reason[p], TRUE))
        \/ \E m \in monitors[p] : NotifyMonitor(p, m) /\ l = Letter(m.pid, DownSig(p, m.ref, reason[p]))
        \/ \E e \in monitoring[p] : NotifyMonitored(p, e) /\ l = Letter(e.pid, DemonitorSig(e.ref, p))

Replied(g, l) ==
  /\ Check(g) /\ out[g] # <<>> /\ Answered(Head(out[g]))
  /\ status[Head(out[g]).to] # "RUNNING" /\ l = DeadReply(Head(out[g]))

\* The members of a short sequence.
LEMMA OneOrTwo ==
  ASSUME NEW x, NEW y
  PROVE  /\ DOMAIN <<>> = {}
         /\ \A i \in DOMAIN <<x>> : i = 1 /\ <<x>>[i] = x
         /\ \A i \in DOMAIN <<x, y>> : i \in {1, 2} /\ <<x, y>>[i] \in {x, y}
  OBVIOUS

\* Whatever a call, or run, has just written is one of the letters Calls and Runs name.
LEMMA PutByCall ==
  ASSUME TypeOK, NEW p \in Procs, NEW q \in Procs \ {p},
         \/ CallLink(p, q) \/ CallUnlink(p, q) \/ CallMonitor(p, q) \/ CallSend(p, q)
         \/ CallSpawnAlone(p, q) \/ CallSpawnLink(p, q) \/ CallSpawnMonitor(p, q),
         NEW i \in DOMAIN out'[Rbl(p)]
  PROVE  Calls(p, out'[Rbl(p)][i])
<1> DEFINE g == Rbl(p)
<1>1. g \in Goroutines
  BY Sides
<1>2. \A x : out'[g] = <<x>> => out'[g][i] = x
  OBVIOUS
<1>3. CASE CallLink(p, q)
  <2>1. out'[g] = <<Letter(p, LinkSig(q)), Letter(q, LinkSig(p))>>
    BY <1>1, <1>3, NewPut DEF CallLink, Call
  <2> QED
    BY <1>3, <2>1, OneOrTwo DEF Calls
<1>4. CASE CallUnlink(p, q)
  <2>1. out'[g] = <<Letter(p, UnlinkSig(q)), Letter(q, UnlinkSig(p))>>
    BY <1>1, <1>4, NewPut DEF CallUnlink, Call
  <2> QED
    BY <1>4, <2>1, OneOrTwo DEF Calls
<1>5. CASE CallMonitor(p, q)
  <2>1. out'[g] = <<Letter(p, MonitorSig(NextRef, p, q)), Letter(q, MonitorSig(NextRef, p, q))>>
    BY <1>1, <1>5, NewPut DEF CallMonitor, Call
  <2> QED
    BY <1>5, <2>1, OneOrTwo DEF Calls
<1>6. CASE CallSend(p, q)
  <2>1. out'[g] = <<Letter(q, MessageSig(p))>>
    BY <1>1, <1>6, NewPut DEF CallSend, Call
  <2>2. out'[g][i] = Letter(q, MessageSig(p))
    BY <1>2, <2>1
  <2> QED
    BY <1>6, <2>2 DEF Calls
<1>7. CASE CallSpawnAlone(p, q) \/ CallSpawnLink(p, q) \/ CallSpawnMonitor(p, q)
  <2>1. out'[g] = <<>>
    BY <1>1, <1>7, NewPut DEF CallSpawnAlone, CallSpawnLink, CallSpawnMonitor, CallSpawn, Call
  <2> QED
    BY <2>1, OneOrTwo
<1> QED
  BY <1>3, <1>4, <1>5, <1>6, <1>7

LEMMA PutByOther ==
  ASSUME TypeOK, NEW p \in Procs,
         \/ \E q \in Procs, why \in Reasons : CallExit(p, q, why)
         \/ \E r \in DOMAIN monitor : CallDemonitor(p, r)
         \/ CallTrapExit(p),
         NEW i \in DOMAIN out'[Rbl(p)]
  PROVE  Calls(p, out'[Rbl(p)][i])
<1> DEFINE g == Rbl(p)
<1>1. g \in Goroutines
  BY Sides
<1>2. \A x : out'[g] = <<x>> => out'[g][i] = x
  OBVIOUS
<1>3. ASSUME NEW q \in Procs, NEW why \in Reasons, CallExit(p, q, why)
      PROVE  Calls(p, out'[g][i])
  <2>1. out'[g] = <<Letter(q, ExitSig(p, why, FALSE))>>
    BY <1>1, <1>3, NewPut DEF CallExit, Call
  <2>2. out'[g][i] = Letter(q, ExitSig(p, why, FALSE))
    BY <1>2, <2>1
  <2> QED
    BY <1>3, <2>2 DEF Calls
<1>4. ASSUME NEW r \in DOMAIN monitor, CallDemonitor(p, r)
      PROVE  Calls(p, out'[g][i])
  <2>1. out'[g] = <<Letter(p, DemonitorSig(r, p))>>
    BY <1>1, <1>4, NewPut DEF CallDemonitor, Call
  <2>2. out'[g][i] = Letter(p, DemonitorSig(r, p))
    BY <1>2, <2>1
  <2> QED
    BY <1>4, <2>2 DEF Calls
<1>5. CASE CallTrapExit(p)
  <2>1. out'[g] = <<>>
    BY <1>1, <1>5, NewPut DEF CallTrapExit, Call
  <2> QED
    BY <2>1, OneOrTwo
<1> QED
  BY <1>3, <1>4, <1>5

LEMMA PutByRun ==
  ASSUME Base, NEW p \in Procs, Boot(p) \/ OnSignal(p) \/ DrainNext(p) \/ Notify(p),
         out' # out, NEW i \in DOMAIN out'[Run(p)]
  PROVE  Runs(p, out'[Run(p)][i])
<1> DEFINE g == Run(p)
<1>1. g \in Goroutines /\ TypeOK
  BY Sides DEF Base
<1>2. \A x : out'[g] = <<x>> => out'[g][i] = x
  OBVIOUS
<1>3. CASE Boot(p)
  <2>1. out'[g] = BootLetters(p)
    BY <1>1, <1>3, NewPut DEF Boot
  <2>2. parent[p].kind \in {"none", "link", "monitor"}
    BY <1>1, ParentIs
  <2>3. CASE parent[p].kind = "none"
    BY <2>1, <2>3, OneOrTwo DEF BootLetters
  <2>4. CASE parent[p].kind = "link"
    <3>1. out'[g] = <<Letter(parent[p].pid, LinkSig(p))>>
      BY <2>1, <2>4 DEF BootLetters
    <3>2. out'[g][i] = Letter(parent[p].pid, LinkSig(p))
      BY <1>2, <3>1
    <3> QED
      BY <1>3, <2>4, <3>2 DEF Runs
  <2>5. CASE parent[p].kind = "monitor"
    <3>1. out'[g] = <<Letter(parent[p].pid, MonitorSig(parent[p].ref, parent[p].pid, p))>>
      BY <2>1, <2>5 DEF BootLetters
    <3>2. out'[g][i] = Letter(parent[p].pid, MonitorSig(parent[p].ref, parent[p].pid, p))
      BY <1>2, <3>1
    <3> QED
      BY <1>3, <2>5, <3>2 DEF Runs
  <2> QED
    BY <2>2, <2>3, <2>4, <2>5
<1>4. CASE OnSignal(p) \/ DrainNext(p)
  <2>1. PICK sig : sig = Head(receive[p])
    OBVIOUS
  <2>2. receive[p] # <<>>
    BY <1>4 DEF OnSignal, DrainNext
  <2>3. sig \in Signals /\ Sound(p, sig)
    BY <2>1, <2>2, HeadSound DEF Base, Truthful
  <2>4. Absorbs(p, sig)
    BY <1>4, <2>1 DEF OnSignal, OnBookkeeping, OnMessage, OnDown, OnExitSurvived, OnExitFatal, DrainNext
  <2>5. out'[g] = Absorb(p, sig).sends
    BY <1>1, <2>4, NewPut DEF Absorbs
  <2>6. PICK k : k = i /\ k \in DOMAIN Absorb(p, sig).sends
    BY <2>5
  <2>7. /\ sig.type = "demonitor" /\ sig.origin = p /\ KnownRef(p, sig.ref)
        /\ Absorb(p, sig).sends[k] = Letter(Target(sig.ref), sig)
    BY <1>1, <2>3, <2>6, PassedOn DEF Base, Truthful
  <2> QED
    BY <1>4, <2>1, <2>2, <2>5, <2>6, <2>7 DEF Runs, PassesOn
<1>5. CASE Notify(p)
  <2>1. ASSUME NEW q \in links[p], NotifyLink(p, q)
        PROVE  Runs(p, out'[g][i])
    <3>1. out'[g] = <<Letter(q, ExitSig(p, reason[p], TRUE))>>
      BY <1>1, <2>1, NewPut DEF NotifyLink
    <3>2. out'[g][i] = Letter(q, ExitSig(p, reason[p], TRUE))
      BY <1>2, <3>1
    <3> QED
      BY <1>5, <2>1, <3>2 DEF Runs
  <2>2. ASSUME NEW m \in monitors[p], NotifyMonitor(p, m)
        PROVE  Runs(p, out'[g][i])
    <3>1. out'[g] = <<Letter(m.pid, DownSig(p, m.ref, reason[p]))>>
      BY <1>1, <2>2, NewPut DEF NotifyMonitor
    <3>2. out'[g][i] = Letter(m.pid, DownSig(p, m.ref, reason[p]))
      BY <1>2, <3>1
    <3> QED
      BY <1>5, <2>2, <3>2 DEF Runs
  <2>3. ASSUME NEW e \in monitoring[p], NotifyMonitored(p, e)
        PROVE  Runs(p, out'[g][i])
    <3>1. out'[g] = <<Letter(e.pid, DemonitorSig(e.ref, p))>>
      BY <1>1, <2>3, NewPut DEF NotifyMonitored
    <3>2. out'[g][i] = Letter(e.pid, DemonitorSig(e.ref, p))
      BY <1>2, <3>1
    <3> QED
      BY <1>5, <2>3, <3>2 DEF Runs
  <2> QED
    BY <1>5, <2>1, <2>2, <2>3 DEF Notify
<1> QED
  BY <1>3, <1>4, <1>5

\* What a step does to the letters of one goroutine.
LEMMA OneOut ==
  ASSUME Base, Next, NEW g \in Goroutines
  PROVE  \/ out'[g] = out[g]
         \/ out[g] # <<>> /\ SentOne(g) /\ (Deposit(g) \/ Check(g))
         \/ out[g] # <<>> /\ Check(g) /\ \E l : SendsOn(g, l)
         \/ out[g] = <<>> /\ out' # out /\ out'[g] # out[g]
<1>1. TypeOK /\ Control
  BY DEF Base
<1>2. ASSUME NEW h \in Goroutines, NEW k, out[h] # <<>>, SendsOn(h, k) \/ SentOne(h), h # g
      PROVE  out'[g] = out[g]
  BY <1>1, <1>2 DEF TypeOK, SendsOn, SentOne
<1>3. ASSUME NEW h \in Goroutines, NEW ls, out[h] = <<>>, out' = [out EXCEPT ![h] = ls]
      PROVE  out'[g] = out[g] \/ out[g] = <<>>
  BY <1>1, <1>3 DEF TypeOK
<1>4. ASSUME NEW h \in Goroutines, Check(h)
      PROVE  out[h] # <<>>
  BY <1>4 DEF Check, ToSend
<1> QED
  BY <1>1, <1>2, <1>3, <1>4, OutSteps

\* Where the i-th of g's letters was before the step.
Slid(g, i, j) ==
  \/ j = i /\ Len(out'[g]) = Len(out[g])
  \/ j = i + 1 /\ Len(out'[g]) = Len(out[g]) - 1

\* Where a letter comes from.
LEMMA NewLetter ==
  ASSUME Base, Next, NEW g \in Goroutines, NEW i \in DOMAIN out'[g]
  PROVE  \/ \E j \in DOMAIN out[g] : /\ out'[g][i].to = out[g][j].to /\ out'[g][i].sig = out[g][j].sig
                                     /\ Slid(g, i, j)
         \/ i = 1 /\ Replied(g, out'[g][1])
         \/ /\ out[g] = <<>>
            /\ \E p \in Procs : \/ g = Rbl(p) /\ Calls(p, out'[g][i])
                                \/ g = Run(p) /\ Runs(p, out'[g][i])
<1>1. TypeOK /\ Control
  BY DEF Base
<1>2. CASE out'[g] = out[g]
  BY <1>2 DEF Slid
<1>3. ASSUME NEW h \in Goroutines, out[h] # <<>>, SentOne(h), Deposit(h) \/ Check(h), h = g
      PROVE  \E j \in DOMAIN out[g] : /\ out'[g][i].to = out[g][j].to /\ out'[g][i].sig = out[g][j].sig
                                      /\ Slid(g, i, j)
  BY <1>1, <1>3, OneSent DEF Slid
<1>4. ASSUME NEW h \in Goroutines, Check(h), NEW k, SendsOn(h, k), h = g
      PROVE  \/ \E j \in DOMAIN out[g] : out'[g][i].to = out[g][j].to /\ out'[g][i].sig = out[g][j].sig /\ Slid(g, i, j)
             \/ i = 1 /\ Replied(g, out'[g][1])
  <2> DEFINE l == Head(out[g])
  <2>1. out[g] # <<>>
    BY <1>4 DEF Check, ToSend
  <2>2. /\ 1 \in DOMAIN out[g] /\ l = out[g][1] /\ l \in Letters
    BY <1>1, <2>1, HeadLetter DEF Base, Truthful
  <2>3. /\ DOMAIN out'[g] = DOMAIN out[g] /\ \A j \in DOMAIN out[g] : j # 1 => out'[g][j] = out[g][j]
        /\ Slid(g, i, i)
    BY <1>1, <1>4, <2>1, OneSwapped DEF Slid
  <2>4. CASE i # 1
    BY <2>3, <2>4
  <2>5. CASE i = 1
    <3>1. \A x : SendsOn(g, x) => out'[g][1] = x
      BY <1>1, <2>1, OneSwapped
    <3>2. CASE SendsOn(g, [l EXCEPT !.checked = TRUE])
      <4>1. out'[g][1] = [l EXCEPT !.checked = TRUE]
        BY <3>1, <3>2
      <4>2. out'[g][1].to = l.to /\ out'[g][1].sig = l.sig
        BY <2>2, <4>1 DEF Letters
      <4> QED
        BY <2>2, <2>3, <2>5, <4>2
    <3>3. CASE status[l.to] # "RUNNING" /\ Answered(l) /\ SendsOn(g, DeadReply(l))
      BY <1>4, <2>1, <2>5, <3>1, <3>3 DEF Replied
    <3>4. CASE SentOne(g)
      <4>1. DOMAIN out'[g] = 1 .. Len(out'[g]) /\ DOMAIN out[g] = 1 .. Len(out[g]) /\ Len(out'[g]) = Len(out[g]) - 1
        BY <1>1, <2>1, <3>4, OneSent
      <4>2. Len(out[g]) \in Nat
        BY <1>1 DEF TypeOK
      <4>3. DOMAIN out'[g] = DOMAIN out[g]
        BY <2>3
      <4>4. Len(out[g]) \in DOMAIN out[g] /\ Len(out[g]) \notin DOMAIN out'[g]
        BY <2>2, <4>1, <4>2
      <4> QED
        BY <4>3, <4>4
    <3> QED
      BY <1>4, <3>2, <3>3, <3>4 DEF Check
  <2> QED
    BY <2>4, <2>5
<1>5. ASSUME NEW h \in Goroutines, NEW k, out[h] # <<>>, SendsOn(h, k) \/ SentOne(h), h # g
      PROVE  out'[g] = out[g]
  BY <1>1, <1>5 DEF TypeOK, SendsOn, SentOne
<1>6. CASE out[g] = <<>> /\ out' # out /\ out'[g] # out[g]
  <2>1. \A p \in Procs : Run(p) \in Goroutines /\ Rbl(p) \in Goroutines
    BY Sides
  <2>2. ASSUME NEW p \in Procs, Rbl(p) # g, \E ls : out' = [out EXCEPT ![Rbl(p)] = ls]
        PROVE  FALSE
    BY <1>1, <1>6, <2>1, <2>2, NewPut
  <2>3. ASSUME NEW p \in Procs, Run(p) # g, \E ls : out' = [out EXCEPT ![Run(p)] = ls]
        PROVE  FALSE
    BY <1>1, <1>6, <2>1, <2>3, NewPut
  <2>4. ASSUME NEW p \in Procs, NEW q \in Procs \ {p},
               \/ CallLink(p, q) \/ CallUnlink(p, q) \/ CallMonitor(p, q) \/ CallSend(p, q)
               \/ CallSpawnAlone(p, q) \/ CallSpawnLink(p, q) \/ CallSpawnMonitor(p, q)
        PROVE  g = Rbl(p) /\ Calls(p, out'[g][i])
    <3>1. g = Rbl(p)
      BY <2>2, <2>4 DEF CallLink, CallUnlink, CallMonitor, CallSend, CallSpawnAlone, CallSpawnLink,
        CallSpawnMonitor, CallSpawn, Call
    <3> QED
      BY <1>1, <2>4, <3>1, PutByCall
  <2>5. ASSUME NEW p \in Procs,
               \/ \E q \in Procs, why \in Reasons : CallExit(p, q, why)
               \/ \E r \in DOMAIN monitor : CallDemonitor(p, r)
               \/ CallTrapExit(p)
        PROVE  g = Rbl(p) /\ Calls(p, out'[g][i])
    <3>1. g = Rbl(p)
      BY <2>2, <2>5 DEF CallExit, CallDemonitor, CallTrapExit, Call
    <3> QED
      BY <1>1, <2>5, <3>1, PutByOther
  <2>6. ASSUME NEW p \in Procs, Boot(p) \/ OnSignal(p) \/ DrainNext(p) \/ Notify(p)
        PROVE  g = Run(p) /\ Runs(p, out'[g][i])
    <3>1. g = Run(p)
      BY <1>6, <2>3, <2>6 DEF Boot, OnSignal, OnBookkeeping, OnMessage, OnDown, OnExitSurvived, OnExitFatal,
        DrainNext, Notify, NotifyLink, NotifyMonitor, NotifyMonitored, Absorbs
    <3> QED
      BY <1>6, <2>6, <3>1, PutByRun
  <2>7. ASSUME NEW p \in Procs,
               \/ Start(p) \/ OnDone(p) \/ Drain(p) \/ DrainDone(p) \/ CloseMailbox(p)
               \/ EndExit(p) \/ Panic(p) \/ \E why \in Reasons : Return(p, why)
        PROVE  FALSE
    BY <1>6, <2>7 DEF Start, OnDone, Drain, DrainDone, CloseMailbox, EndExit, Panic, Return
  <2>8. ASSUME NEW h \in Goroutines, Check(h) \/ Deposit(h)
        PROVE  FALSE
    <3>1. out[h] # <<>> /\ \E k : SendsOn(h, k) \/ SentOne(h)
      BY <2>8 DEF Check, ToSend, Deposit
    <3> QED
      BY <1>5, <1>6, <3>1
  <2> QED
    BY <1>6, <2>4, <2>5, <2>6, <2>7, <2>8, Steps
<1> QED
  BY <1>2, <1>3, <1>4, <1>6, OneOut

-----------------------------------------------------------------------------
(* Links: what a step does to them.                                        *)

\* The letters of Link, and SpawnLink's.
LEMMA LinkPosted ==
  ASSUME Base, Next, NEW q \in Procs, NEW x \in Procs, q # x, Posted(q, LinkSig(x))', ~Posted(q, LinkSig(x))
  PROVE  Posted(x, LinkSig(q))' \/ q \in links'[x]
<1>1. TypeOK /\ \A p \in Procs : Run(p) \in Goroutines /\ Rbl(p) \in Goroutines
  BY Sides DEF Base
<1>2. PICK g \in Goroutines : \E i \in DOMAIN out'[g] : out'[g][i].to = q /\ out'[g][i].sig = LinkSig(x)
  BY DEF Posted
<1>3. PICK i \in DOMAIN out'[g] : out'[g][i].to = q /\ out'[g][i].sig = LinkSig(x)
  BY <1>2
<1>4. PICK l : l = out'[g][i] /\ l.to = q /\ l.sig = LinkSig(x) /\ l.sig.type = "link"
  BY <1>3 DEF LinkSig
<1>5. \A y, s : Letter(y, s).sig = s
  BY DEF Letter
<1>6. /\ \A a : UnlinkSig(a).type # "link" /\ MessageSig(a).type # "link"
      /\ \A a, b : DemonitorSig(a, b).type # "link"
      /\ \A a, b, c : MonitorSig(a, b, c).type # "link" /\ DownSig(a, b, c).type # "link"
  BY DEF UnlinkSig, MonitorSig, MessageSig, DemonitorSig, DownSig
<1>7. ~Replied(g, l)
  BY <1>4 DEF Replied, DeadReply, Letter, ExitSig, DownSig
<1>8. ASSUME NEW p \in Procs, Calls(p, l)
      PROVE  Posted(x, LinkSig(q))'
  <2>1. PICK y \in Procs \ {p} : CallLink(p, y) /\ l \in {Letter(p, LinkSig(y)), Letter(y, LinkSig(p))}
    <3>1. ASSUME NEW y, NEW why, l = Letter(y, ExitSig(p, why, FALSE))
          PROVE  FALSE
      BY <1>4, <1>5, <3>1 DEF ExitSig
    <3>2. /\ \A y : l # Letter(y, UnlinkSig(p)) /\ l # Letter(p, UnlinkSig(y)) /\ l # Letter(y, MessageSig(p))
          /\ \A y, z, r : l # Letter(z, MonitorSig(r, p, y))
          /\ \A r : l # Letter(p, DemonitorSig(r, p))
      BY <1>4, <1>5, <1>6
    <3> QED
      BY <1>8, <3>1, <3>2 DEF Calls
  <2>2. {p, y} = {q, x} /\ (p = q => y = x) /\ (p = x => y = q)
    BY <1>4, <2>1 DEF Letter, LinkSig
  <2>3. PICK k, m, ls : /\ ls = <<k, m>> /\ k = Letter(p, LinkSig(y)) /\ m = Letter(y, LinkSig(p))
                        /\ out' = [out EXCEPT ![Rbl(p)] = ls]
    BY <2>1 DEF CallLink, Call
  <2>4. 1 \in DOMAIN ls /\ 2 \in DOMAIN ls /\ ls[1] = k /\ ls[2] = m
    BY <2>3
  <2>5. Posted(p, LinkSig(y))' /\ Posted(y, LinkSig(p))'
    <3>1. k.to = p /\ k.sig = LinkSig(y) /\ m.to = y /\ m.sig = LinkSig(p)
      BY <2>3 DEF Letter
    <3> QED
      BY <1>1, <2>3, <2>4, <3>1, PutPosted
  <2> QED
    BY <2>2, <2>5
<1>9. ASSUME NEW p \in Procs, Runs(p, l)
      PROVE  q \in links'[x]
  <2>1. Boot(p) /\ parent[p].kind = "link" /\ l = Letter(parent[p].pid, LinkSig(p))
    BY <1>4, <1>9, <1>5, <1>6 DEF Runs, PassesOn, ExitSig
  <2>2. p = x /\ parent[p].pid = q
    BY <1>4, <2>1 DEF Letter, LinkSig
  <2> QED
    BY <1>1, <2>1, <2>2 DEF Boot, TypeOK
<1>10. ~\E j \in DOMAIN out[g] : out'[g][i].to = out[g][j].to /\ out'[g][i].sig = out[g][j].sig
  BY <1>3 DEF Posted
<1> QED
  BY <1>4, <1>7, <1>8, <1>9, <1>10, NewLetter

\* A signal gets into an inbox by Deposit, from the head of somebody's letters.
LEMMA NewWaiting ==
  ASSUME Base, Next, NEW q \in Procs, NEW sig, Waiting(q, sig)', ~Waiting(q, sig)
  PROVE  \E g \in Goroutines : Leads(g, q, sig) /\ Deposit(g)
<1>1. TypeOK
  BY DEF Base
<1>2. PICK i \in DOMAIN receive'[q] : receive'[q][i] = sig
  BY DEF Waiting
<1>3. CASE receive' = receive
  BY <1>2, <1>3 DEF Waiting
<1>4. ASSUME NEW p \in Procs, receive[p] # <<>>, receive' = [receive EXCEPT ![p] = Tail(@)]
      PROVE  FALSE
  <2>1. /\ \A j \in DOMAIN receive'[p] : j + 1 \in DOMAIN receive[p] /\ receive'[p][j] = receive[p][j + 1]
        /\ \A x \in Procs : x # p => receive'[x] = receive[x]
    BY <1>1, <1>4, Taken
  <2> QED
    BY <1>2, <2>1 DEF Waiting
<1>5. ASSUME NEW g \in Goroutines, Deposit(g)
      PROVE  Leads(g, q, sig)
  <2> DEFINE l == Head(out[g])
  <2>1. out[g] # <<>> /\ l.to \in Procs /\ l.sig \in Signals /\ receive \in [Procs -> Seq(Signals)]
    BY <1>1, <1>5, HeadLetter DEF Base, Truthful, TypeOK, Deposit
  <2>2. receive' = [receive EXCEPT ![l.to] = Append(@, l.sig)]
    BY <1>2, <1>5 DEF Deposit, Waiting
  <2>3. PICK t \in Procs, s \in Signals : t = l.to /\ s = l.sig
    BY <2>1
  <2>4. /\ DOMAIN receive[t] = 1 .. Len(receive[t]) /\ Len(receive[t]) \in Nat
        /\ DOMAIN receive'[t] = 1 .. Len(receive[t]) + 1 /\ receive'[t][Len(receive[t]) + 1] = s
        /\ \A j \in DOMAIN receive[t] : receive'[t][j] = receive[t][j]
        /\ \A x \in Procs : x # t => receive'[x] = receive[x]
    BY <2>1, <2>2, <2>3, Added
  <2>5. t = q
    BY <1>2, <2>4 DEF Waiting
  <2>6. i \notin DOMAIN receive[q]
    BY <1>2, <2>4, <2>5 DEF Waiting
  <2>7. i = Len(receive[t]) + 1
    BY <1>2, <2>4, <2>5, <2>6
  <2> QED
    BY <1>2, <2>1, <2>3, <2>4, <2>5, <2>7 DEF Leads
<1> QED
  BY <1>3, <1>4, <1>5, InboxSteps

\* Which was on its way until then.
LEMMA LeadsPosted ==
  ASSUME Base, NEW g \in Goroutines, NEW q, NEW sig, Leads(g, q, sig)
  PROVE  Posted(q, sig)
<1>1. 1 \in DOMAIN out[g] /\ Head(out[g]) = out[g][1]
  BY HeadLetter DEF Leads, Base, Truthful
<1> QED
  BY <1>1 DEF Leads, Posted

\* A process takes up a link for a signal it got, or tells the other in the same step.
LEMMA NewLink ==
  ASSUME Base, Next, NEW p \in Procs, NEW q \in Procs, p # q, q \in links'[p], q \notin links[p]
  PROVE  Waiting(p, LinkSig(q)) \/ Posted(q, LinkSig(p))'
<1>1. TypeOK
  BY DEF Base
<1>2. ASSUME NEW x \in Procs, OnSignal(x) \/ DrainNext(x)
      PROVE  Waiting(p, LinkSig(q))
  <2> DEFINE sig == Head(receive[x])
  <2>1. receive[x] # <<>>
    BY <1>2 DEF OnSignal, DrainNext
  <2>2. sig \in Signals /\ 1 \in DOMAIN receive[x] /\ receive[x][1] = sig
    BY <2>1, <1>1, HeadSound DEF Base, Truthful
  <2>3. Absorbs(x, sig)
    BY <1>2 DEF OnSignal, OnBookkeeping, OnMessage, OnDown, OnExitSurvived, OnExitFatal, DrainNext, procVars
  <2>4. x = p /\ q \in Absorb(p, sig).links
    BY <1>1, <2>3 DEF Absorbs, TypeOK
  <2>5. sig.type = "link" /\ sig.pid = q
    BY <2>4 DEF Absorb, AfterLink, AfterUnlink, AfterMonitor, AfterDemonitor, Local
  <2>6. sig = LinkSig(q)
    BY <2>2, <2>5, Shapes
  <2> QED
    BY <2>2, <2>4, <2>6 DEF Waiting
<1>3. ASSUME NEW x \in Procs, Boot(x)
      PROVE  Posted(q, LinkSig(p))'
  <2>1. x = p /\ parent[p].kind = "link" /\ parent[p].pid = q
    BY <1>1, <1>3 DEF Boot, TypeOK
  <2>2. PICK l, ls : ls = <<l>> /\ l = Letter(q, LinkSig(p)) /\ out' = [out EXCEPT ![Run(p)] = ls]
    BY <1>3, <2>1 DEF Boot, BootLetters
  <2>3. 1 \in DOMAIN ls /\ ls[1] = l /\ l.to = q /\ l.sig = LinkSig(p)
    BY <2>2 DEF Letter
  <2>4. Run(p) \in Goroutines
    BY Sides
  <2> QED
    BY <1>1, <2>2, <2>3, <2>4, PutPosted
<1>4. ASSUME NEW x \in Procs, Notify(x)
      PROVE  FALSE
  <2>1. links' = links \/ \E y : links' = [links EXCEPT ![x] = @ \ {y}]
    BY <1>4 DEF Notify, NotifyLink, NotifyMonitor, NotifyMonitored
  <2> QED
    BY ZenonT(40), <1>1, <2>1 DEF TypeOK
<1>5. links' # links
  OBVIOUS
<1>6. \E x \in Procs : OnSignal(x) \/ DrainNext(x) \/ Boot(x) \/ Notify(x)
  BY ZenonT(40), <1>5, Steps DEF Check, Deposit, CallLink, CallUnlink, CallMonitor, CallSend, CallExit, CallDemonitor,
      CallTrapExit, CallSpawnAlone, CallSpawnLink, CallSpawnMonitor, CallSpawn, Start, OnDone, Drain,
      DrainDone, CloseMailbox, EndExit, Panic, Return, procVars
<1> QED
  BY <1>2, <1>3, <1>4, <1>6

\* Every step keeps the two ends of a link tied.
LEMMA StepLinksTied ==
  ASSUME Base, LinksTied, Next
  PROVE  LinksTied'
<1>1. ASSUME NEW p \in Procs, NEW q \in Procs, p # q, {p, q} \notin past'.unlinked, Wants(p, q)'
      PROVE  Tied(p, q)'
  <2>1. {p, q} \notin past.unlinked
    BY <1>1, StepOnward DEF Onward, Base
  <2>2. CASE Wants(p, q)
    <3>1. Tied(p, q)
      BY <1>1, <2>1, <2>2 DEF LinksTied
    <3> QED
      BY <1>1, <3>1, TiedStays
  <2>3. CASE ~Wants(p, q)
    <3>1. q \notin links[p] /\ ~Posted(p, LinkSig(q)) /\ ~Waiting(p, LinkSig(q))
      BY <2>3 DEF Wants, Underway
    <3>2. ~Waiting(p, LinkSig(q))'
      BY <3>1, NewWaiting, LeadsPosted
    <3>3. q \in links'[p] \/ Posted(p, LinkSig(q))'
      BY <1>1, <3>2 DEF Wants, Underway
    <3>4. Posted(q, LinkSig(p))' \/ p \in links'[q]
      BY <1>1, <3>1, <3>3, NewLink, LinkPosted
    <3> QED
      BY <3>4 DEF Tied, Underway
  <2> QED
    BY <2>2, <2>3
<1> QED
  BY <1>1 DEF LinksTied

\* Nothing is on its way to a process that is settled.
LEMMA SettledEmpty ==
  ASSUME Base, NEW p \in Procs, Settled(p)
  PROVE  /\ \A sig : ~Underway(p, sig)
         /\ \A q \in Procs : ~Posted(q, LinkSig(p))
         /\ ~Gone(p)
<1>1. \A sig : ~Posted(p, sig)
  BY DEF Settled, Posted
<1>2. \A sig : ~Waiting(p, sig)
  BY DEF Settled, Waiting
<1>3. \A q \in Procs : ~Posted(q, LinkSig(p))
  BY DEF Settled, Posted, LinkSig
<1>4. ~Gone(p)
  BY DEF Settled, Base, Control, Gone
<1> QED
  BY <1>1, <1>2, <1>3, <1>4 DEF Underway

LEMMA LinksTiedInv ==
  ASSUME Base, LinksTied
  PROVE  LinksMutual /\ LinkAccounted
<1>1. LinksMutual
  <2>1. ASSUME NEW p \in Procs, NEW q \in Procs, Settled(p), Settled(q), {p, q} \notin past.unlinked, p # q,
               q \in links[p]
        PROVE  p \in links[q]
    <3>1. Tied(p, q)
      BY <2>1 DEF LinksTied, Wants
    <3>2. /\ ~Gone(p) /\ ~Underway(q, LinkSig(p))
          /\ \A why \in ExitReasons : ~Underway(p, ExitSig(q, why, TRUE))
      BY <2>1, SettledEmpty
    <3>3. <<p, q>> \notin past.told
      <4>1. ~Gone(q)
        BY <2>1, SettledEmpty
      <4> QED
        BY <4>1 DEF Base, Truthful, SoundHistory
    <3>4. [to |-> q, sig |-> LinkSig(p)] \notin past.lost
      <4>1. ~closed[q]
        BY <2>1 DEF Settled, Base, Control
      <4> QED
        BY <4>1 DEF Base, Truthful, SoundHistory
    <3> QED
      BY <3>1, <3>2, <3>3, <3>4 DEF Tied
  <2>2. \A p, q : {p, q} = {q, p}
    OBVIOUS
  <2> QED
    BY <2>1, <2>2 DEF LinksMutual
<1>2. ASSUME NEW p \in Procs, NEW q \in Procs, p # q, q \in links[p], {p, q} \notin past.unlinked,
             Settled(p), Reported(q)
      PROVE  <<p, q>> \in past.told \/ [to |-> q, sig |-> LinkSig(p)] \in past.lost
  <2>1. Tied(p, q)
    BY <1>2 DEF LinksTied, Wants
  <2>2. /\ ~Gone(p) /\ ~Posted(q, LinkSig(p))
        /\ \A why \in ExitReasons : ~Underway(p, ExitSig(q, why, TRUE))
    BY <1>2, SettledEmpty
  <2>3. links[q] = {} /\ receive[q] = <<>>
    BY <1>2 DEF Base, Control, Reported
  <2>4. ~Waiting(q, LinkSig(p))
    BY <2>3 DEF Waiting
  <2> QED
    BY <2>1, <2>2, <2>3, <2>4 DEF Tied, Underway
<1> QED
  BY <1>1, <1>2 DEF LinkAccounted

-----------------------------------------------------------------------------
(* Monitors: what a step does about a Ref that exists.                     *)

\* Who is who under a Ref.
Names(r, o, t, m) == r \in DOMAIN monitor /\ o = Owner(r) /\ t = Target(r) /\ m = MonSig(r)

\* A Ref with its owner, its target and the signal that asks for it.
LEMMA NamesAre ==
  ASSUME Base, NEW r, NEW o, NEW t, NEW m, Names(r, o, t, m)
  PROVE  /\ r \in Refs /\ o \in Procs /\ t \in Procs /\ o # t /\ m \in Signals /\ Known(o) /\ Known(t)
         /\ m = MonitorSig(r, o, t) /\ m.type = "monitor" /\ m.ref = r /\ m.monitor = o /\ m.monitored = t
         /\ Run(t) \in Goroutines /\ Rbl(o) \in Goroutines /\ Run(o) \in Goroutines
<1>1. TypeOK /\ r \in DOMAIN monitor
  BY DEF Names, Base
<1>2. r \in Refs /\ o \in Procs /\ t \in Procs /\ m \in Signals
  BY <1>1, RefIs DEF Names
<1>3. o # t /\ Known(o) /\ Known(t)
  BY DEF Base, Truthful, SoundLists, Names
<1>4. m = MonitorSig(r, o, t) /\ m.type = "monitor" /\ m.ref = r /\ m.monitor = o /\ m.monitored = t
  BY DEF Names, MonSig, MonitorSig
<1> QED
  BY <1>2, <1>3, <1>4, Sides

\* They do not change.
LEMMA NamesStay ==
  ASSUME Onward, NEW r, NEW o, NEW t, NEW m, Names(r, o, t, m)
  PROVE  Names(r, o, t, m)'
  BY DEF Names, Onward, Owner, Target, MonSig

\* The stages, in these terms.
IsSent(l, r) == IsDown(l.sig, r) /\ l.sig.proc # l.to

\* The stages of a Ref, each by what holds the signal or the entry then.
LEMMA Stages7 ==
  ASSUME NEW r, NEW o, NEW t, NEW m, Names(r, o, t, m)
  PROVE  /\ At(r, "booting") <=> Booting(r)
         /\ At(r, "posted") <=> Posted(t, m)
         /\ At(r, "waiting") <=> Waiting(t, m)
         /\ At(r, "watched") <=> [pid |-> o, ref |-> r] \in monitors[t]
         /\ At(r, "sent") <=> \E g \in Goroutines : \E i \in DOMAIN out[g] : SentAt(r, g, i)
         /\ At(r, "back") <=> \E i \in DOMAIN receive[o] : IsDown(receive[o][i], r)
         /\ At(r, "heard") <=> \E i \in DOMAIN mailbox[o] : IsDown(mailbox[o][i], r)
  BY DEF At, Names, BackAt, HeardAt

\* A DOWN signal on its way is of a process that has ended, to the owner.
LEMMA SentIs ==
  ASSUME Base, NEW r, NEW o, NEW t, NEW m, Names(r, o, t, m), NEW g \in Goroutines, NEW i \in DOMAIN out[g]
  PROVE  /\ SentAt(r, g, i) <=> IsSent(out[g][i], r)
         /\ IsSent(out[g][i], r) => out[g][i].to = o /\ out[g][i].sig.proc = t /\ Gone(t)
<1>1. Valid(g, out[g][i])
  BY DEF Base, Truthful, SoundLetters
<1>2. Void(out[g][i]) => out[g][i].sig.proc = out[g][i].to
  BY DEF Void
<1>3. IsDown(out[g][i].sig, r) /\ ~Void(out[g][i]) =>
        out[g][i].to = o /\ out[g][i].sig.proc = t /\ Gone(t)
  BY <1>1 DEF Valid, Sound, IsDown, Names
<1>4. o # t
  BY NamesAre
<1> QED
  BY <1>2, <1>3, <1>4 DEF SentAt, IsSent

\* The signals that wait for their process.
LEMMA WaitingIs ==
  ASSUME Base, NEW r, NEW o, NEW t, NEW m, Names(r, o, t, m), NEW p \in Procs, NEW i \in DOMAIN receive[p]
  PROVE  /\ receive[p][i] \in Signals /\ Sound(p, receive[p][i])
         /\ IsDown(receive[p][i], r) => p = o /\ receive[p][i].proc = t /\ Gone(t)
         /\ receive[p][i] = DemonitorSig(r, o) => r \in past.demonitored \/ Gone(o)
<1>1. receive[p][i] \in Signals
  <2>1. receive[p] \in Seq(Signals)
    BY DEF Base, TypeOK
  <2> QED
    BY <2>1
<1>2. Sound(p, receive[p][i])
  BY DEF Base, Truthful, SoundInboxes
<1>3. IsDown(receive[p][i], r) => p = o /\ receive[p][i].proc = t /\ Gone(t)
  BY <1>2 DEF Sound, IsDown, Names
<1>4. ASSUME receive[p][i] = DemonitorSig(r, o)
      PROVE  r \in past.demonitored \/ Gone(o)
  <2>1. receive[p][i].type = "demonitor" /\ receive[p][i].ref = r /\ receive[p][i].origin = o
    BY <1>4 DEF DemonitorSig
  <2> QED
    BY <1>2, <2>1 DEF Sound
<1> QED
  BY <1>1, <1>2, <1>3, <1>4

\* A MonitorSignal is new only with its Ref, or where SpawnMonitor's process boots.
LEMMA MonLetters ==
  ASSUME Base, Next, NEW r, NEW o, NEW t, NEW m, Names(r, o, t, m),
         NEW g \in Goroutines, NEW i \in DOMAIN out'[g], out'[g][i].sig = m
  PROVE  \/ \E j \in DOMAIN out[g] : /\ out[g][j].to = out'[g][i].to /\ out[g][j].sig = m
                                     /\ Slid(g, i, j)
         \/ g = Run(t) /\ Boot(t) /\ Booting(r) /\ out'[g][i].to = o /\ monitor[r].spawned
<1>1. /\ m = MonitorSig(r, o, t) /\ m.type = "monitor" /\ m.ref = r /\ m.monitor = o /\ m.monitored = t
      /\ r \in DOMAIN monitor
  BY NamesAre DEF Names
<1>2. PICK l : l = out'[g][i] /\ l.sig = m
  OBVIOUS
<1>3. ~Replied(g, l)
  BY <1>1, <1>2 DEF Replied, DeadReply, Letter, ExitSig, DownSig
<1>4. \A y, s : Letter(y, s).sig = s /\ Letter(y, s).to = y
  BY DEF Letter
<1>5. /\ \A a : UnlinkSig(a).type # "monitor" /\ MessageSig(a).type # "monitor" /\ LinkSig(a).type # "monitor"
      /\ \A a, b : DemonitorSig(a, b).type # "monitor"
      /\ \A a, b, c : DownSig(a, b, c).type # "monitor"
  BY DEF UnlinkSig, MessageSig, DemonitorSig, DownSig, LinkSig
<1>6. NextRef # r
  <2>1. Len(monitor) \in Nat /\ DOMAIN monitor = 1 .. Len(monitor)
    BY DEF Base, TypeOK
  <2> QED
    BY <1>1, <2>1 DEF NextRef
<1>7. ASSUME NEW p \in Procs, Calls(p, l)
      PROVE  FALSE
  <2>1. ASSUME NEW y, NEW why, l = Letter(y, ExitSig(p, why, FALSE))
        PROVE  FALSE
    BY <1>1, <1>2, <1>4, <2>1 DEF ExitSig
  <2>2. /\ \A y : l # Letter(y, UnlinkSig(p)) /\ l # Letter(p, UnlinkSig(y)) /\ l # Letter(y, MessageSig(p))
        /\ \A y : l # Letter(y, LinkSig(p)) /\ l # Letter(p, LinkSig(y))
        /\ \A s : l # Letter(p, DemonitorSig(s, p))
    BY <1>1, <1>2, <1>4, <1>5
  <2>3. \A y, z : l # Letter(z, MonitorSig(NextRef, p, y))
    <3>1. \A y : MonitorSig(NextRef, p, y).ref = NextRef
      BY DEF MonitorSig
    <3> QED
      BY <1>1, <1>2, <1>4, <1>6, <3>1
  <2> QED
    BY <1>7, <2>1, <2>2, <2>3 DEF Calls
<1>8. ASSUME NEW p \in Procs, Runs(p, l)
      PROVE  p = t /\ Boot(t) /\ Booting(r) /\ l.to = o /\ monitor[r].spawned
  <2>1. ASSUME NEW y, l = Letter(y, ExitSig(p, reason[p], TRUE))
        PROVE  FALSE
    BY <1>1, <1>2, <1>4, <2>1 DEF ExitSig
  <2>2. /\ \A y : l # Letter(y, LinkSig(p))
        /\ \A y, e : l # Letter(y, DemonitorSig(e, p))
        /\ \A y, x, k : l # Letter(y, DownSig(p, x, k))
        /\ ~PassesOn(p, l)
    BY <1>1, <1>2, <1>4, <1>5 DEF PassesOn
  <2>3. /\ Boot(p) /\ parent[p].kind = "monitor"
        /\ l = Letter(parent[p].pid, MonitorSig(parent[p].ref, parent[p].pid, p))
    BY <1>8, <2>1, <2>2 DEF Runs
  <2>4. m = MonitorSig(parent[p].ref, parent[p].pid, p) /\ l.to = parent[p].pid
    BY <1>2, <1>4, <2>3
  <2>5. p = t /\ parent[p].pid = o /\ parent[p].ref = r
    BY <1>1, <2>4 DEF MonitorSig
  <2>6. monitor[r].spawned
    BY <2>3, <2>5 DEF Base, Truthful, SoundLists
  <2>7. parent[t] = [kind |-> "monitor", pid |-> o, ref |-> r]
    BY <2>3, <2>5, ParentIs DEF Base
  <2> QED
    BY <2>3, <2>4, <2>5, <2>6, <2>7 DEF Booting, Boot, Names
<1> QED
  BY <1>1, <1>2, <1>3, <1>7, <1>8, NewLetter

\* A DOWN signal is new where a letter to a dead process is answered, and in exit.
LEMMA DownLetters ==
  ASSUME Base, Next, NEW r, NEW o, NEW t, NEW m, Names(r, o, t, m),
         NEW g \in Goroutines, NEW i \in DOMAIN out'[g], IsSent(out'[g][i], r)
  PROVE  \/ \E j \in DOMAIN out[g] : /\ IsSent(out[g][j], r)
                                     /\ Slid(g, i, j)
         \/ i = 1 /\ Check(g) /\ Leads(g, t, m) /\ Replied(g, out'[g][1])
         \/ /\ out[g] = <<>> /\ g = Run(t) /\ Notify(t) /\ i = 1
            /\ [pid |-> o, ref |-> r] \in monitors[t] /\ NotifyMonitor(t, [pid |-> o, ref |-> r])
<1>1. /\ m = MonitorSig(r, o, t) /\ m.type = "monitor" /\ m.ref = r /\ m.monitor = o /\ m.monitored = t
      /\ r \in DOMAIN monitor /\ o # t /\ t \in Procs /\ TypeOK
  BY NamesAre DEF Names, Base
<1>2. PICK l : l = out'[g][i]
  OBVIOUS
<1>3. l.sig.type = "down" /\ l.sig.ref = r /\ l.sig.proc # l.to
  BY <1>2 DEF IsSent, IsDown
<1>4. \A y, s : Letter(y, s).sig = s /\ Letter(y, s).to = y
  BY DEF Letter
<1>5. /\ \A a : UnlinkSig(a).type # "down" /\ MessageSig(a).type # "down" /\ LinkSig(a).type # "down"
      /\ \A a, b : DemonitorSig(a, b).type # "down"
      /\ \A a, b, c : MonitorSig(a, b, c).type # "down"
  BY DEF UnlinkSig, MessageSig, DemonitorSig, MonitorSig, LinkSig
<1>6. ASSUME Replied(g, l)
      PROVE  Check(g) /\ Leads(g, t, m)
  <2> DEFINE k == Head(out[g])
  <2>1. /\ k \in Letters /\ k.to \in Procs /\ k.sig \in Signals /\ Valid(g, k) /\ out[g] # <<>>
    BY <1>6, HeadLetter DEF Replied, Base, Truthful
  <2>2. k.sig.type = "monitor" /\ l = Letter(k.sig.monitor, DownSig(k.to, k.sig.ref, "noproc"))
    BY <1>3, <1>4, <1>6 DEF Replied, DeadReply, Answered, ExitSig
  <2>3. k.sig.ref = r /\ k.to # k.sig.monitor
    BY <1>3, <1>4, <2>2 DEF DownSig
  <2>4. k.sig = m /\ k.to \in {o, t}
    BY <2>1, <2>2, <2>3 DEF Valid, Void, Sound, Names
  <2>5. k.to = t
    BY <1>1, <2>3, <2>4
  <2> QED
    BY <1>6, <2>1, <2>4, <2>5 DEF Replied, Leads
<1>7. ASSUME NEW p \in Procs, Calls(p, l)
      PROVE  FALSE
  <2>1. ASSUME NEW y, NEW why, l = Letter(y, ExitSig(p, why, FALSE))
        PROVE  FALSE
    BY <1>3, <1>4, <2>1 DEF ExitSig
  <2>2. /\ \A y : l # Letter(y, UnlinkSig(p)) /\ l # Letter(p, UnlinkSig(y)) /\ l # Letter(y, MessageSig(p))
        /\ \A y : l # Letter(y, LinkSig(p)) /\ l # Letter(p, LinkSig(y))
        /\ \A s : l # Letter(p, DemonitorSig(s, p))
        /\ \A x, y, z : l # Letter(z, MonitorSig(x, p, y))
    BY <1>3, <1>4, <1>5
  <2> QED
    BY <1>7, <2>1, <2>2 DEF Calls
<1>8. ASSUME NEW p \in Procs, g = Run(p), Runs(p, l)
      PROVE  /\ p = t /\ Notify(t) /\ i = 1
             /\ [pid |-> o, ref |-> r] \in monitors[t] /\ NotifyMonitor(t, [pid |-> o, ref |-> r])
  <2>1. ASSUME NEW y, l = Letter(y, ExitSig(p, reason[p], TRUE))
        PROVE  FALSE
    BY <1>3, <1>4, <2>1 DEF ExitSig
  <2>2. /\ \A y : l # Letter(y, LinkSig(p))
        /\ \A y, e : l # Letter(y, DemonitorSig(e, p))
        /\ \A y, x, k : l # Letter(y, MonitorSig(x, k, p))
        /\ ~PassesOn(p, l)
    BY <1>3, <1>4, <1>5 DEF PassesOn
  <2>3. PICK w \in monitors[p] : Notify(p) /\ NotifyMonitor(p, w) /\ l = Letter(w.pid, DownSig(p, w.ref, reason[p]))
    BY <1>8, <2>1, <2>2 DEF Runs
  <2>4. w.ref = r
    BY <1>3, <1>4, <2>3 DEF DownSig
  <2>5. w.pid = o /\ p = t
    BY <2>3, <2>4 DEF Base, Truthful, SoundLists, Names
  <2>6. w = [pid |-> o, ref |-> r]
    <3>1. w \in Pid
      BY <1>1, <2>3 DEF TypeOK
    <3> QED
      BY <2>4, <2>5, <3>1 DEF Pid
  <2>7. i = 1
    <3>1. PICK ls, k : ls = <<k>> /\ out' = [out EXCEPT ![g] = ls]
      BY <1>8, <2>3 DEF NotifyMonitor
    <3>2. out'[g] = ls
      BY <1>1, <3>1, NewPut
    <3> QED
      BY <3>1, <3>2
  <2> QED
    BY <2>3, <2>5, <2>6, <2>7
<1>9. (i = 1 /\ Replied(g, out'[g][1])) => Check(g) /\ Leads(g, t, m)
  BY <1>2, <1>6
<1>10. (\E j \in DOMAIN out[g] : /\ out'[g][i].to = out[g][j].to /\ out'[g][i].sig = out[g][j].sig
                                /\ Slid(g, i, j)) =>
      \E j \in DOMAIN out[g] : /\ IsSent(out[g][j], r)
                               /\ Slid(g, i, j)
  BY DEF IsSent
<1> QED
  BY <1>2, <1>7, <1>8, <1>9, <1>10, NewLetter

-----------------------------------------------------------------------------
(* Who watches, who knows the Ref, who has heard.                          *)

\* q takes the signal `sig'.
Takes(q, sig) ==
  /\ receive[q] # <<>> /\ Head(receive[q]) = sig /\ receive' = [receive EXCEPT ![q] = Tail(@)]
  /\ OnSignal(q) \/ DrainNext(q)

Watch(r, o) == [pid |-> o, ref |-> r]

\* run and exit take the first signal of the inbox.
LEMMA TakesHead ==
  ASSUME Base, NEW q \in Procs, OnSignal(q) \/ DrainNext(q)
  PROVE  \E sig \in Signals : Takes(q, sig) /\ Sound(q, sig)
                              /\ 1 \in DOMAIN receive[q] /\ receive[q][1] = sig
<1>1. receive[q] # <<>>
  BY DEF OnSignal, DrainNext
<1>2. PICK sig \in Signals : sig = Head(receive[q]) /\ Sound(q, sig) /\ 1 \in DOMAIN receive[q] /\ receive[q][1] = sig
  BY <1>1, HeadSound DEF Base, Truthful
<1>3. receive' = [receive EXCEPT ![q] = Tail(@)]
  BY DEF OnSignal, OnBookkeeping, OnMessage, OnDown, OnExitSurvived, OnExitFatal, Receive, DrainNext
<1> QED
  BY <1>1, <1>2, <1>3 DEF Takes

\* What happens to the lists of monitors: p takes a signal, boots or is in exit's loops.
LEMMA ListSteps ==
  ASSUME Base, Next
  PROVE  \/ UNCHANGED <<monitors, monitoring>>
         \/ \E p \in Procs, sig \in Signals : Takes(p, sig) /\ Sound(p, sig) /\ Absorbs(p, sig)
         \/ \E p \in Procs : Boot(p) \/ Notify(p)
<1>1. ASSUME NEW p \in Procs, OnSignal(p) \/ DrainNext(p)
      PROVE  \/ UNCHANGED <<monitors, monitoring>>
             \/ \E sig \in Signals : Takes(p, sig) /\ Sound(p, sig) /\ Absorbs(p, sig)
  <2>1. PICK sig \in Signals : Takes(p, sig) /\ Sound(p, sig)
    BY <1>1, TakesHead
  <2>2. UNCHANGED <<monitors, monitoring>> \/ Absorbs(p, sig)
    BY <1>1, <2>1 DEF Takes, OnSignal, OnBookkeeping, OnMessage, OnDown, OnExitSurvived, OnExitFatal, DrainNext, procVars
  <2> QED
    BY <2>1, <2>2
<1>2. ASSUME \/ \E g \in Goroutines : Check(g) \/ Deposit(g)
             \/ \E x \in Procs :
                  \/ \E y \in Procs \ {x} :
                       \/ CallLink(x, y) \/ CallUnlink(x, y) \/ CallMonitor(x, y) \/ CallSend(x, y)
                       \/ CallSpawnAlone(x, y) \/ CallSpawnLink(x, y) \/ CallSpawnMonitor(x, y)
                  \/ \E y \in Procs, why \in Reasons : CallExit(x, y, why)
                  \/ \E r \in DOMAIN monitor : CallDemonitor(x, r)
                  \/ CallTrapExit(x)
                  \/ Start(x) \/ OnDone(x) \/ Drain(x) \/ DrainDone(x) \/ CloseMailbox(x)
                  \/ EndExit(x) \/ Panic(x)
                  \/ \E why \in Reasons : Return(x, why)
      PROVE  UNCHANGED <<monitors, monitoring>>
  BY ZenonT(40), <1>2 DEF Check, Deposit, CallLink, CallUnlink, CallMonitor, CallSend, CallExit, CallDemonitor,
    CallTrapExit, CallSpawnAlone, CallSpawnLink, CallSpawnMonitor, CallSpawn, Start, OnDone, Drain,
    DrainDone, CloseMailbox, EndExit, Panic, Return, procVars
<1> QED
  BY <1>1, <1>2, Steps

\* What one signal changes in monitors and monitoring.
LEMMA AbsorbMonitor ==
  ASSUME Base, NEW p \in Procs, NEW sig \in Signals, Absorbs(p, sig)
  PROVE  /\ \A q \in Procs : q # p => monitors'[q] = monitors[q] /\ monitoring'[q] = monitoring[q]
         /\ sig.type = "monitor" =>
              IF sig.monitor = p
                THEN /\ monitors'[p] = monitors[p]
                     /\ monitoring'[p] = monitoring[p] \cup {[ref |-> sig.ref, pid |-> sig.monitored]}
                ELSE /\ monitors'[p] = monitors[p] \cup {[pid |-> sig.monitor, ref |-> sig.ref]}
                     /\ monitoring'[p] = monitoring[p]
         /\ sig.type = "demonitor" =>
              IF sig.origin = p
                THEN /\ monitors'[p] = monitors[p]
                     /\ monitoring'[p] = {e \in monitoring[p] : e.ref # sig.ref}
                ELSE /\ monitors'[p] = {w \in monitors[p] : Kept(w, sig)} /\ monitoring'[p] = monitoring[p]
         /\ sig.type \notin {"monitor", "demonitor"} =>
              monitors'[p] = monitors[p] /\ monitoring'[p] = monitoring[p]
<1>1. /\ monitors' = [monitors EXCEPT ![p] = Absorb(p, sig).monitors]
      /\ monitoring' = [monitoring EXCEPT ![p] = Absorb(p, sig).monitoring]
      /\ monitors \in [Procs -> SUBSET Pid] /\ monitoring \in [Procs -> SUBSET Pid]
  BY DEF Absorbs, Base, TypeOK
<1>2. /\ \A q \in Procs : q # p => monitors'[q] = monitors[q] /\ monitoring'[q] = monitoring[q]
      /\ monitors'[p] = Absorb(p, sig).monitors /\ monitoring'[p] = Absorb(p, sig).monitoring
  BY <1>1
<1>3. CASE sig.type = "monitor"
  BY <1>2, <1>3 DEF Absorb, AfterMonitor, Local
<1>4. CASE sig.type = "demonitor"
  BY <1>2, <1>4 DEF Absorb, AfterDemonitor, Local
<1>5. CASE sig.type \notin {"monitor", "demonitor"}
  BY <1>2, <1>5 DEF Absorb, AfterLink, AfterUnlink, Local
<1> QED
  BY <1>2, <1>3, <1>4, <1>5

\* The target begins to watch.
LEMMA WatchedNew ==
  ASSUME Base, Next, NEW r, NEW o, NEW t, NEW m, Names(r, o, t, m),
         Watch(r, o) \in monitors'[t], Watch(r, o) \notin monitors[t]
  PROVE  (Boot(t) /\ Booting(r)) \/ Takes(t, m)
<1>1. /\ m = MonitorSig(r, o, t) /\ r \in DOMAIN monitor /\ o # t /\ t \in Procs /\ o \in Procs /\ TypeOK
  BY NamesAre DEF Names, Base
<1>2. ASSUME NEW p \in Procs, NEW sig \in Signals, Takes(p, sig), Sound(p, sig), Absorbs(p, sig)
      PROVE  Takes(t, m)
  <2>1. p = t
    BY <1>1, <1>2, AbsorbMonitor
  <2>2. sig.type = "monitor" /\ [pid |-> sig.monitor, ref |-> sig.ref] = Watch(r, o)
    BY <1>1, <1>2, <2>1, AbsorbMonitor
  <2>3. sig.ref = r
    BY <2>2 DEF Watch
  <2>4. sig = m
    BY <1>2, <2>2, <2>3 DEF Sound, Names
  <2> QED
    BY <1>2, <2>1, <2>4
<1>3. ASSUME NEW p \in Procs, Boot(p)
      PROVE  Boot(t) /\ Booting(r)
  <2>1. /\ p = t /\ parent[t].kind = "monitor"
        /\ Watch(r, o) = [pid |-> parent[t].pid, ref |-> parent[t].ref]
    BY <1>1, <1>3 DEF Boot, TypeOK
  <2>2. parent[t].pid = o /\ parent[t].ref = r
    BY <2>1 DEF Watch
  <2>3. parent[t] = [kind |-> "monitor", pid |-> o, ref |-> r]
    BY <1>1, <2>1, <2>2, ParentIs
  <2> QED
    BY <1>3, <2>1, <2>3 DEF Boot, Booting, Names
<1>4. ASSUME NEW p \in Procs, Notify(p)
      PROVE  FALSE
  <2>1. monitors' = monitors \/ \E y : monitors' = [monitors EXCEPT ![p] = @ \ {y}]
    BY <1>4 DEF Notify, NotifyLink, NotifyMonitor, NotifyMonitored
  <2> QED
    BY <1>1, <2>1 DEF TypeOK
<1> QED
  BY <1>2, <1>3, <1>4, ListSteps

\* It ceases to.
LEMMA WatchedGone ==
  ASSUME Base, Next, NEW r, NEW o, NEW t, NEW m, Names(r, o, t, m),
         Watch(r, o) \notin monitors'[t], Watch(r, o) \in monitors[t]
  PROVE  \/ Gone(o) \/ r \in past.demonitored \/ Sibling(r)
         \/ Notify(t) /\ NotifyMonitor(t, Watch(r, o))
<1>1. /\ m = MonitorSig(r, o, t) /\ r \in DOMAIN monitor /\ o # t /\ t \in Procs /\ o \in Procs /\ TypeOK
      /\ Watch(r, o).pid = o /\ Watch(r, o).ref = r
  BY NamesAre DEF Names, Base, Watch
<1>2. ASSUME NEW p \in Procs, NEW sig \in Signals, Takes(p, sig), Sound(p, sig), Absorbs(p, sig)
      PROVE  Gone(o) \/ r \in past.demonitored \/ Sibling(r)
  <2>1. p = t
    BY <1>1, <1>2, AbsorbMonitor
  <2>2. sig.type = "demonitor" /\ sig.origin # t /\ ~Kept(Watch(r, o), sig)
    BY <1>1, <1>2, <2>1, AbsorbMonitor
  <2>3. r = sig.ref \/ o = sig.origin
    BY <1>1, <2>2 DEF Kept
  <2>4. /\ sig.ref \in DOMAIN monitor /\ sig.origin = Owner(sig.ref) /\ t = Target(sig.ref)
        /\ sig.ref \in past.demonitored \/ Gone(sig.origin)
    BY <1>2, <2>1, <2>2 DEF Sound
  <2>5. sig.origin = o
    BY <2>3, <2>4 DEF Names
  <2> QED
    BY <1>1, <2>4, <2>5 DEF Sibling, Names, Owner, Target
<1>3. ASSUME NEW p \in Procs, Boot(p)
      PROVE  FALSE
  <2>1. monitors[p] = {} /\ \A q \in Procs : q # p => monitors'[q] = monitors[q]
    BY <1>1, <1>3 DEF Base, Control, TypeOK, Boot
  <2> QED
    BY <1>1, <2>1
<1>4. ASSUME NEW p \in Procs, Notify(p)
      PROVE  Notify(t) /\ NotifyMonitor(t, Watch(r, o))
  <2>1. PICK w \in monitors[p] : NotifyMonitor(p, w)
    <3>1. monitors' # monitors
      BY <1>1
    <3> QED
      BY <1>4, <3>1 DEF Notify, NotifyLink, NotifyMonitored
  <2>2. p = t /\ w = Watch(r, o)
    BY <1>1, <2>1 DEF NotifyMonitor, TypeOK
  <2> QED
    BY <1>4, <2>1, <2>2
<1> QED
  BY <1>2, <1>3, <1>4, ListSteps

\* The owner learns its Ref ...
LEMMA KnownNew ==
  ASSUME Base, Next, NEW r, NEW o, NEW t, NEW m, Names(r, o, t, m), KnownRef(o, r)', ~KnownRef(o, r)
  PROVE  Takes(o, m)
<1>1. r \in DOMAIN monitor /\ o \in Procs /\ TypeOK
  BY NamesAre DEF Names, Base
<1>2. PICK e \in monitoring'[o] : e.ref = r
  BY DEF KnownRef
<1>3. e \notin monitoring[o]
  BY <1>2 DEF KnownRef
<1>4. ASSUME NEW p \in Procs, NEW sig \in Signals, Takes(p, sig), Sound(p, sig), Absorbs(p, sig)
      PROVE  Takes(o, m)
  <2>1. p = o
    BY <1>1, <1>2, <1>3, <1>4, AbsorbMonitor
  <2>2. sig.type = "monitor" /\ e = [ref |-> sig.ref, pid |-> sig.monitored]
    BY <1>1, <1>2, <1>3, <1>4, <2>1, AbsorbMonitor
  <2>3. sig = m
    BY <1>2, <1>4, <2>2 DEF Sound, Names
  <2> QED
    BY <1>4, <2>1, <2>3
<1>5. ASSUME NEW p \in Procs, Boot(p)
      PROVE  FALSE
  BY <1>2, <1>3, <1>5 DEF Boot
<1>6. ASSUME NEW p \in Procs, Notify(p)
      PROVE  FALSE
  <2>1. monitoring' = monitoring \/ \E y : monitoring' = [monitoring EXCEPT ![p] = @ \ {y}]
    BY <1>6 DEF Notify, NotifyLink, NotifyMonitor, NotifyMonitored
  <2> QED
    BY <1>1, <1>2, <1>3, <2>1 DEF TypeOK
<1> QED
  BY <1>2, <1>3, <1>4, <1>5, <1>6, ListSteps

\* ... and forgets it.
LEMMA KnownGone ==
  ASSUME Base, Next, NEW r, NEW o, NEW t, NEW m, Names(r, o, t, m), KnownRef(o, r), ~KnownRef(o, r)'
  PROVE  Gone(o) \/ r \in past.demonitored
<1>1. r \in DOMAIN monitor /\ o \in Procs /\ TypeOK
  BY NamesAre DEF Names, Base
<1>2. PICK e \in monitoring[o] : e.ref = r
  BY DEF KnownRef
<1>3. e \notin monitoring'[o]
  BY <1>2 DEF KnownRef
<1>4. ASSUME NEW p \in Procs, NEW sig \in Signals, Takes(p, sig), Sound(p, sig), Absorbs(p, sig)
      PROVE  Gone(o) \/ r \in past.demonitored
  <2>1. p = o
    BY <1>1, <1>2, <1>3, <1>4, AbsorbMonitor
  <2>2. sig.type = "demonitor" /\ sig.origin = o /\ sig.ref = r
    BY <1>1, <1>2, <1>3, <1>4, <2>1, AbsorbMonitor
  <2> QED
    BY <1>4, <2>2 DEF Sound
<1>5. ASSUME NEW p \in Procs, Boot(p)
      PROVE  FALSE
  BY <1>2, <1>3, <1>5 DEF Boot
<1>6. ASSUME NEW p \in Procs, Notify(p)
      PROVE  Gone(o)
  <2>1. monitoring' = monitoring \/ \E y : monitoring' = [monitoring EXCEPT ![p] = @ \ {y}]
    BY <1>6 DEF Notify, NotifyLink, NotifyMonitor, NotifyMonitored
  <2>2. p = o
    BY <1>1, <1>2, <1>3, <2>1 DEF TypeOK
  <2> QED
    BY <1>6, <2>2 DEF Notify, Base, Control, Gone, TypeOK
<1> QED
  BY <1>2, <1>3, <1>4, <1>5, <1>6, ListSteps

\* A DownMsg reaches the Runnable.
LEMMA HeardNew ==
  ASSUME Base, Next, NEW o \in Procs, NEW r, NEW i \in DOMAIN mailbox'[o], IsDown(mailbox'[o][i], r)
  PROVE  \/ i \in DOMAIN mailbox[o] /\ IsDown(mailbox[o][i], r)
         \/ /\ \E sig \in Signals : Takes(o, sig) /\ IsDown(sig, r)
            /\ pc[o] = "loop" /\ KnownRef(o, r)
            /\ i = Len(mailbox[o]) + 1 /\ DOMAIN mailbox[o] = 1 .. Len(mailbox[o]) /\ Len(mailbox[o]) \in Nat
            /\ \A j \in DOMAIN mailbox'[o] : j # i => j \in DOMAIN mailbox[o] /\ mailbox'[o][j] = mailbox[o][j]
<1>1. TypeOK /\ mailbox \in [Procs -> Seq(Signals)]
  BY DEF Base, TypeOK
<1>2. CASE mailbox'[o] = mailbox[o]
  BY <1>2
<1>3. ASSUME NEW p \in Procs, OnSignal(p), mailbox'[o] # mailbox[o]
      PROVE  \/ i \in DOMAIN mailbox[o] /\ IsDown(mailbox[o][i], r)
             \/ /\ \E sig \in Signals : Takes(o, sig) /\ IsDown(sig, r)
                /\ pc[o] = "loop" /\ KnownRef(o, r)
                /\ i = Len(mailbox[o]) + 1 /\ DOMAIN mailbox[o] = 1 .. Len(mailbox[o]) /\ Len(mailbox[o]) \in Nat
                /\ \A j \in DOMAIN mailbox'[o] : j # i => j \in DOMAIN mailbox[o] /\ mailbox'[o][j] = mailbox[o][j]
  <2>1. PICK sig \in Signals : Takes(p, sig) /\ sig = Head(receive[p])
    BY <1>3, TakesHead DEF Takes
  <2>2. mailbox' = [mailbox EXCEPT ![p] = Append(@, sig)] /\ pc[p] = "loop"
        /\ (sig.type = "down" => KnownRef(p, sig.ref))
    BY <1>3, <2>1 DEF OnSignal, OnBookkeeping, OnMessage, OnDown, OnExitSurvived, OnExitFatal, Receive
  <2>3. p = o
    BY <1>1, <1>3, <2>2
  <2>4. /\ DOMAIN mailbox[o] = 1 .. Len(mailbox[o]) /\ Len(mailbox[o]) \in Nat
        /\ DOMAIN mailbox'[o] = 1 .. Len(mailbox[o]) + 1 /\ mailbox'[o][Len(mailbox[o]) + 1] = sig
        /\ \A j \in DOMAIN mailbox[o] : mailbox'[o][j] = mailbox[o][j]
    BY <1>1, <2>2, <2>3, Added
  <2>5. CASE i \in DOMAIN mailbox[o]
    BY <2>4, <2>5
  <2>6. CASE i \notin DOMAIN mailbox[o]
    <3>1. i = Len(mailbox[o]) + 1 /\ \A j \in DOMAIN mailbox'[o] : j # i => j \in DOMAIN mailbox[o]
      BY <2>4, <2>6
    <3>2. IsDown(sig, r)
      BY <2>4, <3>1
    <3> QED
      BY <2>1, <2>2, <2>3, <2>4, <3>1, <3>2 DEF IsDown
  <2> QED
    BY <2>5, <2>6
<1>4. ASSUME NEW p \in Procs, EndExit(p), mailbox'[o] # mailbox[o]
      PROVE  FALSE
  <2>1. mailbox'[o] = <<>>
    BY <1>1, <1>4 DEF EndExit
  <2> QED
    BY <2>1
<1>5. \/ mailbox' = mailbox
      \/ \E p \in Procs : OnSignal(p) \/ EndExit(p)
  BY ZenonT(40), Steps DEF Check, Deposit, CallLink, CallUnlink, CallMonitor, CallSend, CallExit, CallDemonitor,
    CallTrapExit, CallSpawnAlone, CallSpawnLink, CallSpawnMonitor, CallSpawn, Boot, Start, OnDone, Drain,
    DrainNext, DrainDone, Notify, CloseMailbox, Panic, Return
<1> QED
  BY <1>2, <1>3, <1>4, <1>5

\* What a Runnable has got stays with it, until the end.
LEMMA HeardStays ==
  ASSUME Base, Next, NEW o \in Procs, NEW i \in DOMAIN mailbox[o]
  PROVE  Gone(o) \/ (i \in DOMAIN mailbox'[o] /\ mailbox'[o][i] = mailbox[o][i])
<1>1. TypeOK /\ mailbox \in [Procs -> Seq(Signals)]
  BY DEF Base, TypeOK
<1>2. ASSUME NEW p \in Procs, NEW sig, mailbox' = [mailbox EXCEPT ![p] = Append(@, sig)]
      PROVE  i \in DOMAIN mailbox'[o] /\ mailbox'[o][i] = mailbox[o][i]
  <2>1. /\ DOMAIN mailbox[p] = 1 .. Len(mailbox[p]) /\ Len(mailbox[p]) \in Nat
        /\ DOMAIN mailbox'[p] = 1 .. Len(mailbox[p]) + 1
        /\ \A j \in DOMAIN mailbox[p] : mailbox'[p][j] = mailbox[p][j]
        /\ \A q \in Procs : q # p => mailbox'[q] = mailbox[q]
    BY <1>1, <1>2, Added
  <2>2. CASE p = o
    BY <2>1, <2>2
  <2>3. CASE p # o
    BY <2>1, <2>3
  <2> QED
    BY <2>2, <2>3
<1>3. ASSUME NEW p \in Procs, EndExit(p)
      PROVE  Gone(o) \/ mailbox'[o] = mailbox[o]
  <2>1. Gone(p)
    BY <1>3 DEF EndExit, Base, TypeOK, Control, Gone
  <2> QED
    BY <1>1, <1>3, <2>1 DEF EndExit
<1>4. ASSUME NEW p \in Procs, OnSignal(p)
      PROVE  mailbox' = mailbox \/ \E sig : mailbox' = [mailbox EXCEPT ![p] = Append(@, sig)]
  BY <1>4 DEF OnSignal, OnBookkeeping, OnMessage, OnDown, OnExitSurvived, OnExitFatal
<1>5. \/ mailbox' = mailbox
      \/ \E p \in Procs : OnSignal(p) \/ EndExit(p)
  BY ZenonT(40), Steps DEF Check, Deposit, CallLink, CallUnlink, CallMonitor, CallSend, CallExit, CallDemonitor,
    CallTrapExit, CallSpawnAlone, CallSpawnLink, CallSpawnMonitor, CallSpawn, Boot, Start, OnDone, Drain,
    DrainNext, DrainDone, Notify, CloseMailbox, Panic, Return
<1> QED
  BY <1>2, <1>3, <1>4, <1>5

-----------------------------------------------------------------------------
(* Ordered.                                                                *)

\* Demonitor is called by the owner.
LEMMA DemonitoredNew ==
  ASSUME Base, Next, NEW r, NEW o, NEW t, NEW m, Names(r, o, t, m),
         r \in past'.demonitored, r \notin past.demonitored
  PROVE  CallDemonitor(o, r) /\ out[Rbl(o)] = <<>>
<1>1. past \in Past
  BY DEF Base, TypeOK
<1>2. ASSUME NEW p \in Procs, NEW x \in DOMAIN monitor, CallDemonitor(p, x)
      PROVE  CallDemonitor(o, r) /\ out[Rbl(o)] = <<>>
  <2>1. x = r
    BY <1>1, <1>2 DEF CallDemonitor, Past
  <2> QED
    BY <1>2, <2>1 DEF CallDemonitor, Call, Names, Owner
<1>3. ASSUME NEW g \in Goroutines, Deposit(g)
      PROVE  FALSE
  <2>1. \E x, y : past' = [past EXCEPT !.lost = @ \cup x, !.silenced = @ \cup y]
    BY <1>3 DEF Deposit
  <2> QED
    BY <1>1, <2>1 DEF Past
<1>4. ASSUME NEW p \in Procs, OnSignal(p)
      PROVE  FALSE
  <2>1. past' = past \/ \E sig : past' = Told(p, sig)
    BY <1>4 DEF OnSignal, OnBookkeeping, OnMessage, OnDown, OnExitSurvived, OnExitFatal
  <2> QED
    BY <1>1, <2>1 DEF Past, Told
<1>5. ASSUME NEW p \in Procs,
             \/ OnDone(p) \/ Drain(p)
             \/ \E q \in Procs : CallUnlink(p, q)
             \/ \E q \in Procs, why \in Reasons : CallExit(p, q, why)
      PROVE  FALSE
  <2>1. \/ past' = past
        \/ \E x : past' = [past EXCEPT !.lost = @ \cup x]
        \/ \E x : past' = [past EXCEPT !.unlinked = @ \cup x]
        \/ \E x : past' = [past EXCEPT !.returned = @ \cup x]
        \/ \E x : past' = [past EXCEPT !.killed = @ \cup x]
    BY <1>5 DEF OnDone, Drain, CallUnlink, CallExit
  <2> QED
    BY <1>1, <2>1 DEF Past
<1>6. \/ past' = past
      \/ \E g \in Goroutines : Deposit(g)
      \/ \E p \in Procs : \/ OnSignal(p) \/ OnDone(p) \/ Drain(p) \/ \E q \in Procs : CallUnlink(p, q)
                          \/ \E x \in DOMAIN monitor : CallDemonitor(p, x)
                          \/ \E q \in Procs, why \in Reasons : CallExit(p, q, why)
  BY ZenonT(40), Steps DEF Check, CallLink, CallMonitor, CallSend,
    CallTrapExit, CallSpawnAlone, CallSpawnLink, CallSpawnMonitor, CallSpawn, Boot, Start,
    DrainNext, DrainDone, Notify, CloseMailbox, EndExit, Panic, Return
<1> QED
  BY <1>2, <1>3, <1>4, <1>5, <1>6

\* A new process stays at its first letter until that is sent.
LEMMA StartStays ==
  ASSUME Base, Next, NEW t \in Procs, pc[t] = "start", out[Run(t)] # <<>>
  PROVE  pc'[t] = "start"
<1>1. pc \in [Procs -> {"unborn", "boot", "start", "loop", "drain", "absorb", "notify", "await", "stopped"}]
  BY DEF Base, TypeOK
<1>2. ASSUME NEW p \in Procs, OnSignal(p)
      PROVE  pc'[t] = "start"
  BY <1>1, <1>2 DEF OnSignal, OnBookkeeping, OnMessage, OnDown, OnExitSurvived, OnExitFatal, BeginExit, Receive, procVars
<1>3. ASSUME NEW p \in Procs,
             \/ Boot(p) \/ Start(p) \/ OnDone(p) \/ Drain(p) \/ DrainDone(p) \/ CloseMailbox(p) \/ EndExit(p)
      PROVE  pc'[t] = "start"
  <2>1. p # t
    BY <1>3 DEF Boot, Start, OnDone, Drain, DrainDone, CloseMailbox, EndExit, Notified
  <2>2. \E x : pc' = [pc EXCEPT ![p] = x]
    BY <1>3 DEF Boot, Start, OnDone, BeginExit, Drain, DrainDone, CloseMailbox, EndExit
  <2> QED
    BY <1>1, <2>1, <2>2
<1>4. ASSUME NEW p \in Procs, NEW q \in Procs,
             CallSpawnAlone(p, q) \/ CallSpawnLink(p, q) \/ CallSpawnMonitor(p, q)
      PROVE  pc'[t] = "start"
  <2>1. pc' = [pc EXCEPT ![q] = "boot"] /\ ~Known(q)
    BY <1>4 DEF CallSpawnAlone, CallSpawnLink, CallSpawnMonitor, CallSpawn
  <2>2. q # t
    BY <2>1 DEF Base, Control, Known
  <2> QED
    BY <1>1, <2>1, <2>2
<1>5. \/ pc' = pc
      \/ \E p \in Procs :
           \/ OnSignal(p)
           \/ \E q \in Procs : CallSpawnAlone(p, q) \/ CallSpawnLink(p, q) \/ CallSpawnMonitor(p, q)
           \/ Boot(p) \/ Start(p) \/ OnDone(p) \/ Drain(p) \/ DrainDone(p) \/ CloseMailbox(p) \/ EndExit(p)
  BY Steps DEF Check, Deposit, CallLink, CallUnlink, CallMonitor, CallSend, CallExit, CallDemonitor,
    CallTrapExit, DrainNext, Notify, Panic, Return, procVars
<1> QED
  BY <1>2, <1>3, <1>4, <1>5

\* Inboxes: what there is, is what there was, or new at the end.
LEMMA OneInbox ==
  ASSUME Base, Next, NEW p \in Procs
  PROVE  \/ receive'[p] = receive[p]
         \/ /\ receive[p] # <<>> /\ DOMAIN receive[p] = 1 .. Len(receive[p]) /\ Len(receive[p]) \in Nat \ {0}
            /\ DOMAIN receive'[p] = 1 .. Len(receive[p]) - 1
            /\ \A i \in DOMAIN receive'[p] : receive'[p][i] = receive[p][i + 1]
            /\ OnSignal(p) \/ Drain(p) \/ DrainNext(p)
            /\ receive' = [receive EXCEPT ![p] = Tail(@)]
         \/ /\ DOMAIN receive[p] = 1 .. Len(receive[p]) /\ Len(receive[p]) \in Nat
            /\ DOMAIN receive'[p] = 1 .. Len(receive[p]) + 1
            /\ \A i \in DOMAIN receive[p] : receive'[p][i] = receive[p][i]
            /\ \E g \in Goroutines : /\ Deposit(g) /\ ~closed[p]
                                     /\ Leads(g, p, receive'[p][Len(receive[p]) + 1])
<1>1. TypeOK /\ receive \in [Procs -> Seq(Signals)]
  BY DEF Base, TypeOK
<1>2. ASSUME NEW q \in Procs, receive[q] # <<>>, receive' = [receive EXCEPT ![q] = Tail(@)]
      PROVE  \/ receive'[p] = receive[p]
             \/ /\ p = q /\ DOMAIN receive[p] = 1 .. Len(receive[p]) /\ Len(receive[p]) \in Nat \ {0}
                /\ DOMAIN receive'[p] = 1 .. Len(receive[p]) - 1
                /\ \A i \in DOMAIN receive'[p] : receive'[p][i] = receive[p][i + 1]
  BY <1>1, <1>2, Taken
<1>3. ASSUME NEW g \in Goroutines, Deposit(g), receive'[p] # receive[p]
      PROVE  /\ DOMAIN receive[p] = 1 .. Len(receive[p]) /\ Len(receive[p]) \in Nat
             /\ DOMAIN receive'[p] = 1 .. Len(receive[p]) + 1
             /\ \A i \in DOMAIN receive[p] : receive'[p][i] = receive[p][i]
             /\ Leads(g, p, receive'[p][Len(receive[p]) + 1]) /\ ~closed[p]
  <2> DEFINE l == Head(out[g])
  <2>1. out[g] # <<>> /\ l.to \in Procs /\ l.sig \in Signals
    BY <1>3, HeadLetter DEF Base, Truthful, Deposit
  <2>2. receive' = [receive EXCEPT ![l.to] = Append(@, l.sig)] /\ ~closed[l.to]
    BY <1>3 DEF Deposit
  <2>3. PICK t \in Procs, s \in Signals : t = l.to /\ s = l.sig
    BY <2>1
  <2>4. /\ DOMAIN receive[t] = 1 .. Len(receive[t]) /\ Len(receive[t]) \in Nat
        /\ DOMAIN receive'[t] = 1 .. Len(receive[t]) + 1 /\ receive'[t][Len(receive[t]) + 1] = s
        /\ \A j \in DOMAIN receive[t] : receive'[t][j] = receive[t][j]
        /\ \A x \in Procs : x # t => receive'[x] = receive[x]
    BY <1>1, <2>2, <2>3, Added
  <2>5. t = p
    BY <1>3, <2>4
  <2> QED
    BY <2>1, <2>2, <2>3, <2>4, <2>5 DEF Leads
<1> QED
  BY <1>2, <1>3, InboxSteps

\* A Demonitor does not overtake the Monitor of its Ref.
LEMMA StepOrdered ==
  ASSUME Base, Next, NEW r \in DOMAIN monitor, Ordered(r)
  PROVE  Ordered(r)'
<1>1. PICK o, t, m : Names(r, o, t, m)
  BY DEF Names
<1>2. /\ o \in Procs /\ t \in Procs /\ o # t /\ Known(o) /\ Known(t) /\ m \in Signals /\ m = MonitorSig(r, o, t)
      /\ Run(t) \in Goroutines /\ Rbl(o) \in Goroutines /\ TypeOK /\ Onward
  BY <1>1, NamesAre, StepOnward DEF Base
<1>3. Names(r, o, t, m)' /\ monitor'[r].spawned = monitor[r].spawned
  BY <1>1, <1>2, NamesStay DEF Onward
<1>4. ASSUME NEW g \in Goroutines, NEW i \in DOMAIN out[g], out[g][i].sig = m
      PROVE  IF monitor[r].spawned
               THEN g = Run(t) /\ out[g][i].to = o /\ pc[t] = "start"
               ELSE /\ g = Rbl(o) /\ r \notin past.demonitored
                    /\ out[g][i].to = t => i = Len(out[g])
                    /\ out[g][i].to = o =>
                         i = 1 /\ Len(out[g]) = 2 /\ out[g][2] = Letter(t, m)
  BY <1>1, <1>4 DEF Ordered, Names
<1>5. ASSUME NEW g \in Goroutines, NEW i \in DOMAIN out'[g], out'[g][i].sig = m
      PROVE  IF monitor[r].spawned
               THEN g = Run(t) /\ out'[g][i].to = o /\ pc'[t] = "start"
               ELSE /\ g = Rbl(o) /\ r \notin past'.demonitored
                    /\ out'[g][i].to = t => i = Len(out'[g])
                    /\ out'[g][i].to = o =>
                         i = 1 /\ Len(out'[g]) = 2 /\ out'[g][2] = Letter(t, m)
  <2>1. CASE g = Run(t) /\ Boot(t) /\ out'[g][i].to = o /\ monitor[r].spawned
    BY <1>2, <2>1 DEF Boot, TypeOK
  <2>2. ASSUME NEW j \in DOMAIN out[g], out[g][j].to = out'[g][i].to, out[g][j].sig = m,
               Slid(g, i, j)
        PROVE  IF monitor[r].spawned
                 THEN g = Run(t) /\ out'[g][i].to = o /\ pc'[t] = "start"
                 ELSE /\ g = Rbl(o) /\ r \notin past'.demonitored
                      /\ out'[g][i].to = t => i = Len(out'[g])
                      /\ out'[g][i].to = o =>
                           i = 1 /\ Len(out'[g]) = 2 /\ out'[g][2] = Letter(t, m)
    <3>1. out[g] # <<>>
      BY <2>2
    <3>2. CASE monitor[r].spawned
      <4>1. g = Run(t) /\ out[g][j].to = o /\ pc[t] = "start"
        BY <1>4, <2>2, <3>2
      <4> QED
        BY <1>2, <2>2, <3>1, <3>2, <4>1, StartStays
    <3>3. CASE ~monitor[r].spawned
      <4>1. /\ g = Rbl(o) /\ r \notin past.demonitored
            /\ out[g][j].to = t => j = Len(out[g])
            /\ out[g][j].to = o => j = 1 /\ Len(out[g]) = 2 /\ out[g][2] = Letter(t, m)
        BY <1>4, <2>2, <3>3
      <4>2. r \notin past'.demonitored
        BY <1>1, <3>1, <4>1, DemonitoredNew
      <4>3. DOMAIN out[g] = 1 .. Len(out[g]) /\ Len(out[g]) \in Nat
        BY <1>2 DEF TypeOK
      <4>4. CASE out'[g] = out[g]
        <5>1. i \in DOMAIN out[g] /\ out[g][i].sig = m
          BY <1>5, <4>4
        <5> QED
          BY <1>4, <3>3, <4>2, <4>4, <5>1
      <4>5. CASE SentOne(g)
        <5>1. /\ Len(out'[g]) = Len(out[g]) - 1 /\ DOMAIN out'[g] = 1 .. Len(out'[g])
              /\ \A k \in DOMAIN out'[g] : k + 1 \in DOMAIN out[g] /\ out'[g][k] = out[g][k + 1]
          BY <1>2, <3>1, <4>5, OneSent
        <5>2. i + 1 \in DOMAIN out[g] /\ out[g][i + 1].sig = m /\ out[g][i + 1].to = out'[g][i].to
          BY <1>5, <5>1
        <5>3. /\ out[g][i + 1].to = t => i + 1 = Len(out[g])
              /\ out[g][i + 1].to # o
          BY <1>4, <3>3, <4>3, <5>1, <5>2
        <5> QED
          BY <3>3, <4>1, <4>2, <4>3, <5>1, <5>2, <5>3
      <4>6. ASSUME NEW l, SendsOn(g, l)
            PROVE  /\ out'[g][i].to = t => i = Len(out'[g])
                   /\ out'[g][i].to = o => i = 1 /\ Len(out'[g]) = 2 /\ out'[g][2] = Letter(t, m)
        <5>1. /\ DOMAIN out'[g] = DOMAIN out[g]
              /\ \A k \in DOMAIN out[g] : k # 1 => out'[g][k] = out[g][k]
          BY <1>2, <3>1, <4>6, OneSwapped
        <5>2. Len(out'[g]) = Len(out[g])
          BY <1>2, <3>1, <4>6 DEF TypeOK, SendsOn
        <5>3. CASE j = i
          BY <2>2, <4>1, <4>3, <5>1, <5>2, <5>3
        <5> QED
          BY <2>2, <4>3, <5>2, <5>3 DEF Slid
      <4> QED
        BY <1>2, <3>1, <3>3, <4>1, <4>2, <4>4, <4>5, <4>6, OneOut
    <3> QED
      BY <3>2, <3>3
  <2> QED
    BY <1>1, <1>5, <2>1, <2>2, MonLetters
<1>6. ASSUME monitor[r].spawned
      PROVE  ~Waiting(t, m)'
  <2>1. ~Waiting(t, m)
    BY <1>1, <1>6 DEF Ordered, Names
  <2>2. ASSUME NEW g \in Goroutines, Leads(g, t, m)
        PROVE  FALSE
    <3>1. 1 \in DOMAIN out[g] /\ Head(out[g]) = out[g][1]
      BY <2>2, HeadLetter DEF Leads, Base, Truthful
    <3> QED
      BY <1>2, <1>4, <1>6, <2>2, <3>1 DEF Leads
  <2> QED
    BY <1>2, <2>1, <2>2, NewWaiting
<1>7. ASSUME ~monitor[r].spawned, ~Gone(o)', NEW j \in DOMAIN receive'[o], NEW k \in DOMAIN receive'[o],
             receive'[o][j] = DemonitorSig(r, o), receive'[o][k] = m
      PROVE  k < j
  <2>1. ~Gone(o)
    BY <1>2, <1>7 DEF Onward
  <2>2. \A x, y \in DOMAIN receive[o] : receive[o][x] = DemonitorSig(r, o) /\ receive[o][y] = m => y < x
    BY <1>1, <1>7, <2>1 DEF Ordered, Names
  <2>3. m # DemonitorSig(r, o)
    BY <1>2 DEF MonitorSig, DemonitorSig
  <2>4. CASE receive'[o] = receive[o]
    BY <1>7, <2>2, <2>4
  <2>5. CASE /\ DOMAIN receive[o] = 1 .. Len(receive[o]) /\ Len(receive[o]) \in Nat \ {0}
             /\ DOMAIN receive'[o] = 1 .. Len(receive[o]) - 1
             /\ \A i \in DOMAIN receive'[o] : receive'[o][i] = receive[o][i + 1]
    <3>1. j + 1 \in DOMAIN receive[o] /\ k + 1 \in DOMAIN receive[o]
      BY <1>7, <2>5
    <3>2. k + 1 < j + 1
      BY <1>7, <2>2, <2>5, <3>1
    <3> QED
      BY <2>5, <3>2
  <2>6. ASSUME DOMAIN receive[o] = 1 .. Len(receive[o]), Len(receive[o]) \in Nat,
               DOMAIN receive'[o] = 1 .. Len(receive[o]) + 1,
               \A i \in DOMAIN receive[o] : receive'[o][i] = receive[o][i],
               NEW g \in Goroutines, Leads(g, o, receive'[o][Len(receive[o]) + 1])
        PROVE  k < j
    <3>1. CASE j \in DOMAIN receive[o] /\ k \in DOMAIN receive[o]
      BY <1>7, <2>2, <2>6, <3>1
    <3>2. CASE j \in DOMAIN receive[o] /\ k = Len(receive[o]) + 1
      <4>1. r \in past.demonitored
        BY <1>1, <1>2, <1>7, <2>1, <2>6, <3>2, WaitingIs
      <4>2. 1 \in DOMAIN out[g] /\ Head(out[g]) = out[g][1] /\ out[g][1].sig = m
        BY <1>7, <2>6, <3>2, HeadLetter DEF Leads, Base, Truthful
      <4> QED
        BY <1>4, <1>7, <4>1, <4>2
    <3>3. CASE j = Len(receive[o]) + 1 /\ k \in DOMAIN receive[o]
      BY <2>6, <3>3
    <3> QED
      BY <1>7, <2>3, <2>6, <3>1, <3>2, <3>3
  <2> QED
    BY <1>2, <2>4, <2>5, <2>6, OneInbox
<1> QED
  BY <1>3, <1>5, <1>6, <1>7 DEF Ordered, Names

-----------------------------------------------------------------------------
(* Single: a stage that is new follows one that is over.                   *)

\* The stages after the step, and what is sent.
LEMMA StagesNext ==
  ASSUME NEW r, NEW o, NEW t, NEW m, Names(r, o, t, m)'
  PROVE  /\ At(r, "booting")' <=> Booting(r)'
         /\ At(r, "posted")' <=> Posted(t, m)'
         /\ At(r, "waiting")' <=> Waiting(t, m)'
         /\ At(r, "watched")' <=> Watch(r, o) \in monitors'[t]
         /\ At(r, "sent")' <=> \E g \in Goroutines : \E i \in DOMAIN out'[g] : SentAt(r, g, i)'
         /\ At(r, "back")' <=> \E i \in DOMAIN receive'[o] : IsDown(receive'[o][i], r)
         /\ At(r, "heard")' <=> \E i \in DOMAIN mailbox'[o] : IsDown(mailbox'[o][i], r)
<1>1. o = Owner(r)' /\ t = Target(r)' /\ m = MonSig(r)'
  BY DEF Names
<1> QED
  BY <1>1 DEF At, BackAt, HeardAt, Watch, IsDown

\* SentIs, for the next state.
LEMMA SentNext ==
  ASSUME Base', NEW r, NEW o, NEW t, NEW m, Names(r, o, t, m)', NEW g \in Goroutines, NEW i \in DOMAIN out'[g]
  PROVE  SentAt(r, g, i)' <=> IsSent(out'[g][i], r)
<1>1. PICK l : l = out'[g][i]
  OBVIOUS
<1>2. Valid(g, l)'
  BY <1>1 DEF Base, Truthful, SoundLetters
<1>3. Void(l)' => l.sig.proc = l.to
  BY DEF Void
<1>4. /\ monitor'[r].owner = o /\ monitor'[r].target = t /\ r \in DOMAIN monitor'
      /\ \A x \in DOMAIN monitor' : monitor'[x].owner # monitor'[x].target
  BY DEF Names, Owner, Target, Base, Truthful, SoundLists
<1>5. IsDown(l.sig, r) /\ ~Void(l)' => l.to = o /\ l.sig.proc = t
  BY <1>2, <1>4 DEF Valid, Sound, IsDown, Owner, Target
<1>6. SentAt(r, g, i)' <=> IsDown(l.sig, r) /\ ~Void(l)'
  BY <1>1 DEF SentAt
<1> QED
  BY <1>1, <1>3, <1>4, <1>5, <1>6 DEF IsSent

\* Only a process nobody has known boots.
LEMMA BootNew ==
  ASSUME Base, Next, NEW q \in Procs, pc'[q] = "boot"
  PROVE  pc[q] = "boot" \/ ~Known(q)
<1>1. pc \in [Procs -> {"unborn", "boot", "start", "loop", "drain", "absorb", "notify", "await", "stopped"}]
  BY DEF Base, TypeOK
<1>2. ASSUME NEW p \in Procs, OnSignal(p)
      PROVE  pc[q] = "boot"
  BY <1>1, <1>2 DEF OnSignal, OnBookkeeping, OnMessage, OnDown, OnExitSurvived, OnExitFatal, BeginExit, procVars
<1>3. ASSUME NEW p \in Procs,
             \/ Boot(p) \/ Start(p) \/ OnDone(p) \/ Drain(p) \/ DrainDone(p) \/ CloseMailbox(p) \/ EndExit(p)
      PROVE  pc[q] = "boot"
  BY <1>1, <1>3 DEF Boot, Start, OnDone, BeginExit, Drain, DrainDone, CloseMailbox, EndExit
<1>4. ASSUME NEW p \in Procs, NEW x \in Procs,
             CallSpawnAlone(p, x) \/ CallSpawnLink(p, x) \/ CallSpawnMonitor(p, x)
      PROVE  pc[q] = "boot" \/ ~Known(q)
  <2>1. pc' = [pc EXCEPT ![x] = "boot"] /\ ~Known(x)
    BY <1>4 DEF CallSpawnAlone, CallSpawnLink, CallSpawnMonitor, CallSpawn
  <2> QED
    BY <1>1, <2>1
<1>5. \/ pc' = pc
      \/ \E p \in Procs :
           \/ OnSignal(p)
           \/ \E x \in Procs : CallSpawnAlone(p, x) \/ CallSpawnLink(p, x) \/ CallSpawnMonitor(p, x)
           \/ Boot(p) \/ Start(p) \/ OnDone(p) \/ Drain(p) \/ DrainDone(p) \/ CloseMailbox(p) \/ EndExit(p)
  BY Steps DEF Check, Deposit, CallLink, CallUnlink, CallMonitor, CallSend, CallExit, CallDemonitor,
    CallTrapExit, DrainNext, Notify, Panic, Return, procVars
<1> QED
  BY <1>2, <1>3, <1>4, <1>5

\* From which stage to which.
Moves == {<<"posted", "waiting">>, <<"posted", "sent">>, <<"waiting", "watched">>, <<"booting", "watched">>,
          <<"watched", "sent">>, <<"sent", "back">>, <<"back", "heard">>}

\* A stage that is new follows one that is over.
Follows(r, s) == \E s0 \in Stages : <<s0, s>> \in Moves /\ At(r, s0) /\ ~At(r, s0)'

\* If a new stage follows one that is over, a Ref stays in one stage.
LEMMA Exclusive ==
  ASSUME NEW r, \A s, u \in Stages : At(r, s) /\ At(r, u) => s = u,
         \A s \in Stages : At(r, s)' => At(r, s) \/ Follows(r, s),
         At(r, "waiting")' /\ At(r, "sent")' => At(r, "waiting") \/ At(r, "sent")
  PROVE  \A s, u \in Stages : At(r, s)' /\ At(r, u)' => s = u
<1> SUFFICES ASSUME NEW s \in Stages, NEW u \in Stages, At(r, s)', At(r, u)', s # u
             PROVE  FALSE
  OBVIOUS
<1>1. CASE At(r, s) /\ At(r, u)
  BY <1>1
<1>2. CASE At(r, s) /\ Follows(r, u)
  BY <1>2 DEF Follows
<1>3. CASE Follows(r, s) /\ At(r, u)
  BY <1>3 DEF Follows
<1>4. CASE Follows(r, s) /\ Follows(r, u) /\ ~At(r, s) /\ ~At(r, u)
  <2>1. PICK s0 \in Stages : <<s0, s>> \in Moves /\ At(r, s0)
    BY <1>4 DEF Follows
  <2>2. <<s0, u>> \in Moves
    BY <1>4, <2>1 DEF Follows
  <2>3. (s = "waiting" /\ u = "sent") \/ (s = "sent" /\ u = "waiting")
    BY <2>1, <2>2 DEF Moves
  <2> QED
    BY <1>4, <2>3
<1> QED
  BY <1>1, <1>2, <1>3, <1>4

\* The letter of Monitor to the target is the last of its goroutine.
LEMMA PostedEnds ==
  ASSUME Base, Next, NEW r, NEW o, NEW t, NEW m, Names(r, o, t, m), Ordered(r),
         NEW g \in Goroutines, Leads(g, t, m), Deposit(g) \/ Replied(g, out'[g][1])
  PROVE  ~Posted(t, m)' /\ g = Rbl(o) /\ ~monitor[r].spawned
<1>1. /\ m = MonitorSig(r, o, t) /\ m.type = "monitor" /\ o # t /\ TypeOK
      /\ 1 \in DOMAIN out[g] /\ Head(out[g]) = out[g][1]
  BY NamesAre, HeadLetter DEF Leads, Base, Truthful
<1>2. ASSUME NEW h \in Goroutines, NEW i \in DOMAIN out[h], out[h][i].sig = m, out[h][i].to = t
      PROVE  ~monitor[r].spawned /\ h = Rbl(o) /\ i = Len(out[h])
  BY <1>1, <1>2 DEF Ordered, Names
<1>3. ~monitor[r].spawned /\ g = Rbl(o) /\ Len(out[g]) = 1
  BY <1>1, <1>2 DEF Leads
<1>4. ASSUME Posted(t, m)'
      PROVE  FALSE
  <2>1. PICK h \in Goroutines : \E i \in DOMAIN out'[h] : out'[h][i].to = t /\ out'[h][i].sig = m
    BY <1>4 DEF Posted
  <2>2. PICK i \in DOMAIN out'[h] : out'[h][i].to = t /\ out'[h][i].sig = m
    BY <2>1
  <2>3. PICK j \in DOMAIN out[h] : out[h][j].to = t /\ out[h][j].sig = m /\ Slid(h, i, j)
    BY <1>1, <2>2, MonLetters
  <2>4. h = g /\ j = 1 /\ DOMAIN out'[g] = 1 .. Len(out'[g])
    <3>1. TypeOK'
      BY StepBase DEF Base
    <3>2. DOMAIN out'[g] = 1 .. Len(out'[g])
      BY <3>1 DEF TypeOK
    <3> QED
      BY <1>2, <1>3, <2>3, <3>2
  <2>5. CASE Deposit(g)
    <3>1. Len(out'[g]) = 0
      <4>1. out[g] # <<>> /\ SentOne(g)
        BY <2>5 DEF Deposit
      <4>2. TypeOK
        BY <1>1
      <4>3. Len(out'[g]) = Len(out[g]) - 1
        BY <4>1, <4>2, OneSent
      <4> QED
        BY <1>3, <4>3
    <3> QED
      BY <2>2, <2>4, <3>1
  <2>6. CASE Replied(g, out'[g][1])
    <3>1. i = 1
      BY <1>3, <2>2, <2>3, <2>4 DEF Slid
    <3>2. out'[g][1].sig.type # "monitor"
      <4>1. \A y, s : Letter(y, s).sig = s
        BY DEF Letter
      <4> QED
        BY <2>6, <4>1 DEF Replied, DeadReply, ExitSig, DownSig
    <3> QED
      BY <1>1, <2>2, <2>4, <3>1, <3>2
  <2> QED
    BY <1>1, <2>5, <2>6
<1> QED
  BY <1>3, <1>4

\* What was posted follows: Posted, Waiting, or Sent ...
LEMMA NewWaitingStage ==
  ASSUME Base, Next, NEW r, NEW o, NEW t, NEW m, Names(r, o, t, m), Ordered(r),
         Waiting(t, m)', ~Waiting(t, m)
  PROVE  Posted(t, m) /\ ~Posted(t, m)' /\ receive' # receive
<1>1. t \in Procs
  BY NamesAre
<1>2. PICK g \in Goroutines : Leads(g, t, m) /\ Deposit(g)
  BY <1>1, NewWaiting
<1> QED
  BY <1>2, LeadsPosted, PostedEnds DEF Waiting

\* Stage by stage: whatever is new was in the stage before, which is over.
LEMMA NewWatchedStage ==
  ASSUME Base, Next, NEW r, NEW o, NEW t, NEW m, Names(r, o, t, m), Single(r),
         Watch(r, o) \in monitors'[t], Watch(r, o) \notin monitors[t]
  PROVE  \/ Booting(r) /\ ~Booting(r)'
         \/ Waiting(t, m) /\ ~Waiting(t, m)'
<1>1. t \in Procs /\ o # t /\ TypeOK /\ Onward
  BY NamesAre, StepOnward DEF Base
<1>2. CASE Boot(t) /\ Booting(r)
  <2>1. pc'[t] = "start" /\ Target(r)' = t
    BY <1>1, <1>2, NamesStay DEF Boot, TypeOK, Names
  <2> QED
    BY <1>2, <2>1 DEF Booting
<1>3. CASE Takes(t, m)
  <2>1. receive[t] # <<>> /\ receive' = [receive EXCEPT ![t] = Tail(@)]
    BY <1>3 DEF Takes
  <2>2. /\ DOMAIN receive'[t] = 1 .. Len(receive[t]) - 1 /\ Len(receive[t]) \in Nat
        /\ \A i \in DOMAIN receive'[t] : i + 1 \in DOMAIN receive[t] /\ receive'[t][i] = receive[t][i + 1]
    BY <1>1, <2>1, Taken
  <2>3. 1 \in DOMAIN receive[t] /\ receive[t][1] = m
    BY <1>3, TakesHead, <1>1 DEF Takes
  <2>4. \A i, j \in DOMAIN receive[t] : receive[t][i] = m /\ receive[t][j] = m => i = j
    BY DEF Single, Names
  <2>5. \A i \in DOMAIN receive'[t] : receive'[t][i] # m
    BY <2>2, <2>3, <2>4
  <2> QED
    BY <2>3, <2>5 DEF Waiting
<1> QED
  BY <1>2, <1>3, WatchedNew

LEMMA NewSentStage ==
  ASSUME Base, Base', Next, NEW r, NEW o, NEW t, NEW m, Names(r, o, t, m), Ordered(r),
         At(r, "sent")', ~At(r, "sent")
  PROVE  /\ \/ Posted(t, m) /\ ~Posted(t, m)'
            \/ Watch(r, o) \in monitors[t] /\ Watch(r, o) \notin monitors'[t]
         /\ receive' = receive
<1>1. t \in Procs /\ o # t /\ TypeOK /\ Onward /\ Names(r, o, t, m)'
  BY NamesAre, StepOnward, NamesStay DEF Base
<1>2. PICK g \in Goroutines : \E i \in DOMAIN out'[g] : SentAt(r, g, i)'
  BY <1>1, StagesNext
<1>3. PICK i \in DOMAIN out'[g] : SentAt(r, g, i)'
  BY <1>2
<1>4. IsSent(out'[g][i], r)
  BY <1>1, <1>3, SentNext
<1>5. ASSUME NEW j \in DOMAIN out[g], IsSent(out[g][j], r)
      PROVE  FALSE
  BY <1>5, SentIs, Stages7
<1>6. CASE Check(g) /\ Leads(g, t, m) /\ Replied(g, out'[g][1])
  BY <1>6, LeadsPosted, PostedEnds DEF Check
<1>7. CASE /\ Notify(t) /\ NotifyMonitor(t, [pid |-> o, ref |-> r]) /\ [pid |-> o, ref |-> r] \in monitors[t]
  <2>1. monitors' = [monitors EXCEPT ![t] = @ \ {Watch(r, o)}] /\ receive' = receive
    BY <1>7 DEF NotifyMonitor, Notify, Watch
  <2>2. Watch(r, o) \notin monitors'[t]
    BY <1>1, <2>1 DEF TypeOK
  <2> QED
    BY <1>7, <2>1, <2>2 DEF Watch
<1> QED
  BY <1>4, <1>5, <1>6, <1>7, DownLetters

\* A letter that has been checked is not void.
LEMMA SentFirst ==
  ASSUME Base, NEW r, NEW o, NEW t, NEW m, Names(r, o, t, m), NEW g \in Goroutines, NEW sig,
         Leads(g, o, sig), Deposit(g), IsDown(sig, r)
  PROVE  1 \in DOMAIN out[g] /\ SentAt(r, g, 1) /\ At(r, "sent")
<1>1. 1 \in DOMAIN out[g] /\ Head(out[g]) = out[g][1]
  BY HeadLetter DEF Leads, Base, Truthful
<1>2. out[g][1].checked /\ IsDown(out[g][1].sig, r)
  BY <1>1 DEF Deposit, Leads
<1>3. SentAt(r, g, 1)
  BY <1>1, <1>2 DEF SentAt, Void
<1> QED
  BY <1>1, <1>3, Stages7

LEMMA NewBackStage ==
  ASSUME Base, Base', Next, NEW r, NEW o, NEW t, NEW m, Names(r, o, t, m), Single(r),
         At(r, "back")', ~At(r, "back")
  PROVE  At(r, "sent") /\ ~At(r, "sent")'
<1>1. t \in Procs /\ o \in Procs /\ o # t /\ TypeOK /\ Onward /\ Names(r, o, t, m)'
  BY NamesAre, StepOnward, NamesStay DEF Base
<1>2. PICK i \in DOMAIN receive'[o] : IsDown(receive'[o][i], r)
  BY <1>1, StagesNext
<1>3. PICK sig : sig = receive'[o][i]
  OBVIOUS
<1>4. Waiting(o, sig)' /\ ~Waiting(o, sig)
  <2>1. Waiting(o, sig)'
    BY <1>3 DEF Waiting
  <2>2. ~Waiting(o, sig)
    BY <1>2, <1>3, Stages7 DEF Waiting
  <2> QED
    BY <2>1, <2>2
<1>5. PICK g \in Goroutines : Leads(g, o, sig) /\ Deposit(g)
  BY <1>1, <1>4, NewWaiting
<1>6. 1 \in DOMAIN out[g] /\ SentAt(r, g, 1) /\ At(r, "sent")
  BY <1>2, <1>3, <1>5, SentFirst
<1>7. receive' # receive
  BY <1>4 DEF Waiting
<1>8. ASSUME At(r, "sent")'
      PROVE  FALSE
  <2>1. PICK h \in Goroutines : \E k \in DOMAIN out'[h] : SentAt(r, h, k)'
    BY <1>1, <1>8, StagesNext
  <2>2. PICK k \in DOMAIN out'[h] : SentAt(r, h, k)'
    BY <2>1
  <2>3. IsSent(out'[h][k], r)
    BY <1>1, <2>2, SentNext
  <2>4. PICK j \in DOMAIN out[h] : IsSent(out[h][j], r) /\ Slid(h, k, j)
    BY <1>7, <2>3, DownLetters DEF Check, Notify
  <2>5. SentAt(r, h, j)
    BY <2>4, SentIs
  <2>6. h = g /\ j = 1
    BY <1>6, <2>4, <2>5 DEF Single
  <2>7. /\ Len(out'[g]) = Len(out[g]) - 1 /\ DOMAIN out'[g] = 1 .. Len(out'[g])
        /\ DOMAIN out[g] = 1 .. Len(out[g])
    BY <1>1, <1>5, OneSent DEF Deposit
  <2>8. Len(out[g]) \in Nat
    BY <1>1 DEF TypeOK
  <2> QED
    BY <2>2, <2>4, <2>6, <2>7, <2>8 DEF Slid
<1> QED
  BY <1>6, <1>8

LEMMA NewHeardStage ==
  ASSUME Base, Next, NEW r, NEW o, NEW t, NEW m, Names(r, o, t, m), Single(r),
         At(r, "heard")', ~At(r, "heard")
  PROVE  At(r, "back") /\ ~At(r, "back")'
<1>1. t \in Procs /\ o \in Procs /\ o # t /\ TypeOK /\ Onward /\ Names(r, o, t, m)'
  BY NamesAre, StepOnward, NamesStay DEF Base
<1>2. PICK i \in DOMAIN mailbox'[o] : IsDown(mailbox'[o][i], r)
  BY <1>1, StagesNext
<1>3. PICK sig \in Signals : Takes(o, sig) /\ IsDown(sig, r)
  <2>1. ~(i \in DOMAIN mailbox[o] /\ IsDown(mailbox[o][i], r))
    BY Stages7
  <2> QED
    BY <1>1, <1>2, <2>1, HeardNew
<1>4. /\ DOMAIN receive'[o] = 1 .. Len(receive[o]) - 1 /\ Len(receive[o]) \in Nat
      /\ \A k \in DOMAIN receive'[o] : k + 1 \in DOMAIN receive[o] /\ receive'[o][k] = receive[o][k + 1]
  <2>1. receive[o] # <<>> /\ receive' = [receive EXCEPT ![o] = Tail(@)]
    BY <1>3 DEF Takes
  <2> QED
    BY <1>1, <2>1, Taken
<1>5. 1 \in DOMAIN receive[o] /\ receive[o][1] = sig
  BY <1>3, TakesHead, <1>1 DEF Takes
<1>6. \A j, k \in DOMAIN receive[o] : IsDown(receive[o][j], r) /\ IsDown(receive[o][k], r) => j = k
  BY DEF Single, Names, BackAt
<1>7. \A k \in DOMAIN receive'[o] : ~IsDown(receive'[o][k], r)
  BY <1>3, <1>4, <1>5, <1>6
<1>8. At(r, "back")
  BY <1>3, <1>5, Stages7
<1>9. ~At(r, "back")'
  BY <1>1, <1>7, StagesNext
<1> QED
  BY <1>8, <1>9

\* All stages together.
LEMMA StagesMove ==
  ASSUME Base, Base', Next, NEW r \in DOMAIN monitor, Single(r), Ordered(r), NEW s \in Stages, At(r, s)'
  PROVE  /\ At(r, s) \/ Follows(r, s)
         /\ s = "waiting" => At(r, s) \/ receive' # receive
         /\ s = "sent" => At(r, s) \/ receive' = receive
<1>1. PICK o, t, m : Names(r, o, t, m)
  BY DEF Names
<1>2. /\ o \in Procs /\ t \in Procs /\ o # t /\ Known(t) /\ m = MonitorSig(r, o, t) /\ TypeOK /\ Onward
  BY <1>1, NamesAre, StepOnward DEF Base
<1>3. Names(r, o, t, m)'
  BY <1>1, <1>2, NamesStay
<1>4. CASE s = "booting"
  <2>1. Booting(r)' /\ Target(r)' = t /\ Owner(r)' = o
    BY <1>3, <1>4, StagesNext DEF Names
  <2>2. pc'[t] = "boot" /\ parent'[t] = [kind |-> "monitor", pid |-> o, ref |-> r]
    BY <2>1 DEF Booting
  <2>3. pc[t] = "boot" /\ parent[t] = parent'[t]
    BY <1>2, <2>2, BootNew DEF Onward
  <2>4. Booting(r)
    BY <1>1, <2>2, <2>3 DEF Booting, Names
  <2> QED
    BY <1>1, <1>4, <2>4, Stages7
<1>5. CASE s = "posted"
  <2>1. PICK g \in Goroutines : \E i \in DOMAIN out'[g] : out'[g][i].to = t /\ out'[g][i].sig = m
    BY <1>3, <1>5, StagesNext DEF Posted
  <2>2. PICK i \in DOMAIN out'[g] : out'[g][i].to = t /\ out'[g][i].sig = m
    BY <2>1
  <2>3. \E j \in DOMAIN out[g] : out[g][j].to = t /\ out[g][j].sig = m
    BY <1>1, <1>2, <2>2, MonLetters
  <2>4. Posted(t, m)
    BY <2>3 DEF Posted
  <2> QED
    BY <1>1, <1>5, <2>4, Stages7
<1>6. CASE s = "waiting" /\ ~At(r, s)
  <2>1. Waiting(t, m)' /\ ~Waiting(t, m)
    BY <1>1, <1>3, <1>6, StagesNext, Stages7
  <2>2. Posted(t, m) /\ ~Posted(t, m)' /\ receive' # receive
    BY <1>1, <2>1, NewWaitingStage
  <2>3. At(r, "posted") /\ ~At(r, "posted")'
    BY <1>1, <1>3, <2>2, Stages7, StagesNext
  <2> QED
    BY <1>6, <2>2, <2>3 DEF Follows, Moves, Stages
<1>7. CASE s = "watched" /\ ~At(r, s)
  <2>1. Watch(r, o) \in monitors'[t] /\ Watch(r, o) \notin monitors[t]
    BY <1>1, <1>3, <1>7, StagesNext, Stages7 DEF Watch
  <2>2. \/ Booting(r) /\ ~Booting(r)'
        \/ Waiting(t, m) /\ ~Waiting(t, m)'
    BY <1>1, <2>1, NewWatchedStage
  <2>3. \/ At(r, "booting") /\ ~At(r, "booting")'
        \/ At(r, "waiting") /\ ~At(r, "waiting")'
    BY <1>1, <1>3, <2>2, Stages7, StagesNext
  <2> QED
    BY <1>7, <2>3 DEF Follows, Moves, Stages
<1>8. CASE s = "sent" /\ ~At(r, s)
  <2>1. /\ \/ Posted(t, m) /\ ~Posted(t, m)'
           \/ Watch(r, o) \in monitors[t] /\ Watch(r, o) \notin monitors'[t]
        /\ receive' = receive
    BY <1>1, <1>8, NewSentStage
  <2>2. \/ At(r, "posted") /\ ~At(r, "posted")'
        \/ At(r, "watched") /\ ~At(r, "watched")'
    BY <1>1, <1>3, <2>1, Stages7, StagesNext DEF Watch
  <2> QED
    BY <1>8, <2>1, <2>2 DEF Follows, Moves, Stages
<1>9. CASE s = "back" /\ ~At(r, s)
  <2>1. At(r, "sent") /\ ~At(r, "sent")'
    BY <1>1, <1>9, NewBackStage
  <2> QED
    BY <1>9, <2>1 DEF Follows, Moves, Stages
<1>10. CASE s = "heard" /\ ~At(r, s)
  <2>1. At(r, "back") /\ ~At(r, "back")'
    BY <1>1, <1>10, NewHeardStage
  <2> QED
    BY <1>10, <2>1 DEF Follows, Moves, Stages
<1> QED
  BY <1>4, <1>5, <1>6, <1>7, <1>8, <1>9, <1>10 DEF Stages

\* In one inbox.
LEMMA OnceWaiting ==
  ASSUME Base, Next, NEW p \in Procs, NEW S,
         \A i, j \in DOMAIN receive[p] : receive[p][i] \in S /\ receive[p][j] \in S => i = j,
         \A g \in Goroutines : \A sig \in S : \A i \in DOMAIN receive[p] :
           Deposit(g) /\ Leads(g, p, sig) => receive[p][i] \notin S
  PROVE  \A i, j \in DOMAIN receive'[p] : receive'[p][i] \in S /\ receive'[p][j] \in S => i = j
<1> SUFFICES ASSUME NEW i \in DOMAIN receive'[p], NEW j \in DOMAIN receive'[p],
                    receive'[p][i] \in S, receive'[p][j] \in S
             PROVE  i = j
  OBVIOUS
<1>1. CASE receive'[p] = receive[p]
  BY <1>1
<1>2. CASE /\ DOMAIN receive[p] = 1 .. Len(receive[p]) /\ Len(receive[p]) \in Nat \ {0}
           /\ DOMAIN receive'[p] = 1 .. Len(receive[p]) - 1
           /\ \A k \in DOMAIN receive'[p] : receive'[p][k] = receive[p][k + 1]
  <2>1. i + 1 \in DOMAIN receive[p] /\ j + 1 \in DOMAIN receive[p]
    BY <1>2
  <2>2. i + 1 = j + 1
    BY <1>2, <2>1
  <2> QED
    BY <1>2, <2>2
<1>3. ASSUME DOMAIN receive[p] = 1 .. Len(receive[p]), Len(receive[p]) \in Nat,
             DOMAIN receive'[p] = 1 .. Len(receive[p]) + 1,
             \A k \in DOMAIN receive[p] : receive'[p][k] = receive[p][k],
             NEW g \in Goroutines, Deposit(g), Leads(g, p, receive'[p][Len(receive[p]) + 1])
      PROVE  i = j
  <2>1. CASE i \in DOMAIN receive[p] /\ j \in DOMAIN receive[p]
    BY <1>3, <2>1
  <2>2. CASE i \in DOMAIN receive[p] /\ j = Len(receive[p]) + 1
    BY <1>3, <2>2
  <2>3. CASE j \in DOMAIN receive[p] /\ i = Len(receive[p]) + 1
    BY <1>3, <2>3
  <2> QED
    BY <1>3, <2>1, <2>2, <2>3
<1> QED
  BY <1>1, <1>2, <1>3, OneInbox

\* A DOWN signal is sent once: by send, for a target that is gone, or by the loop of exit.
LEMMA OnceSent ==
  ASSUME Base, Base', Next, NEW r, NEW o, NEW t, NEW m, Names(r, o, t, m), Single(r), Ordered(r),
         NEW g \in Goroutines, NEW h \in Goroutines, NEW i \in DOMAIN out'[g], NEW j \in DOMAIN out'[h],
         SentAt(r, g, i)', SentAt(r, h, j)'
  PROVE  g = h /\ i = j
<1>1. /\ t \in Procs /\ o # t /\ TypeOK /\ TypeOK' /\ Names(r, o, t, m)'
  BY NamesAre, StepOnward, NamesStay DEF Base
<1>2. IsSent(out'[g][i], r) /\ IsSent(out'[h][j], r)
  BY <1>1, SentNext
<1>3. /\ \A s, u \in Stages : At(r, s) /\ At(r, u) => s = u
      /\ "posted" \in Stages /\ "watched" \in Stages /\ "sent" \in Stages
  BY DEF Single, Stages
<1>4. ASSUME NEW x \in Goroutines, NEW k \in DOMAIN out[x], IsSent(out[x][k], r)
      PROVE  SentAt(r, x, k) /\ At(r, "sent")
  BY <1>4, SentIs, Stages7
<1>5. ASSUME NEW x \in Goroutines, Check(x), Leads(x, t, m), Replied(x, out'[x][1])
      PROVE  At(r, "posted") /\ x = Rbl(o)
  BY <1>5, LeadsPosted, Stages7, PostedEnds
<1>6. Watch(r, o) \in monitors[t] => At(r, "watched")
  BY Stages7 DEF Watch
<1>7. CASE At(r, "sent")
  <2>1. ~At(r, "posted") /\ ~At(r, "watched")
    BY <1>3, <1>7
  <2>2. PICK a \in DOMAIN out[g] : IsSent(out[g][a], r) /\ Slid(g, i, a)
    BY <1>2, <1>5, <1>6, <2>1, DownLetters DEF Watch
  <2>3. PICK b \in DOMAIN out[h] : IsSent(out[h][b], r) /\ Slid(h, j, b)
    BY <1>2, <1>5, <1>6, <2>1, DownLetters DEF Watch
  <2>4. g = h /\ a = b
    BY <1>4, <2>2, <2>3 DEF Single
  <2>5. /\ Len(out[g]) \in Nat /\ DOMAIN out'[g] = 1 .. Len(out'[g]) /\ Len(out'[g]) \in Nat
        /\ DOMAIN out[g] = 1 .. Len(out[g])
    BY <1>1 DEF TypeOK
  <2>6. i \in Nat /\ j \in Nat
    BY <2>4, <2>5
  <2> QED
    BY <2>2, <2>3, <2>4, <2>5, <2>6 DEF Slid
<1>8. CASE At(r, "posted") /\ ~At(r, "sent")
  <2>1. ~At(r, "watched")
    BY <1>3, <1>8
  <2>2. g = Rbl(o) /\ i = 1
    BY <1>2, <1>4, <1>5, <1>6, <1>8, <2>1, DownLetters DEF Watch
  <2>3. h = Rbl(o) /\ j = 1
    BY <1>2, <1>4, <1>5, <1>6, <1>8, <2>1, DownLetters DEF Watch
  <2> QED
    BY <2>2, <2>3
<1>9. CASE ~At(r, "posted") /\ ~At(r, "sent")
  <2>1. ASSUME NEW x \in Goroutines, NEW k \in DOMAIN out'[x], IsSent(out'[x][k], r)
        PROVE  x = Run(t) /\ k = 1
    <3>1. ~(Check(x) /\ Leads(x, t, m) /\ Replied(x, out'[x][1]))
      BY <1>5, <1>9
    <3>2. \A a \in DOMAIN out[x] : ~IsSent(out[x][a], r)
      BY <1>4, <1>9
    <3>3. \/ \E a \in DOMAIN out[x] : IsSent(out[x][a], r) /\ Slid(x, k, a)
          \/ k = 1 /\ Check(x) /\ Leads(x, t, m) /\ Replied(x, out'[x][1])
          \/ x = Run(t) /\ k = 1
      BY <2>1, DownLetters
    <3> QED
      BY <3>1, <3>2, <3>3
  <2>2. g = Run(t) /\ i = 1
    BY <1>2, <2>1
  <2>3. h = Run(t) /\ j = 1
    BY <1>2, <2>1
  <2> QED
    BY <2>2, <2>3
<1> QED
  BY <1>7, <1>8, <1>9

\* Single, by every step.
LEMMA StepSingle ==
  ASSUME Base, Base', Next, NEW r \in DOMAIN monitor, Single(r), Ordered(r)
  PROVE  Single(r)'
<1>1. PICK o, t, m : Names(r, o, t, m)
  BY DEF Names
<1>2. /\ o \in Procs /\ t \in Procs /\ o # t /\ TypeOK /\ Onward /\ Names(r, o, t, m)'
  BY <1>1, NamesAre, NamesStay, StepOnward DEF Base
<1>3. \A s, u \in Stages : At(r, s) /\ At(r, u) => s = u
  BY DEF Single
<1>4. \A s, u \in Stages : At(r, s)' /\ At(r, u)' => s = u
  <2>1. \A s \in Stages : At(r, s)' => At(r, s) \/ Follows(r, s)
    BY StagesMove
  <2>2. At(r, "waiting")' /\ At(r, "sent")' => At(r, "waiting") \/ At(r, "sent")
    BY StagesMove DEF Stages
  <2> QED
    BY <1>3, <2>1, <2>2, Exclusive
<1>5. \A i, j \in DOMAIN receive'[t] : receive'[t][i] = m /\ receive'[t][j] = m => i = j
  <2>1. \A i, j \in DOMAIN receive[t] : receive[t][i] \in {m} /\ receive[t][j] \in {m} => i = j
    BY <1>1 DEF Single, Names
  <2>2. ASSUME NEW g \in Goroutines, NEW sig \in {m}, NEW i \in DOMAIN receive[t],
               Deposit(g), Leads(g, t, sig), receive[t][i] \in {m}
        PROVE  FALSE
    <3>1. Posted(t, m)
      BY <2>2, LeadsPosted
    <3>2. Waiting(t, m)
      BY <2>2 DEF Waiting
    <3>3. At(r, "posted") /\ At(r, "waiting")
      BY <1>1, <3>1, <3>2, Stages7
    <3> QED
      BY <1>3, <3>3 DEF Stages
  <2>3. \A i, j \in DOMAIN receive'[t] : receive'[t][i] \in {m} /\ receive'[t][j] \in {m} => i = j
    BY <1>2, <2>1, <2>2, OnceWaiting
  <2> QED
    BY <2>3
<1>6. \A g, h \in Goroutines : \A i \in DOMAIN out'[g], j \in DOMAIN out'[h] :
        SentAt(r, g, i)' /\ SentAt(r, h, j)' => g = h /\ i = j
  BY <1>1, OnceSent
<1>7. \A i, j \in DOMAIN receive'[o] : IsDown(receive'[o][i], r) /\ IsDown(receive'[o][j], r) => i = j
  <2> DEFINE S == {sig \in Signals : IsDown(sig, r)}
  <2>1. \A i, j \in DOMAIN receive[o] : receive[o][i] \in S /\ receive[o][j] \in S => i = j
    BY <1>1 DEF Single, Names, BackAt
  <2>2. ASSUME NEW g \in Goroutines, NEW sig \in S, NEW i \in DOMAIN receive[o],
               Deposit(g), Leads(g, o, sig), receive[o][i] \in S
        PROVE  FALSE
    <3>1. At(r, "sent") /\ At(r, "back")
      BY <1>1, <2>2, SentFirst, Stages7
    <3> QED
      BY <1>3, <3>1 DEF Stages
  <2>3. \A i \in DOMAIN receive'[o] : receive'[o][i] \in Signals
    <3>1. receive'[o] \in Seq(Signals)
      BY <1>2 DEF Base, TypeOK
    <3> QED
      BY <3>1
  <2> HIDE DEF S
  <2>4. \A i, j \in DOMAIN receive'[o] : receive'[o][i] \in S /\ receive'[o][j] \in S => i = j
    BY <1>2, <2>1, <2>2, OnceWaiting
  <2> QED
    BY <2>3, <2>4 DEF S
<1>8. \A i, j \in DOMAIN mailbox'[o] : IsDown(mailbox'[o][i], r) /\ IsDown(mailbox'[o][j], r) => i = j
  <2> SUFFICES ASSUME NEW i \in DOMAIN mailbox'[o], NEW j \in DOMAIN mailbox'[o], i # j,
                      IsDown(mailbox'[o][i], r), IsDown(mailbox'[o][j], r)
               PROVE  FALSE
    OBVIOUS
  <2>1. \A k, l \in DOMAIN mailbox[o] : IsDown(mailbox[o][k], r) /\ IsDown(mailbox[o][l], r) => k = l
    BY <1>1 DEF Single, Names, HeardAt
  <2>2. ASSUME NEW sig \in Signals, Takes(o, sig), IsDown(sig, r),
               NEW k \in DOMAIN mailbox[o], IsDown(mailbox[o][k], r)
        PROVE  FALSE
    <3>1. 1 \in DOMAIN receive[o] /\ receive[o][1] = sig
      BY <1>2, <2>2, TakesHead DEF Takes
    <3>2. At(r, "back") /\ At(r, "heard")
      BY <1>1, <2>2, <3>1, Stages7
    <3> QED
      BY <1>3, <3>2 DEF Stages
  <2> QED
    BY <1>2, <2>1, <2>2, HeardNew
<1> QED
  BY <1>2, <1>4, <1>5, <1>6, <1>7, <1>8 DEF Single, Names, BackAt, HeardAt

-----------------------------------------------------------------------------
(* Answerable: a stage that is over is followed by another.                *)

\* A child boots once.
LEMMA BootGone ==
  ASSUME Base, Next, NEW q \in Procs, pc[q] = "boot", pc'[q] # "boot"
  PROVE  Boot(q)
<1>1. pc \in [Procs -> {"unborn", "boot", "start", "loop", "drain", "absorb", "notify", "await", "stopped"}]
  BY DEF Base, TypeOK
<1>2. ASSUME NEW p \in Procs, OnSignal(p)
      PROVE  FALSE
  BY <1>1, <1>2 DEF OnSignal, OnBookkeeping, OnMessage, OnDown, OnExitSurvived, OnExitFatal, BeginExit, Receive, procVars
<1>3. ASSUME NEW p \in Procs,
             \/ Start(p) \/ OnDone(p) \/ Drain(p) \/ DrainDone(p) \/ CloseMailbox(p) \/ EndExit(p)
      PROVE  FALSE
  BY <1>1, <1>3 DEF Start, OnDone, BeginExit, Drain, DrainDone, CloseMailbox, Notified, EndExit
<1>4. ASSUME NEW p \in Procs, NEW x \in Procs,
             CallSpawnAlone(p, x) \/ CallSpawnLink(p, x) \/ CallSpawnMonitor(p, x)
      PROVE  FALSE
  <2>1. pc' = [pc EXCEPT ![x] = "boot"]
    BY <1>4 DEF CallSpawnAlone, CallSpawnLink, CallSpawnMonitor, CallSpawn
  <2> QED
    BY <1>1, <2>1
<1>5. ASSUME NEW p \in Procs, Boot(p)
      PROVE  Boot(q)
  <2>1. pc' = [pc EXCEPT ![p] = "start"]
    BY <1>5 DEF Boot
  <2>2. p = q
    BY <1>1, <2>1
  <2> QED
    BY <1>5, <2>2
<1>6. \/ pc' = pc
      \/ \E p \in Procs :
           \/ OnSignal(p)
           \/ \E x \in Procs : CallSpawnAlone(p, x) \/ CallSpawnLink(p, x) \/ CallSpawnMonitor(p, x)
           \/ Boot(p) \/ Start(p) \/ OnDone(p) \/ Drain(p) \/ DrainDone(p) \/ CloseMailbox(p) \/ EndExit(p)
  BY Steps DEF Check, Deposit, CallLink, CallUnlink, CallMonitor, CallSend, CallExit, CallDemonitor,
    CallTrapExit, DrainNext, Notify, Panic, Return, procVars
<1> QED
  BY <1>2, <1>3, <1>4, <1>5, <1>6

\* What is absorbed when it is taken.
LEMMA TakesAbsorbs ==
  ASSUME Base, NEW p \in Procs, NEW sig \in Signals, Takes(p, sig), sig.type \in {"monitor", "demonitor"}
  PROVE  Absorbs(p, sig)
<1>1. CASE OnSignal(p)
  BY <1>1 DEF Takes, OnSignal, OnBookkeeping, OnMessage, OnDown, OnExitSurvived, OnExitFatal
<1>2. CASE DrainNext(p)
  BY <1>2 DEF Takes, DrainNext
<1> QED
  BY <1>1, <1>2 DEF Takes

\* A new process watches for its parent once it has booted.
LEMMA BootWatches ==
  ASSUME Base, NEW r, NEW o, NEW t, NEW m, Names(r, o, t, m), Booting(r), Boot(t)
  PROVE  Watch(r, o) \in monitors'[t]
<1>1. t \in Procs /\ parent[t] = [kind |-> "monitor", pid |-> o, ref |-> r]
  BY NamesAre DEF Booting, Names
<1>2. parent[t].kind = "monitor" /\ parent[t].pid = o /\ parent[t].ref = r
  BY <1>1
<1>3. monitors' = [monitors EXCEPT ![t] = {[pid |-> o, ref |-> r]}]
  BY <1>2 DEF Boot
<1> QED
  BY <1>1, <1>3 DEF Base, TypeOK, Watch

\* A DOWN signal that is posted to the owner is a stage.
LEMMA PostedDown ==
  ASSUME Base', NEW r, NEW o, NEW t, NEW m, Names(r, o, t, m)', o # t,
         NEW sig, IsDown(sig, r), sig.proc = t, Posted(o, sig)'
  PROVE  At(r, "sent")'
<1>1. PICK g \in Goroutines : \E i \in DOMAIN out'[g] : out'[g][i].to = o /\ out'[g][i].sig = sig
  BY DEF Posted
<1>2. PICK i \in DOMAIN out'[g] : out'[g][i].to = o /\ out'[g][i].sig = sig
  BY <1>1
<1>3. IsSent(out'[g][i], r)
  BY <1>2 DEF IsSent
<1>4. SentAt(r, g, i)'
  BY <1>3, SentNext
<1> QED
  BY <1>4, StagesNext

\* Stage by stage again: whatever is over is followed, lost, or not wanted any more.
LEMMA PostedOn ==
  ASSUME Base, Base', Next, NEW r, NEW o, NEW t, NEW m, Names(r, o, t, m), Ordered(r), At(r, "posted")
  PROVE  \/ At(r, "posted")' \/ At(r, "waiting")' \/ At(r, "sent")'
         \/ ~monitor[r].spawned /\ [to |-> t, sig |-> m] \in past'.lost
<1>1. /\ t \in Procs /\ o # t /\ TypeOK /\ Control /\ Names(r, o, t, m)' /\ m \in Signals
      /\ m.type = "monitor" /\ m.monitor = o /\ m.ref = r
  BY NamesAre, NamesStay, StepOnward DEF Base
<1>2. Posted(t, m)
  BY Stages7
<1>3. CASE Posted(t, m)'
  BY <1>1, <1>3, StagesNext
<1>4. ASSUME NEW g \in Goroutines, Leads(g, t, m), Deposit(g) \/ Check(g)
      PROVE  \/ At(r, "posted")' \/ At(r, "waiting")' \/ At(r, "sent")'
             \/ ~monitor[r].spawned /\ [to |-> t, sig |-> m] \in past'.lost
  <2>1. ~monitor[r].spawned
    <3>1. 1 \in DOMAIN out[g] /\ Head(out[g]) = out[g][1]
      BY <1>4, HeadLetter DEF Leads, Base, Truthful
    <3> QED
      BY <1>1, <1>4, <3>1 DEF Ordered, Names, Leads
  <2>2. CASE Posted(t, m)' \/ Waiting(t, m)'
    BY <1>1, <2>2, StagesNext
  <2>3. CASE [to |-> t, sig |-> m] \in past'.lost
    BY <2>1, <2>3
  <2>4. CASE Posted(o, DownSig(t, r, "noproc"))'
    <3>1. IsDown(DownSig(t, r, "noproc"), r) /\ DownSig(t, r, "noproc").proc = t
      BY DEF IsDown, DownSig
    <3> QED
      BY <1>1, <2>4, <3>1, PostedDown
  <2> QED
    BY <1>1, <1>4, <2>2, <2>3, <2>4, SenderActs
<1> QED
  BY <1>1, <1>2, <1>3, <1>4, PostedStays

LEMMA WaitingOn ==
  ASSUME Base, Next, NEW r, NEW o, NEW t, NEW m, Names(r, o, t, m), Ordered(r), At(r, "waiting")
  PROVE  \/ At(r, "waiting")' \/ At(r, "watched")'
         \/ ~monitor[r].spawned /\ [to |-> t, sig |-> m] \in past'.lost
<1>1. /\ t \in Procs /\ o # t /\ TypeOK /\ Control /\ Names(r, o, t, m)' /\ m \in Signals
      /\ m.type = "monitor" /\ m.monitor = o /\ m.ref = r
  BY NamesAre, NamesStay, StepOnward DEF Base
<1>2. Waiting(t, m)
  BY Stages7
<1>3. CASE Waiting(t, m)'
  BY <1>1, <1>3, StagesNext
<1>4. CASE Takes(t, m)
  <2>1. Absorbs(t, m)
    BY <1>1, <1>4, TakesAbsorbs
  <2>2. Watch(r, o) \in monitors'[t]
    BY <1>1, <2>1, AbsorbMonitor DEF Watch
  <2> QED
    BY <1>1, <2>2, StagesNext
<1>5. CASE Drain(t) /\ receive[t] # <<>> /\ Head(receive[t]) = m /\ receive' = [receive EXCEPT ![t] = Tail(@)]
  <2>1. [to |-> t, sig |-> m] \in past'.lost
    BY <1>1, <1>5, DrainLoses
  <2>2. ~monitor[r].spawned
    BY <1>2 DEF Ordered, Names
  <2> QED
    BY <2>1, <2>2
<1> QED
  BY <1>1, <1>2, <1>3, <1>4, <1>5, WaitingStays DEF Takes

LEMMA WatchedOn ==
  ASSUME Base, Base', Next, NEW r, NEW o, NEW t, NEW m, Names(r, o, t, m), At(r, "watched")
  PROVE  \/ At(r, "watched")' \/ At(r, "sent")'
         \/ Gone(o) \/ r \in past.demonitored \/ Sibling(r)
<1>1. t \in Procs /\ o # t /\ TypeOK /\ Names(r, o, t, m)' /\ Run(t) \in Goroutines
  BY NamesAre, NamesStay, StepOnward DEF Base
<1>2. CASE Watch(r, o) \in monitors'[t]
  BY <1>1, <1>2, StagesNext
<1>3. CASE Notify(t) /\ NotifyMonitor(t, Watch(r, o))
  <2>1. PICK sig : sig = DownSig(t, r, reason[t])
    OBVIOUS
  <2>2. IsDown(sig, r) /\ sig.proc = t
    BY <2>1 DEF IsDown, DownSig
  <2>3. out' = [out EXCEPT ![Run(t)] = <<Letter(o, sig)>>]
    BY <1>3, <2>1 DEF NotifyMonitor, Watch
  <2>4. PICK l : l = Letter(o, sig)
    OBVIOUS
  <2>5. out'[Run(t)] = <<l>>
    BY <1>1, <2>3, <2>4, NewPut
  <2>6. 1 \in DOMAIN out'[Run(t)] /\ out'[Run(t)][1] = l
    BY <2>5
  <2>7. l.to = o /\ l.sig = sig
    BY <2>4 DEF Letter
  <2>8. Posted(o, sig)'
    BY <1>1, <2>6, <2>7 DEF Posted
  <2> QED
    BY <1>1, <2>2, <2>8, PostedDown
<1> QED
  BY <1>2, <1>3, Stages7, WatchedGone DEF Watch

LEMMA SentOn ==
  ASSUME Base, Base', Next, NEW r, NEW o, NEW t, NEW m, Names(r, o, t, m), At(r, "sent")
  PROVE  At(r, "sent")' \/ At(r, "back")' \/ Gone(o)
<1>1. /\ o \in Procs /\ o # t /\ TypeOK /\ Control /\ Names(r, o, t, m)' /\ Known(o)
  BY NamesAre, NamesStay, StepOnward DEF Base
<1>2. PICK g \in Goroutines : \E i \in DOMAIN out[g] : SentAt(r, g, i)
  BY Stages7
<1>3. PICK i \in DOMAIN out[g] : SentAt(r, g, i)
  BY <1>2
<1>4. IsSent(out[g][i], r) /\ out[g][i].to = o /\ out[g][i].sig.proc = t
  BY <1>3, SentIs
<1>5. PICK sig \in Signals : sig = out[g][i].sig
  BY <1>1, LetterAt
<1>6. IsDown(sig, r) /\ sig.proc = t /\ sig.type = "down"
  BY <1>4, <1>5 DEF IsSent, IsDown
<1>7. Posted(o, sig)
  BY <1>4, <1>5 DEF Posted
<1>8. CASE Posted(o, sig)'
  BY <1>1, <1>6, <1>8, PostedDown
<1>9. CASE Waiting(o, sig)'
  <2>1. \E k \in DOMAIN receive'[o] : IsDown(receive'[o][k], r)
    BY <1>6, <1>9 DEF Waiting
  <2> QED
    BY <1>1, <2>1, StagesNext
<1>10. closed[o] \/ status[o] # "RUNNING" => Gone(o)
  BY <1>1 DEF Control, TypeOK, Gone, Known
<1> QED
  BY <1>1, <1>7, <1>8, <1>9, <1>10, PostedStays, SenderActs

LEMMA BackOn ==
  ASSUME Base, Next, NEW r, NEW o, NEW t, NEW m, Names(r, o, t, m), At(r, "back"), Expected(r)
  PROVE  At(r, "back")' \/ At(r, "heard")' \/ Gone(o) \/ r \in past.demonitored
<1>1. /\ o \in Procs /\ o # t /\ TypeOK /\ Control /\ Names(r, o, t, m)' /\ Known(o)
  BY NamesAre, NamesStay, StepOnward DEF Base
<1>2. PICK i \in DOMAIN receive[o] : IsDown(receive[o][i], r)
  BY Stages7
<1>3. PICK sig \in Signals : sig = receive[o][i]
  <2>1. receive[o][i] \in Signals
    BY <1>1, WaitingIs
  <2> QED
    BY <2>1
<1>4. CASE Waiting(o, sig)'
  <2>1. \E k \in DOMAIN receive'[o] : IsDown(receive'[o][k], r)
    BY <1>2, <1>3, <1>4 DEF Waiting
  <2> QED
    BY <1>1, <2>1, StagesNext
<1>5. CASE Drain(o) \/ DrainNext(o)
  BY <1>1, <1>5 DEF Drain, DrainNext, Control, TypeOK, Gone
<1>6. CASE OnSignal(o) /\ Takes(o, sig) /\ ~Gone(o) /\ r \notin past.demonitored
  <2>1. 1 \in DOMAIN receive[o] /\ receive[o][1] = sig
    BY <1>1, <1>6, TakesHead DEF Takes
  <2>2. BackAt(r, 1) /\ Owner(r) = o
    BY <1>2, <1>3, <2>1 DEF BackAt, Names
  <2>3. KnownRef(o, r)
    BY <1>6, <2>1, <2>2 DEF Expected
  <2>4. mailbox' = [mailbox EXCEPT ![o] = Append(@, sig)]
    BY <1>2, <1>3, <1>6, <2>3 DEF Takes, OnSignal, OnBookkeeping, Bookkeeping, OnMessage, OnDown, OnExitSurvived,
       OnExitFatal, IsDown
  <2>5. mailbox \in [Procs -> Seq(Signals)]
    BY <1>1 DEF TypeOK
  <2>6. Len(mailbox[o]) + 1 \in DOMAIN mailbox'[o] /\ mailbox'[o][Len(mailbox[o]) + 1] = sig
    BY <1>1, <2>4, <2>5, Added
  <2>7. \E k \in DOMAIN mailbox'[o] : IsDown(mailbox'[o][k], r)
    BY <1>2, <1>3, <2>6
  <2> QED
    BY <1>1, <2>7, StagesNext
<1>7. Waiting(o, sig)
  BY <1>3 DEF Waiting
<1> QED
  BY <1>1, <1>4, <1>5, <1>6, <1>7, WaitingStays DEF Takes

\* Answerable, by every step.
LEMMA StepAnswerable ==
  ASSUME Base, Base', Next, NEW r \in DOMAIN monitor, Ordered(r), Expected(r), Answerable(r)
  PROVE  Answerable(r)'
<1>1. PICK o, t, m : Names(r, o, t, m)
  BY DEF Names
<1>2. /\ o \in Procs /\ t \in Procs /\ o # t /\ TypeOK /\ Onward /\ Names(r, o, t, m)'
  BY <1>1, NamesAre, NamesStay, StepOnward DEF Base
<1>3. Gone(o) \/ r \in past.demonitored \/ Sibling(r) => Answerable(r)'
  <2>1. Gone(o) => Gone(o)'
    BY <1>2 DEF Onward
  <2>2. r \in past.demonitored => r \in past'.demonitored
    BY <1>2 DEF Onward
  <2>3. Sibling(r) => Sibling(r)'
    <3>1. past.demonitored \subseteq DOMAIN monitor
      BY DEF Base, Truthful, SoundHistory
    <3> QED
      BY <1>2, <3>1 DEF Onward, Sibling
  <2>4. Owner(r)' = o
    BY <1>2 DEF Names
  <2> QED
    BY <2>1, <2>2, <2>3, <2>4 DEF Answerable
<1>4. (\E s \in Stages : At(r, s)') => Answerable(r)'
  BY DEF Answerable
<1>5. ~monitor[r].spawned /\ [to |-> t, sig |-> m] \in past'.lost => Answerable(r)'
  BY <1>2 DEF Answerable, Names, Onward
<1>6. ~monitor[r].spawned /\ [to |-> t, sig |-> m] \in past.lost => Answerable(r)'
  BY <1>2, <1>5 DEF Onward
<1>7. CASE At(r, "booting")
  <2>1. Booting(r) /\ pc[t] = "boot" /\ parent[t] = [kind |-> "monitor", pid |-> o, ref |-> r]
    BY <1>1, <1>7, Stages7 DEF Booting, Names
  <2>2. CASE pc'[t] = "boot"
    <3>1. parent'[t] = parent[t]
      BY <1>1, <1>2, NamesAre DEF Onward
    <3>2. Booting(r)'
      BY <1>2, <2>1, <2>2, <3>1 DEF Booting, Names
    <3> QED
      BY <1>2, <1>4, <3>2, StagesNext DEF Stages
  <2>3. CASE pc'[t] # "boot"
    <3>1. Watch(r, o) \in monitors'[t]
      BY <1>1, <1>2, <2>1, <2>3, BootGone, BootWatches
    <3> QED
      BY <1>2, <1>4, <3>1, StagesNext DEF Stages
  <2> QED
    BY <2>2, <2>3
<1>8. CASE At(r, "posted") \/ At(r, "waiting")
  BY <1>1, <1>4, <1>5, <1>8, PostedOn, WaitingOn DEF Stages
<1>9. CASE At(r, "watched")
  BY <1>1, <1>3, <1>4, <1>9, WatchedOn DEF Stages
<1>10. CASE At(r, "sent") \/ At(r, "back")
  BY <1>1, <1>3, <1>4, <1>10, SentOn, BackOn DEF Stages
<1>11. CASE At(r, "heard")
  <2>1. PICK i \in DOMAIN mailbox[o] : IsDown(mailbox[o][i], r)
    BY <1>1, <1>11, Stages7
  <2>2. Gone(o) \/ \E k \in DOMAIN mailbox'[o] : IsDown(mailbox'[o][k], r)
    BY <1>2, <2>1, HeardStays
  <2> QED
    BY <1>2, <1>3, <1>4, <2>2, StagesNext DEF Stages
<1> QED
  BY <1>1, <1>3, <1>6, <1>7, <1>8, <1>9, <1>10, <1>11 DEF Answerable, Stages, Names

-----------------------------------------------------------------------------
(* Expected.                                                               *)

\* The owner that takes its own half of a monitor knows the Ref.
LEMMA TakesKnows ==
  ASSUME Base, NEW r, NEW o, NEW t, NEW m, Names(r, o, t, m), Takes(o, m)
  PROVE  KnownRef(o, r)'
<1>1. o \in Procs /\ o # t /\ m \in Signals /\ m.type = "monitor" /\ m.monitor = o /\ m.ref = r
  BY NamesAre
<1>2. Absorbs(o, m)
  BY <1>1, TakesAbsorbs
<1>3. [ref |-> r, pid |-> m.monitored] \in monitoring'[o]
  BY <1>1, <1>2, AbsorbMonitor
<1> QED
  BY <1>3 DEF KnownRef

\* Who drains is gone.
LEMMA DrainsGone ==
  ASSUME Base, NEW p \in Procs, Drain(p) \/ DrainNext(p) \/ closed[p] \/ (status[p] # "RUNNING" /\ Known(p))
  PROVE  Gone(p)
  BY DEF Drain, DrainNext, Base, TypeOK, Control, Gone, Known

\* The owner's half is on its way, or has arrived.
LEMMA HalfStays ==
  ASSUME Base, Next, NEW r, NEW o, NEW t, NEW m, Names(r, o, t, m), ~Gone(o), r \notin past.demonitored,
         Booting(r) \/ Underway(o, m) \/ KnownRef(o, r)
  PROVE  Booting(r)' \/ Underway(o, m)' \/ KnownRef(o, r)'
<1>1. /\ o \in Procs /\ t \in Procs /\ o # t /\ m \in Signals /\ m = MonitorSig(r, o, t) /\ Known(o) /\ Known(t)
      /\ TypeOK /\ Onward /\ Names(r, o, t, m)' /\ Run(t) \in Goroutines
  BY NamesAre, NamesStay, StepOnward DEF Base
<1>2. CASE Booting(r)
  <2>1. pc[t] = "boot" /\ parent[t] = [kind |-> "monitor", pid |-> o, ref |-> r] /\ parent'[t] = parent[t]
    BY <1>1, <1>2 DEF Booting, Names, Onward
  <2>2. CASE pc'[t] = "boot"
    BY <1>1, <2>1, <2>2 DEF Booting, Names
  <2>3. CASE pc'[t] # "boot"
    <3>1. Boot(t)
      BY <1>1, <2>1, <2>3, BootGone
    <3>2. parent[t].kind = "monitor" /\ parent[t].pid = o /\ parent[t].ref = r
      BY <2>1
    <3>3. PICK l : l = Letter(o, m)
      OBVIOUS
    <3>4. BootLetters(t) = <<l>>
      BY <1>1, <3>2, <3>3 DEF BootLetters
    <3>5. out' = [out EXCEPT ![Run(t)] = <<l>>]
      BY <3>1, <3>4 DEF Boot
    <3>6. 1 \in DOMAIN <<l>> /\ <<l>>[1] = l /\ l.to = o /\ l.sig = m
      BY <3>3 DEF Letter
    <3>7. Posted(o, m)'
      BY <1>1, <3>5, <3>6, PutPosted
    <3> QED
      BY <3>7 DEF Underway
  <2> QED
    BY <2>2, <2>3
<1>3. CASE Underway(o, m)
  <2>1. CASE receive[o] # <<>> /\ Head(receive[o]) = m /\ receive' = [receive EXCEPT ![o] = Tail(@)] /\ OnSignal(o)
    <3>1. Takes(o, m)
      BY <2>1 DEF Takes
    <3> QED
      BY <3>1, TakesKnows
  <2> QED
    BY <1>1, <1>3, <2>1, UnderwayStays, DrainsGone
<1>4. CASE KnownRef(o, r)
  BY <1>4, KnownGone
<1> QED
  BY <1>2, <1>3, <1>4

\* An owner that has not demonitored expects the DOWN signal: handleDownSignal finds the Ref.
LEMMA StepExpected ==
  ASSUME Base, Next, NEW r \in DOMAIN monitor, Single(r), Ordered(r), Expected(r)
  PROVE  Expected(r)'
<1>1. PICK o, t, m : Names(r, o, t, m)
  BY DEF Names
<1>2. /\ o \in Procs /\ t \in Procs /\ o # t /\ TypeOK /\ Control /\ Onward /\ Names(r, o, t, m)'
      /\ m \in Signals /\ m.type = "monitor"
  BY <1>1, NamesAre, NamesStay, StepOnward DEF Base
<1>3. CASE Gone(o)' \/ r \in past'.demonitored
  BY <1>2, <1>3 DEF Expected, Names
<1>4. ASSUME ~Gone(o)', r \notin past'.demonitored
      PROVE  Expected(r)'
  <2>1. ~Gone(o) /\ r \notin past.demonitored
    BY <1>2, <1>4 DEF Onward
  <2>2. /\ Booting(r) \/ Underway(o, m) \/ KnownRef(o, r)
        /\ \A i \in DOMAIN receive[o] : IsDown(receive[o][i], r) =>
             KnownRef(o, r) \/ \E k \in 1 .. i - 1 : receive[o][k] = m
    BY <1>1, <2>1 DEF Expected, Names, BackAt
  <2>3. Booting(r)' \/ Underway(o, m)' \/ KnownRef(o, r)'
    BY <1>1, <2>1, <2>2, HalfStays
  <2>4. KnownRef(o, r) => KnownRef(o, r)'
    BY <1>1, <2>1, KnownGone
  <2>5. ASSUME NEW i \in DOMAIN receive'[o], IsDown(receive'[o][i], r), ~KnownRef(o, r)'
        PROVE  \E k \in 1 .. i - 1 : receive'[o][k] = m
    <3>1. CASE receive'[o] = receive[o]
      BY <2>2, <2>4, <2>5, <3>1
    <3>2. CASE /\ receive[o] # <<>> /\ DOMAIN receive[o] = 1 .. Len(receive[o]) /\ Len(receive[o]) \in Nat \ {0}
               /\ DOMAIN receive'[o] = 1 .. Len(receive[o]) - 1
               /\ \A k \in DOMAIN receive'[o] : receive'[o][k] = receive[o][k + 1]
               /\ OnSignal(o) \/ Drain(o) \/ DrainNext(o)
               /\ receive' = [receive EXCEPT ![o] = Tail(@)]
      <4>1. i + 1 \in DOMAIN receive[o] /\ IsDown(receive[o][i + 1], r) /\ i \in Nat
        BY <2>5, <3>2
      <4>2. PICK k \in 1 .. (i + 1) - 1 : receive[o][k] = m
        BY <2>2, <2>4, <2>5, <4>1
      <4>3. k # 1
        <5>1. OnSignal(o)
          BY <1>2, <2>1, <3>2, DrainsGone
        <5>2. PICK sig \in Signals : Takes(o, sig) /\ receive[o][1] = sig
          BY <1>2, <5>1, TakesHead
        <5> QED
          BY <1>1, <2>5, <4>2, <5>2, TakesKnows
      <4>4. k - 1 \in 1 .. i - 1 /\ k - 1 \in DOMAIN receive'[o] /\ k = (k - 1) + 1
        BY <2>5, <3>2, <4>1, <4>2, <4>3
      <4>5. receive'[o][k - 1] = m
        BY <3>2, <4>2, <4>4
      <4> QED
        BY <4>4, <4>5
    <3>3. ASSUME DOMAIN receive[o] = 1 .. Len(receive[o]), Len(receive[o]) \in Nat,
                 DOMAIN receive'[o] = 1 .. Len(receive[o]) + 1,
                 \A k \in DOMAIN receive[o] : receive'[o][k] = receive[o][k],
                 NEW g \in Goroutines, Deposit(g), Leads(g, o, receive'[o][Len(receive[o]) + 1])
          PROVE  \E k \in 1 .. i - 1 : receive'[o][k] = m
      <4>1. CASE i \in DOMAIN receive[o]
        <5>1. PICK k \in 1 .. i - 1 : receive[o][k] = m
          BY <2>2, <2>4, <2>5, <3>3, <4>1
        <5> QED
          BY <3>3, <4>1, <5>1
      <4>2. CASE i = Len(receive[o]) + 1
        <5>1. SentAt(r, g, 1) /\ At(r, "sent") /\ 1 \in DOMAIN out[g]
          BY <1>1, <2>5, <3>3, <4>2, SentFirst
        <5>2. Gone(t)
          BY <1>1, <5>1, SentIs
        <5>3. \A s \in Stages : At(r, s) => s = "sent"
          BY <5>1 DEF Single, Stages
        <5>4. ~Booting(r)
          BY <1>2, <5>2, <1>1 DEF Booting, Control, Gone, TypeOK, Names
        <5>5. ~Posted(t, m)
          BY <1>1, <5>3, Stages7 DEF Stages
        <5>6. ~Posted(o, m)
          <6> SUFFICES ASSUME NEW h \in Goroutines, NEW k \in DOMAIN out[h], out[h][k].to = o, out[h][k].sig = m
                       PROVE  FALSE
            BY DEF Posted
          <6>1. CASE monitor[r].spawned
            <7>1. pc[t] = "start"
              BY <1>1, <6>1 DEF Ordered, Names
            <7> QED
              BY <1>2, <5>2, <7>1 DEF Control, Gone, TypeOK
          <6>2. CASE ~monitor[r].spawned
            <7>1. Len(out[h]) = 2 /\ out[h][2] = Letter(t, m)
              BY <1>1, <6>2 DEF Ordered, Names
            <7>2. 2 \in DOMAIN out[h]
              BY <1>2, <7>1 DEF TypeOK
            <7>3. out[h][2].to = t /\ out[h][2].sig = m
              BY <7>1 DEF Letter
            <7> QED
              BY <5>5, <7>2, <7>3 DEF Posted
          <6> QED
            BY <6>1, <6>2
        <5>7. Waiting(o, m)
          BY <2>2, <2>4, <2>5, <5>4, <5>6 DEF Underway
        <5> QED
          BY <3>3, <4>2, <5>7 DEF Waiting
      <4> QED
        BY <2>5, <3>3, <4>1, <4>2
    <3> QED
      BY <1>2, <3>1, <3>2, <3>3, OneInbox
  <2> QED
    BY <1>2, <2>3, <2>5 DEF Expected, Names, BackAt
<1> QED
  BY <1>3, <1>4

-----------------------------------------------------------------------------
(* Hushed.                                                                 *)

\* Silenced is who demonitored a process that still runs.
LEMMA SilencedNew ==
  ASSUME Base, Next, NEW r, NEW o, NEW t, NEW m, Names(r, o, t, m),
         r \in past'.silenced, r \notin past.silenced
  PROVE  /\ \E g \in Goroutines : Deposit(g) /\ Leads(g, o, DemonitorSig(r, o))
         /\ r \in past.demonitored /\ status[t] = "RUNNING"
<1>1. past \in Past
  BY DEF Base, TypeOK
<1>2. ASSUME NEW g \in Goroutines, Deposit(g)
      PROVE  Leads(g, o, DemonitorSig(r, o)) /\ r \in past.demonitored /\ status[t] = "RUNNING"
  <2>1. /\ out[g] # <<>> /\ Head(out[g]).to \in Procs /\ Head(out[g]).sig \in Signals
        /\ Valid(g, Head(out[g])) /\ Head(out[g]).checked
    BY <1>2, HeadLetter DEF Base, Truthful, Deposit
  <2>2. PICK l : l = Head(out[g])
    OBVIOUS
  <2>3. \E x : past' = [past EXCEPT !.lost = @ \cup x, !.silenced = @ \cup Silenced(l)]
    BY <1>2, <2>2 DEF Deposit
  <2>4. past'.silenced = past.silenced \cup Silenced(l)
    BY <1>1, <2>3 DEF Past
  <2>5. l.sig.type = "demonitor" /\ l.sig.origin = l.to /\ l.sig.ref = r /\ status[t] = "RUNNING"
    BY <2>4 DEF Silenced, Names, Target
  <2>6. Sound(l.to, l.sig) /\ From(g, l)
    BY <2>1, <2>2, <2>5 DEF Valid, Void
  <2>7. l.to = o /\ r \in past.demonitored
    BY <2>5, <2>6 DEF Sound, From, Names
  <2>8. l.sig = DemonitorSig(r, o)
    BY <2>1, <2>2, <2>5, <2>7, Shapes
  <2> QED
    BY <2>1, <2>2, <2>5, <2>7, <2>8 DEF Leads
<1>3. ASSUME NEW p \in Procs, OnSignal(p)
      PROVE  FALSE
  <2>1. past' = past \/ \E sig : past' = Told(p, sig)
    BY <1>3 DEF OnSignal, OnBookkeeping, OnMessage, OnDown, OnExitSurvived, OnExitFatal
  <2> QED
    BY <1>1, <2>1 DEF Past, Told
<1>4. ASSUME NEW p \in Procs,
             \/ OnDone(p) \/ Drain(p)
             \/ \E q \in Procs : CallUnlink(p, q)
             \/ \E x \in DOMAIN monitor : CallDemonitor(p, x)
             \/ \E q \in Procs, why \in Reasons : CallExit(p, q, why)
      PROVE  FALSE
  <2>1. \/ past' = past
        \/ \E x : past' = [past EXCEPT !.lost = @ \cup x]
        \/ \E x : past' = [past EXCEPT !.unlinked = @ \cup x]
        \/ \E x : past' = [past EXCEPT !.returned = @ \cup x]
        \/ \E x : past' = [past EXCEPT !.demonitored = @ \cup x]
        \/ \E x : past' = [past EXCEPT !.killed = @ \cup x]
    BY <1>4 DEF OnDone, Drain, CallUnlink, CallDemonitor, CallExit
  <2> QED
    BY <1>1, <2>1 DEF Past
<1>5. \/ past' = past
      \/ \E g \in Goroutines : Deposit(g)
      \/ \E p \in Procs : \/ OnSignal(p) \/ OnDone(p) \/ Drain(p) \/ \E q \in Procs : CallUnlink(p, q)
                          \/ \E x \in DOMAIN monitor : CallDemonitor(p, x)
                          \/ \E q \in Procs, why \in Reasons : CallExit(p, q, why)
  BY ZenonT(40), Steps DEF Check, CallLink, CallMonitor, CallSend,
    CallTrapExit, CallSpawnAlone, CallSpawnLink, CallSpawnMonitor, CallSpawn, Boot, Start,
    DrainNext, DrainDone, Notify, CloseMailbox, EndExit, Panic, Return
<1> QED
  BY <1>2, <1>3, <1>4, <1>5

\* What Demonitor and a DOWN signal find.
Knows(r, o, m) == KnownRef(o, r) \/ Waiting(o, m)

\* After Demonitor no half of the monitor is on its way.
LEMMA DemonitoredUnposted ==
  ASSUME NEW r, NEW o, NEW t, NEW m, Names(r, o, t, m), Ordered(r), r \in past.demonitored, ~monitor[r].spawned,
         NEW q
  PROVE  ~Posted(q, m)
  BY DEF Ordered, Names, Posted

\* A Ref that was demonitored is not taken up again.
LEMMA KnowsNothingNew ==
  ASSUME Base, Next, NEW r, NEW o, NEW t, NEW m, Names(r, o, t, m), Ordered(r), r \in past.demonitored,
         ~monitor[r].spawned, Knows(r, o, m)'
  PROVE  Knows(r, o, m)
<1>1. o \in Procs
  BY NamesAre
<1>2. ~Posted(o, m)
  BY DemonitoredUnposted
<1>3. CASE Waiting(o, m)'
  BY <1>1, <1>2, <1>3, NewWaiting, LeadsPosted DEF Knows
<1>4. CASE KnownRef(o, r)' /\ ~KnownRef(o, r)
  <2>1. Takes(o, m)
    BY <1>4, KnownNew
  <2>2. 1 \in DOMAIN receive[o] /\ receive[o][1] = m
    BY <1>1, <2>1, TakesHead DEF Takes
  <2> QED
    BY <2>2 DEF Waiting, Knows
<1> QED
  BY <1>3, <1>4 DEF Knows

\* The owner that takes its demonitor does not know the Ref any more.
LEMMA TakesForgets ==
  ASSUME Base, Next, NEW r, NEW o, NEW t, NEW m, Names(r, o, t, m), Ordered(r), r \in past.demonitored,
         ~monitor[r].spawned, ~Gone(o), Takes(o, DemonitorSig(r, o))
  PROVE  ~Knows(r, o, m)'
<1>1. PICK d : d = DemonitorSig(r, o)
  OBVIOUS
<1>2. /\ o \in Procs /\ r \in Refs /\ d \in Signals
      /\ d.type = "demonitor" /\ d.origin = o /\ d.ref = r
  BY <1>1, NamesAre, Constructed DEF DemonitorSig
<1>3. Absorbs(o, d)
  BY <1>1, <1>2, TakesAbsorbs
<1>4. ~KnownRef(o, r)'
  BY <1>2, <1>3, AbsorbMonitor DEF KnownRef
<1>5. 1 \in DOMAIN receive[o] /\ receive[o][1] = d
  BY <1>1, <1>2, TakesHead DEF Takes
<1>6. \A k \in DOMAIN receive[o] : receive[o][k] = m => k < 1
  BY <1>1, <1>5 DEF Ordered, Names
<1>7. DOMAIN receive[o] = 1 .. Len(receive[o]) /\ Len(receive[o]) \in Nat
  BY <1>2 DEF Base, TypeOK
<1>8. ~Waiting(o, m)
  BY <1>6, <1>7 DEF Waiting
<1>9. ~Waiting(o, m)'
  BY <1>2, <1>8, NewWaiting, LeadsPosted, DemonitoredUnposted
<1> QED
  BY <1>4, <1>9 DEF Knows

\* Once the Demonitor is in time, no DOWN signal gets through ...
LEMMA HushedOnce ==
  ASSUME Base, Next, NEW r \in DOMAIN monitor, Ordered(r), Ordered(r)', Hushed(r), r \in past.silenced
  PROVE  Hushed(r)'
<1>1. PICK o, t, m : Names(r, o, t, m)
  BY DEF Names
<1>2. /\ o \in Procs /\ t \in Procs /\ o # t /\ TypeOK /\ Control /\ Onward /\ Names(r, o, t, m)'
      /\ m \in Signals /\ m.type = "monitor"
  BY <1>1, NamesAre, NamesStay, StepOnward DEF Base
<1>3. r \in past.demonitored
  BY DEF Base, Truthful, SoundHistory
<1>4. CASE monitor[r].spawned
  BY <1>2, <1>4 DEF Hushed, Onward
<1>5. ASSUME ~monitor[r].spawned
      PROVE  Hushed(r)'
  <2> DEFINE d == DemonitorSig(r, o)
  <2>1. /\ ~Posted(o, m) /\ ~At(r, "heard")
        /\ ~Gone(o) =>
             /\ Knows(r, o, m) => Waiting(o, d)
             /\ \A i \in DOMAIN receive[o] : IsDown(receive[o][i], r) =>
                  ~Knows(r, o, m) \/ \E j \in 1 .. i - 1 : receive[o][j] = d
    BY <1>1, <1>5 DEF Hushed, Names, Knows, BackAt
  <2>2. ~Posted(o, m)'
    <3>1. \A g \in Goroutines : \A i \in DOMAIN out'[g] : out'[g][i].sig # m
      BY <1>2, <1>3, <1>5 DEF Ordered, Names, Onward
    <3> QED
      BY <3>1 DEF Posted
  <2>3. ~At(r, "heard")'
    <3> SUFFICES ASSUME NEW i \in DOMAIN mailbox'[o], IsDown(mailbox'[o][i], r)
                 PROVE  FALSE
      BY <1>2, StagesNext
    <3>1. ~(i \in DOMAIN mailbox[o] /\ IsDown(mailbox[o][i], r))
      BY <1>1, <2>1, Stages7
    <3>2. PICK sig \in Signals : Takes(o, sig) /\ IsDown(sig, r) /\ pc[o] = "loop" /\ KnownRef(o, r)
      BY <1>2, <3>1, HeardNew
    <3>3. ~Gone(o)
      BY <1>2, <3>2 DEF Control, Gone, TypeOK
    <3>4. 1 \in DOMAIN receive[o] /\ receive[o][1] = sig
      BY <1>2, <3>2, TakesHead DEF Takes
    <3>5. \E j \in 1 .. 1 - 1 : receive[o][j] = d
      BY <2>1, <3>2, <3>3, <3>4 DEF Knows
    <3> QED
      BY <3>5
  <2>4. ASSUME ~Gone(o)'
        PROVE  /\ Knows(r, o, m)' => Waiting(o, d)'
               /\ \A i \in DOMAIN receive'[o] : IsDown(receive'[o][i], r) =>
                    ~Knows(r, o, m)' \/ \E j \in 1 .. i - 1 : receive'[o][j] = d
    <3>1. ~Gone(o)
      BY <1>2, <2>4 DEF Onward
    <3>2. Knows(r, o, m)' => Knows(r, o, m)
      BY <1>1, <1>3, <1>5, KnowsNothingNew
    <3>3. Knows(r, o, m)' => ~Takes(o, d)
      BY <1>1, <1>3, <1>5, <3>1, TakesForgets
    <3>4. ~Drain(o) /\ ~DrainNext(o)
      BY <1>2, <3>1, DrainsGone
    <3> HIDE DEF d
    <3>5. ASSUME Knows(r, o, m)'
          PROVE  Waiting(o, d)'
      BY <1>2, <2>1, <3>1, <3>2, <3>3, <3>4, <3>5, WaitingStays DEF Takes
    <3>6. ASSUME NEW i \in DOMAIN receive'[o], IsDown(receive'[o][i], r), Knows(r, o, m)'
          PROVE  \E j \in 1 .. i - 1 : receive'[o][j] = d
      <4>1. /\ Waiting(o, d)
            /\ \A k \in DOMAIN receive[o] : IsDown(receive[o][k], r) => \E j \in 1 .. k - 1 : receive[o][j] = d
        BY <2>1, <3>1, <3>2, <3>6
      <4>2. CASE receive'[o] = receive[o]
        BY <3>6, <4>1, <4>2
      <4>3. CASE /\ receive[o] # <<>> /\ DOMAIN receive[o] = 1 .. Len(receive[o]) /\ Len(receive[o]) \in Nat \ {0}
                 /\ DOMAIN receive'[o] = 1 .. Len(receive[o]) - 1
                 /\ \A k \in DOMAIN receive'[o] : receive'[o][k] = receive[o][k + 1]
                 /\ OnSignal(o) \/ Drain(o) \/ DrainNext(o)
                 /\ receive' = [receive EXCEPT ![o] = Tail(@)]
        <5>1. i + 1 \in DOMAIN receive[o] /\ IsDown(receive[o][i + 1], r) /\ i \in Nat
          BY <3>6, <4>3
        <5>2. PICK k \in 1 .. (i + 1) - 1 : receive[o][k] = d
          BY <4>1, <5>1
        <5>3. k # 1
          <6>1. PICK sig \in Signals : Takes(o, sig) /\ receive[o][1] = sig
            BY <1>2, <3>4, <4>3, TakesHead
          <6> QED
            BY <3>3, <3>6, <5>2, <6>1
        <5>4. k - 1 \in 1 .. i - 1 /\ k - 1 \in DOMAIN receive'[o] /\ k = (k - 1) + 1
          BY <3>6, <4>3, <5>1, <5>2, <5>3
        <5>5. receive'[o][k - 1] = d
          BY <4>3, <5>2, <5>4
        <5> QED
          BY <5>4, <5>5
      <4>4. CASE /\ DOMAIN receive[o] = 1 .. Len(receive[o]) /\ Len(receive[o]) \in Nat
                 /\ DOMAIN receive'[o] = 1 .. Len(receive[o]) + 1
                 /\ \A k \in DOMAIN receive[o] : receive'[o][k] = receive[o][k]
        <5>1. CASE i \in DOMAIN receive[o]
          <6>1. PICK j \in 1 .. i - 1 : receive[o][j] = d
            BY <3>6, <4>1, <4>4, <5>1
          <6>2. j \in DOMAIN receive[o]
            BY <4>4, <5>1, <6>1
          <6> QED
            BY <4>4, <6>1, <6>2
        <5>2. CASE i = Len(receive[o]) + 1
          <6>1. PICK j \in DOMAIN receive[o] : receive[o][j] = d
            BY <4>1 DEF Waiting
          <6> QED
            BY <4>4, <5>2, <6>1
        <5> QED
          BY <3>6, <4>4, <5>1, <5>2
      <4> QED
        BY <1>2, <4>2, <4>3, <4>4, OneInbox
    <3> QED
      BY <3>5, <3>6
  <2> QED
    BY <1>2, <2>2, <2>3, <2>4 DEF Hushed, Names, Knows, BackAt
<1> QED
  BY <1>4, <1>5

\* ... and it is in time if run takes it before the DOWN signal.
LEMMA StepHushed ==
  ASSUME Base, Base', Next, NEW r \in DOMAIN monitor, Ordered(r), Ordered(r)', Hushed(r)
  PROVE  Hushed(r)'
<1>1. PICK o, t, m : Names(r, o, t, m)
  BY DEF Names
<1>2. /\ o \in Procs /\ t \in Procs /\ o # t /\ TypeOK /\ Control /\ Onward /\ Names(r, o, t, m)'
      /\ m \in Signals /\ m.type = "monitor" /\ Known(o) /\ r \in Refs
  BY <1>1, NamesAre, NamesStay, StepOnward DEF Base
<1>3. CASE r \in past.silenced
  BY <1>3, HushedOnce
<1>4. CASE r \notin past'.silenced
  BY <1>4 DEF Hushed
<1>5. CASE monitor[r].spawned
  BY <1>2, <1>5 DEF Hushed, Onward
<1>6. ASSUME r \notin past.silenced, r \in past'.silenced, ~monitor[r].spawned
      PROVE  Hushed(r)'
  <2>1. PICK d : d = DemonitorSig(r, o)
    OBVIOUS
  <2>2. PICK g \in Goroutines : Deposit(g) /\ Leads(g, o, d)
    BY <1>1, <1>6, <2>1, SilencedNew
  <2>3. r \in past.demonitored /\ status[t] = "RUNNING" /\ status' = status
    BY <1>1, <1>6, <2>2, SilencedNew DEF Deposit
  <2>4. ~Gone(t)'
    BY <2>3 DEF Gone
  <2>5. ~Posted(o, m)'
    <3>1. \A h \in Goroutines : \A i \in DOMAIN out'[h] : out'[h][i].sig # m
      BY <1>2, <1>6, <2>3 DEF Ordered, Names, Onward
    <3> QED
      BY <3>1 DEF Posted
  <2>6. ASSUME NEW sig, Sound(o, sig)', IsDown(sig, r)
        PROVE  FALSE
    <3>1. Gone(sig.proc)' /\ sig.proc = Target(r)'
      BY <2>6 DEF Sound, IsDown
    <3>2. Target(r)' = t
      BY <1>2 DEF Names
    <3> QED
      BY <2>4, <3>1, <3>2
  <2>7. ~At(r, "heard")'
    <3> SUFFICES ASSUME NEW i \in DOMAIN mailbox'[o], IsDown(mailbox'[o][i], r)
                 PROVE  FALSE
      BY <1>2, StagesNext
    <3>1. PICK sig : sig = mailbox'[o][i]
      OBVIOUS
    <3>2. Sound(o, sig)'
      BY <1>2, <3>1 DEF Base, Truthful, SoundInboxes
    <3> QED
      BY <2>6, <3>1, <3>2
  <2>8. ASSUME NEW i \in DOMAIN receive'[o], IsDown(receive'[o][i], r)
        PROVE  FALSE
    <3>1. PICK sig : sig = receive'[o][i]
      OBVIOUS
    <3>2. Sound(o, sig)'
      BY <1>2, <3>1 DEF Base, Truthful, SoundInboxes
    <3> QED
      BY <2>6, <2>8, <3>1, <3>2
  <2>9. ASSUME ~Gone(o)'
        PROVE  Waiting(o, d)'
    <3>1. ~closed[o]
      BY ZenonT(40), <1>2, <2>2, <2>9 DEF Deposit, Control, Gone, TypeOK, Onward
    <3>2. receive' = [receive EXCEPT ![o] = Append(@, d)]
      BY <2>2, <3>1 DEF Deposit, Leads
    <3>3. receive \in [Procs -> Seq(Signals)]
      BY <1>2 DEF TypeOK
    <3>4. Len(receive[o]) + 1 \in DOMAIN receive'[o] /\ receive'[o][Len(receive[o]) + 1] = d
      BY <1>2, <3>2, <3>3, Added
    <3> QED
      BY <3>4 DEF Waiting
  <2> QED
    BY <1>2, <2>1, <2>5, <2>7, <2>8, <2>9 DEF Hushed, Names, BackAt
<1> QED
  BY <1>3, <1>4, <1>5, <1>6

-----------------------------------------------------------------------------
(* A new Ref.                                                              *)

\* A Ref is new where MakeRef is called.
LEMMA NewRef ==
  ASSUME Base, Next, NEW r \in DOMAIN monitor', r \notin DOMAIN monitor
  PROVE  \E p \in Procs : \E q \in Procs \ {p} : (CallMonitor(p, q) \/ CallSpawnMonitor(p, q)) /\ r = NextRef
<1>1. TypeOK
  BY DEF Base
<1>2. ASSUME NEW p \in Procs, NEW q \in Procs \ {p}, CallMonitor(p, q) \/ CallSpawnMonitor(p, q)
      PROVE  r = NextRef
  <2>1. PICK spawned \in BOOLEAN : Monitors(p, q, spawned)
    BY <1>2 DEF CallMonitor, CallSpawnMonitor
  <2>2. DOMAIN monitor' = DOMAIN monitor \cup {NextRef}
    BY <1>1, <2>1, MonitorsTypes
  <2> QED
    BY <2>2
<1>3. \/ monitor' = monitor
      \/ \E p \in Procs : \E q \in Procs \ {p} : CallMonitor(p, q) \/ CallSpawnMonitor(p, q)
  BY ZenonT(40), Steps DEF Check, Deposit, CallLink, CallUnlink, CallSend, CallExit, CallDemonitor,
    CallTrapExit, CallSpawnAlone, CallSpawnLink, Boot, Start, OnSignal, OnBookkeeping, OnMessage, OnDown,
    OnExitSurvived, OnExitFatal, OnDone, Drain,
    DrainNext, DrainDone, Notify, CloseMailbox, EndExit, Panic, Return
<1> QED
  BY <1>2, <1>3

\* Nothing says anything about it yet.
LEMMA Unheard ==
  ASSUME Base, NEW r, r \notin DOMAIN monitor
  PROVE  /\ \A g \in Goroutines : \A i \in DOMAIN out[g] :
              /\ out[g][i].sig.type = "monitor" => out[g][i].sig.ref # r
              /\ IsDown(out[g][i].sig, r) => out[g][i].sig.proc = out[g][i].to
         /\ \A p \in Procs : \A i \in DOMAIN receive[p] :
              receive[p][i].type \in {"monitor", "down"} => receive[p][i].ref # r
         /\ \A p \in Procs : \A i \in DOMAIN mailbox[p] : ~IsDown(mailbox[p][i], r)
         /\ \A p \in Procs : \A w \in monitors[p] : w.ref # r
         /\ \A p \in Procs : parent[p].kind = "monitor" => parent[p].ref # r
         /\ r \notin past.demonitored /\ r \notin past.silenced
<1>1. ASSUME NEW g \in Goroutines, NEW i \in DOMAIN out[g]
      PROVE  /\ out[g][i].sig.type = "monitor" => out[g][i].sig.ref # r
             /\ IsDown(out[g][i].sig, r) => out[g][i].sig.proc = out[g][i].to
  <2>1. Valid(g, out[g][i])
    BY <1>1 DEF Base, Truthful, SoundLetters
  <2> QED
    BY <2>1 DEF Valid, Void, Sound, IsDown
<1>2. \A p \in Procs : \A i \in DOMAIN receive[p] :
        receive[p][i].type \in {"monitor", "down"} => receive[p][i].ref # r
  BY DEF Base, Truthful, SoundInboxes, Sound
<1>3. \A p \in Procs : \A i \in DOMAIN mailbox[p] : ~IsDown(mailbox[p][i], r)
  BY DEF Base, Truthful, SoundInboxes, Sound, IsDown
<1>4. /\ \A p \in Procs : \A w \in monitors[p] : w.ref # r
      /\ \A p \in Procs : parent[p].kind = "monitor" => parent[p].ref # r
  BY DEF Base, Truthful, SoundLists
<1>5. r \notin past.demonitored /\ r \notin past.silenced
  BY DEF Base, Truthful, SoundHistory
<1> QED
  BY <1>1, <1>2, <1>3, <1>4, <1>5

\* Where it is when the call is made.
LEMMA NewStages ==
  ASSUME Base, Base', Next, NEW r, r \notin DOMAIN monitor, NEW o \in Procs, NEW t \in Procs, NEW m,
         Names(r, o, t, m)',
         UNCHANGED <<receive, mailbox, monitors, past>>,
         \A g \in Goroutines : \A i \in DOMAIN out'[g] :
           out'[g][i].sig.type = "monitor" \/ \E j \in DOMAIN out[g] : out'[g][i] = out[g][j]
  PROVE  /\ \A s \in Stages : At(r, s)' => s \in {"booting", "posted"}
         /\ \A q \in Procs : ~Waiting(q, m)'
         /\ \A i \in DOMAIN receive'[o] : ~IsDown(receive'[o][i], r)
         /\ \A i \in DOMAIN mailbox'[o] : ~IsDown(mailbox'[o][i], r)
         /\ \A g \in Goroutines : \A i \in DOMAIN out'[g] : ~SentAt(r, g, i)'
<1>1. m.type = "monitor" /\ m.ref = r
  BY DEF Names, MonSig, MonitorSig
<1>2. \A q \in Procs : ~Waiting(q, m)'
  BY <1>1, Unheard DEF Waiting
<1>3. \A i \in DOMAIN receive'[o] : ~IsDown(receive'[o][i], r)
  BY Unheard DEF IsDown
<1>4. \A i \in DOMAIN mailbox'[o] : ~IsDown(mailbox'[o][i], r)
  BY Unheard
<1>5. ASSUME NEW g \in Goroutines, NEW i \in DOMAIN out'[g], SentAt(r, g, i)'
      PROVE  FALSE
  <2>1. IsSent(out'[g][i], r)
    BY <1>5, SentNext
  <2>2. PICK j \in DOMAIN out[g] : out'[g][i] = out[g][j]
    BY <2>1 DEF IsSent, IsDown
  <2> QED
    BY <2>1, <2>2, Unheard DEF IsSent
<1>6. Watch(r, o) \notin monitors'[t]
  BY Unheard DEF Watch
<1>7. \A s \in Stages : At(r, s)' => s \in {"booting", "posted"}
  BY <1>2, <1>3, <1>4, <1>5, <1>6, StagesNext DEF Stages
<1> QED
  BY <1>2, <1>3, <1>4, <1>5, <1>7

\* A Ref that Monitor has just made ...
LEMMA CallMonitorHolds ==
  ASSUME Base, Base', Next, NEW p \in Procs, NEW q \in Procs \ {p}, CallMonitor(p, q), NEW r, r = NextRef
  PROVE  Single(r)' /\ Answerable(r)' /\ Ordered(r)' /\ Expected(r)' /\ Hushed(r)'
<1>1. /\ r \notin DOMAIN monitor /\ r \in DOMAIN monitor'
      /\ monitor'[r] = [owner |-> p, target |-> q, spawned |-> FALSE] /\ TypeOK /\ r \in Refs
  BY MonitorsTypes DEF CallMonitor, Base
<1>2. PICK m : m = MonitorSig(r, p, q)
  OBVIOUS
<1>3. Names(r, p, q, m)' /\ monitor'[r].spawned = FALSE /\ Owner(r)' = p /\ Target(r)' = q /\ MonSig(r)' = m
  BY <1>1, <1>2 DEF Names, Owner, Target, MonSig
<1>4. m.type = "monitor" /\ m.ref = r
  BY <1>2 DEF MonitorSig
<1>5. PICK a, b : a = Letter(p, m) /\ b = Letter(q, m)
  OBVIOUS
<1>6. /\ a.to = p /\ a.sig = m /\ b.to = q /\ b.sig = m
  BY <1>5 DEF Letter
<1>7. /\ out' = [out EXCEPT ![Rbl(p)] = <<a, b>>]
      /\ UNCHANGED <<receive, mailbox, monitors, past, parent, pc>>
  BY <1>2, <1>5 DEF CallMonitor, Call, procVars
<1>8. /\ out'[Rbl(p)] = <<a, b>> /\ \A g \in Goroutines : g # Rbl(p) => out'[g] = out[g]
      /\ Rbl(p) \in Goroutines
  BY <1>1, <1>7, NewPut, Sides
<1>9. /\ DOMAIN out'[Rbl(p)] = {1, 2} /\ out'[Rbl(p)][1] = a /\ out'[Rbl(p)][2] = b /\ Len(out'[Rbl(p)]) = 2
  BY <1>8
<1>10. \A g \in Goroutines : \A i \in DOMAIN out'[g] :
         out'[g][i].sig.type = "monitor" \/ \E j \in DOMAIN out[g] : out'[g][i] = out[g][j]
  BY <1>4, <1>6, <1>8, <1>9
<1>11. /\ \A s \in Stages : At(r, s)' => s \in {"booting", "posted"}
       /\ \A x \in Procs : ~Waiting(x, m)'
       /\ \A i \in DOMAIN receive'[p] : ~IsDown(receive'[p][i], r)
       /\ \A i \in DOMAIN mailbox'[p] : ~IsDown(mailbox'[p][i], r)
       /\ \A g \in Goroutines : \A i \in DOMAIN out'[g] : ~SentAt(r, g, i)'
  BY <1>1, <1>3, <1>7, <1>10, NewStages
<1>12. ~At(r, "booting")'
  <2>1. parent'[q] # [kind |-> "monitor", pid |-> p, ref |-> r]
    BY <1>1, <1>7, Unheard
  <2> QED
    BY <1>3, <2>1, StagesNext DEF Booting
<1>13. Posted(p, m)' /\ Posted(q, m)'
  BY <1>6, <1>8, <1>9 DEF Posted
<1>14. At(r, "posted")'
  BY <1>3, <1>13, StagesNext
<1>15. Single(r)'
  <2>1. \A s, u \in Stages : At(r, s)' /\ At(r, u)' => s = u
    BY <1>11, <1>12
  <2>2. \A i \in DOMAIN receive'[q] : receive'[q][i] # m
    BY <1>11 DEF Waiting
  <2> QED
    BY <1>3, <1>11, <2>1, <2>2 DEF Single, BackAt, HeardAt
<1>16. Answerable(r)'
  BY <1>14 DEF Answerable, Stages
<1>17. r \notin past'.demonitored /\ r \notin past'.silenced
  BY <1>1, <1>7, Unheard
<1>18. Ordered(r)'
  <2>1. ASSUME NEW g \in Goroutines, NEW i \in DOMAIN out'[g], out'[g][i].sig = m
        PROVE  /\ g = Rbl(p)
               /\ out'[g][i].to = q => i = Len(out'[g])
               /\ out'[g][i].to = p => i = 1 /\ Len(out'[g]) = 2 /\ out'[g][2] = Letter(q, m)
    <3>1. g = Rbl(p)
      BY <1>1, <1>4, <1>8, <2>1, Unheard
    <3> QED
      BY <1>5, <1>6, <1>9, <2>1, <3>1
  <2>2. \A k \in DOMAIN receive'[p] : receive'[p][k] # m
    BY <1>11 DEF Waiting
  <2> QED
    BY <1>3, <1>17, <2>1, <2>2 DEF Ordered
<1>19. Expected(r)'
  BY <1>3, <1>11, <1>13 DEF Expected, Underway, BackAt
<1>20. Hushed(r)'
  BY <1>17 DEF Hushed
<1> QED
  BY <1>15, <1>16, <1>18, <1>19, <1>20

\* ... and one that SpawnMonitor has.
LEMMA CallSpawnMonitorHolds ==
  ASSUME Base, Base', Next, NEW p \in Procs, NEW q \in Procs \ {p}, CallSpawnMonitor(p, q), NEW r, r = NextRef
  PROVE  Single(r)' /\ Answerable(r)' /\ Ordered(r)' /\ Expected(r)' /\ Hushed(r)'
<1>1. /\ r \notin DOMAIN monitor /\ r \in DOMAIN monitor'
      /\ monitor'[r] = [owner |-> p, target |-> q, spawned |-> TRUE] /\ TypeOK /\ r \in Refs
  BY MonitorsTypes DEF CallSpawnMonitor, Base
<1>2. PICK m : m = MonitorSig(r, p, q)
  OBVIOUS
<1>3. Names(r, p, q, m)' /\ monitor'[r].spawned = TRUE /\ Owner(r)' = p /\ Target(r)' = q /\ MonSig(r)' = m
  BY <1>1, <1>2 DEF Names, Owner, Target, MonSig
<1>4. m.type = "monitor" /\ m.ref = r
  BY <1>2 DEF MonitorSig
<1>5. /\ out' = [out EXCEPT ![Rbl(p)] = <<>>]
      /\ UNCHANGED <<receive, mailbox, monitors, past>>
      /\ pc' = [pc EXCEPT ![q] = "boot"]
      /\ parent' = [parent EXCEPT ![q] = [kind |-> "monitor", pid |-> p, ref |-> r]]
  BY DEF CallSpawnMonitor, CallSpawn, Call
<1>6. \A g \in Goroutines : out'[g] = out[g] \/ out'[g] = <<>>
  BY <1>1, <1>5, NewPut, Sides
<1>7. \A g \in Goroutines : \A i \in DOMAIN out'[g] : i \in DOMAIN out[g] /\ out'[g][i] = out[g][i]
  BY <1>6
<1>8. /\ \A s \in Stages : At(r, s)' => s \in {"booting", "posted"}
      /\ \A x \in Procs : ~Waiting(x, m)'
      /\ \A i \in DOMAIN receive'[p] : ~IsDown(receive'[p][i], r)
      /\ \A i \in DOMAIN mailbox'[p] : ~IsDown(mailbox'[p][i], r)
      /\ \A g \in Goroutines : \A i \in DOMAIN out'[g] : ~SentAt(r, g, i)'
  BY <1>1, <1>3, <1>5, <1>7, NewStages
<1>9. \A g \in Goroutines : \A i \in DOMAIN out'[g] : out'[g][i].sig # m
  BY <1>1, <1>4, <1>7, Unheard
<1>10. ~At(r, "posted")'
  BY <1>3, <1>9, StagesNext DEF Posted
<1>11. Booting(r)'
  <2>1. pc'[q] = "boot" /\ parent'[q] = [kind |-> "monitor", pid |-> p, ref |-> r]
    BY <1>1, <1>5 DEF TypeOK
  <2> QED
    BY <1>3, <2>1 DEF Booting
<1>12. At(r, "booting")'
  BY <1>3, <1>11, StagesNext
<1>13. Single(r)'
  <2>1. \A s, u \in Stages : At(r, s)' /\ At(r, u)' => s = u
    BY <1>8, <1>10
  <2>2. \A i \in DOMAIN receive'[q] : receive'[q][i] # m
    BY <1>8 DEF Waiting
  <2> QED
    BY <1>3, <1>8, <2>1, <2>2 DEF Single, BackAt, HeardAt
<1>14. Answerable(r)'
  BY <1>12 DEF Answerable, Stages
<1>15. Ordered(r)'
  BY <1>3, <1>8, <1>9 DEF Ordered
<1>16. Expected(r)'
  BY <1>3, <1>8, <1>11 DEF Expected, BackAt
<1>17. Hushed(r)'
  BY <1>3 DEF Hushed
<1> QED
  BY <1>13, <1>14, <1>15, <1>16, <1>17

\* Monitored: the Refs that exist, and the one that is new.
LEMMA StepMonitored ==
  ASSUME Base, Base', Next, Monitored
  PROVE  Monitored'
<1> SUFFICES ASSUME NEW r \in DOMAIN monitor'
             PROVE  Single(r)' /\ Answerable(r)' /\ Ordered(r)' /\ Expected(r)' /\ Hushed(r)'
  BY DEF Monitored
<1>1. CASE r \in DOMAIN monitor
  <2>1. Single(r) /\ Answerable(r) /\ Ordered(r) /\ Expected(r) /\ Hushed(r)
    BY <1>1 DEF Monitored
  <2>2. Ordered(r)'
    BY <1>1, <2>1, StepOrdered
  <2> QED
    BY <1>1, <2>1, <2>2, StepSingle, StepAnswerable, StepExpected, StepHushed
<1>2. CASE r \notin DOMAIN monitor
  BY <1>2, NewRef, CallMonitorHolds, CallSpawnMonitorHolds
<1> QED
  BY <1>1, <1>2

-----------------------------------------------------------------------------
(* The properties.                                                         *)

\* Where the DownMsg of a Ref can be.
LEMMA DownsAre ==
  ASSUME Base, NEW r, NEW o, NEW t, NEW m, Names(r, o, t, m)
  PROVE  /\ \A x \in Downs(r) : \E i \in DOMAIN mailbox[o] : x = <<o, i>> /\ HeardAt(r, i)
         /\ \A i \in DOMAIN mailbox[o] : HeardAt(r, i) => <<o, i>> \in Downs(r)
<1>1. o = Owner(r) /\ o \in Procs
  BY NamesAre DEF Names
<1>2. ASSUME NEW p \in Procs, NEW i \in DOMAIN mailbox[p], IsDown(mailbox[p][i], r)
      PROVE  p = o
  <2>1. Sound(p, mailbox[p][i])
    BY <1>2 DEF Base, Truthful, SoundInboxes
  <2> QED
    BY <1>1, <1>2, <2>1 DEF Sound, IsDown
<1>3. ASSUME NEW x \in Downs(r)
      PROVE  \E i \in DOMAIN mailbox[o] : x = <<o, i>> /\ HeardAt(r, i)
  <2>1. PICK p \in Procs : x \in {<<p, i>> : i \in {j \in DOMAIN mailbox[p] : IsDown(mailbox[p][j], r)}}
    BY <1>3 DEF Downs
  <2>2. PICK i \in DOMAIN mailbox[p] : x = <<p, i>> /\ IsDown(mailbox[p][i], r)
    BY <2>1
  <2>3. p = o
    BY <1>2, <2>2
  <2> QED
    BY <1>1, <2>2, <2>3 DEF HeardAt
<1>4. ASSUME NEW i \in DOMAIN mailbox[o], HeardAt(r, i)
      PROVE  <<o, i>> \in Downs(r)
  BY <1>1, <1>4 DEF HeardAt, Downs
<1> QED
  BY <1>3, <1>4

\* What Monitored says of the DOWN signals that arrive ...
LEMMA DownsInv ==
  ASSUME Base, Monitored
  PROVE  AtMostOneDown /\ DemonitorSilences
<1>1. ASSUME NEW r \in DOMAIN monitor
      PROVE  Cardinality(Downs(r)) <= 1
  <2>1. PICK o, t, m : Names(r, o, t, m)
    BY <1>1 DEF Names
  <2>2. \A i, j \in DOMAIN mailbox[o] : HeardAt(r, i) /\ HeardAt(r, j) => i = j
    BY <1>1, <2>1 DEF Monitored, Single, Names
  <2>3. \A x, y \in Downs(r) : x = y
    <3> TAKE x, y \in Downs(r)
    <3>1. PICK i \in DOMAIN mailbox[o] : x = <<o, i>> /\ HeardAt(r, i)
      BY <2>1, DownsAre
    <3>2. PICK j \in DOMAIN mailbox[o] : y = <<o, j>> /\ HeardAt(r, j)
      BY <2>1, DownsAre
    <3> QED
      BY <2>2, <3>1, <3>2
  <2>4. Downs(r) = {} \/ \E x : Downs(r) = {x}
    BY <2>3
  <2>5. Cardinality(Downs(r)) \in {0, 1}
    BY <2>4, FS_EmptySet, FS_Singleton
  <2> QED
    BY <2>5
<1>2. ASSUME NEW r \in past.silenced, ~monitor[r].spawned
      PROVE  Downs(r) = {}
  <2>1. r \in DOMAIN monitor
    BY DEF Base, Truthful, SoundHistory
  <2>2. PICK o, t, m : Names(r, o, t, m)
    BY <2>1 DEF Names
  <2>3. ~At(r, "heard")
    BY <1>2, <2>1 DEF Monitored, Hushed
  <2>4. \A i \in DOMAIN mailbox[o] : ~HeardAt(r, i)
    BY <2>2, <2>3, Stages7 DEF HeardAt, Names
  <2> QED
    BY <2>2, <2>4, DownsAre
<1> QED
  BY <1>1, <1>2 DEF AtMostOneDown, DemonitorSilences

\* ... and of those that must.
LEMMA MonitoredInv ==
  ASSUME Base, Monitored
  PROVE  MonitorAccounted
<1> SUFFICES ASSUME NEW r \in DOMAIN monitor, Settled(Owner(r)), Reported(Target(r)),
                    r \notin past.demonitored, ~Sibling(r)
             PROVE  Downs(r) # {} \/ (LostMonitor(r) /\ ~monitor[r].spawned)
  BY DEF MonitorAccounted, Owner, Target
<1>1. PICK o, t, m : Names(r, o, t, m)
  BY DEF Names
<1>2. /\ o \in Procs /\ t \in Procs /\ m.type = "monitor" /\ m.monitor = o /\ m.ref = r /\ TypeOK /\ Control
      /\ o = Owner(r) /\ t = Target(r) /\ m = MonSig(r)
  BY <1>1, NamesAre DEF Base, Names
<1>3. ~Gone(o)
  BY <1>2, SettledEmpty
<1>4. receive[t] = <<>> /\ monitors[t] = {} /\ receive[o] = <<>>
  BY <1>2 DEF Control, Settled, Reported
<1>5. ~At(r, "booting") /\ ~At(r, "watched") /\ ~At(r, "waiting") /\ ~At(r, "back")
  <2>1. ~Booting(r)
    BY DEF Booting, Reported
  <2>2. ~Waiting(t, m)
    BY <1>4 DEF Waiting
  <2>3. \A i \in DOMAIN receive[o] : ~IsDown(receive[o][i], r)
    BY <1>4
  <2> QED
    BY <1>1, <1>4, <2>1, <2>2, <2>3, Stages7
<1>6. ~At(r, "posted")
  <2>1. ~Posted(t, m)
    BY <1>2 DEF Posted, Settled
  <2> QED
    BY <1>1, <2>1, Stages7
<1>7. ~At(r, "sent")
  <2> SUFFICES ASSUME NEW g \in Goroutines, NEW i \in DOMAIN out[g], SentAt(r, g, i)
               PROVE  FALSE
    BY <1>1, Stages7
  <2>1. out[g][i].to = o
    BY <1>1, SentIs
  <2> QED
    BY <1>2, <2>1 DEF Settled
<1>8. CASE At(r, "heard")
  BY <1>1, <1>8, Stages7, DownsAre DEF HeardAt, Names
<1>9. CASE ~monitor[r].spawned /\ [to |-> t, sig |-> m] \in past.lost
  BY <1>2, <1>9 DEF LostMonitor
<1> QED
  BY <1>2, <1>3, <1>5, <1>6, <1>7, <1>8, <1>9 DEF Monitored, Answerable, Stages

\* Rest, initially and while nothing happens.
LEMMA InitRest == Init => Orderly /\ MessagesBeforeDown /\ LinksTied /\ Monitored
<1> SUFFICES ASSUME Init
             PROVE  Orderly /\ MessagesBeforeDown /\ LinksTied /\ Monitored
  OBVIOUS
<1>1. Orderly
  BY DEF Init, Orderly
<1>2. MessagesBeforeDown
  BY DEF Init, MessagesBeforeDown
<1>3. LinksTied
  <2>1. \A g \in Goroutines : out[g] = <<>>
    BY DEF Init
  <2>2. \A p \in Procs : links[p] = {} /\ receive[p] = <<>>
    BY DEF Init
  <2> QED
    BY <2>1, <2>2 DEF LinksTied, Wants, Underway, Posted, Waiting
<1>4. Monitored
  <2>1. DOMAIN monitor = {}
    BY DEF Init
  <2> QED
    BY <2>1 DEF Monitored
<1> QED
  BY <1>1, <1>2, <1>3, <1>4

Rest == Orderly /\ MessagesBeforeDown /\ LinksTied /\ Monitored

LEMMA StutterRest ==
  ASSUME Rest, UNCHANGED vars
  PROVE  Rest'
<1>1. UNCHANGED <<status, trap, receive, closed, links, monitors, monitoring, pc, rbl, reason,
                  parent, out, mailbox, monitor, calls, past>>
  BY DEF vars
<1>2. Orderly'
  BY <1>1 DEF Rest, Orderly
<1>3. MessagesBeforeDown'
  BY <1>1 DEF Rest, MessagesBeforeDown
<1>4. LinksTied'
  BY ZenonT(40), <1>1 DEF Rest, LinksTied, Wants, Tied, Underway, Posted, Waiting, Gone
<1>5. Monitored'
  <2>1. \A r : Owner(r)' = Owner(r) /\ Target(r)' = Target(r) /\ MonSig(r)' = MonSig(r)
    BY <1>1 DEF Owner, Target, MonSig
  <2>2. /\ \A p : Gone(p)' <=> Gone(p)
        /\ \A q, sig : (Posted(q, sig)' <=> Posted(q, sig)) /\ (Waiting(q, sig)' <=> Waiting(q, sig))
        /\ \A p, r : KnownRef(p, r)' <=> KnownRef(p, r)
        /\ \A l : Void(l)' <=> Void(l)
    BY <1>1 DEF Gone, Posted, Waiting, KnownRef, Void
  <2>3. /\ \A r : Booting(r)' <=> Booting(r)
        /\ \A r : Sibling(r)' <=> Sibling(r)
        /\ \A r, g, i : SentAt(r, g, i)' <=> SentAt(r, g, i)
        /\ \A r, i : (BackAt(r, i)' <=> BackAt(r, i)) /\ (HeardAt(r, i)' <=> HeardAt(r, i))
    BY <1>1, <2>1 DEF Booting, Sibling, SentAt, BackAt, HeardAt, Void, Gone
  <2>4. \A r : \A s \in Stages : At(r, s)' <=> At(r, s)
    BY <1>1, <2>1, <2>2, <2>3 DEF At, Stages
  <2>5. ASSUME NEW r \in DOMAIN monitor
        PROVE  Single(r)' /\ Answerable(r)' /\ Ordered(r)' /\ Expected(r)' /\ Hushed(r)'
    <3>1. Single(r) /\ Answerable(r) /\ Ordered(r) /\ Expected(r) /\ Hushed(r)
      BY <2>5 DEF Rest, Monitored
    <3>2. Single(r)'
      BY <1>1, <2>1, <2>3, <2>4, <3>1 DEF Single
    <3>3. Answerable(r)'
      BY <1>1, <2>1, <2>2, <2>3, <2>4, <3>1 DEF Answerable
    <3>4. Ordered(r)'
      BY <1>1, <2>1, <2>2, <3>1 DEF Ordered
    <3>5. Expected(r)'
      BY <1>1, <2>1, <2>2, <2>3, <3>1 DEF Expected, Underway
    <3>6. Hushed(r)'
      BY <1>1, <2>1, <2>2, <2>3, <2>4, <3>1 DEF Hushed, Stages
    <3> QED
      BY <3>2, <3>3, <3>4, <3>5, <3>6
  <2> QED
    BY <1>1, <2>5 DEF Monitored
<1> QED
  BY <1>2, <1>3, <1>4, <1>5 DEF Rest

-----------------------------------------------------------------------------
(* The theorems.                                                           *)

Ind == Base /\ Rest

\* The inductive invariant.
THEOREM ProcessInductive == Spec => []Ind
<1>1. Init => Ind
  BY InitBase, InitRest DEF Ind, Rest
<1>2. Ind /\ [Next]_vars => Ind'
  <2> SUFFICES ASSUME Ind, [Next]_vars
               PROVE  Ind'
    OBVIOUS
  <2>1. Base'
    BY StepBase DEF Ind
  <2>2. CASE Next
    BY <2>1, <2>2, StepOrder, StepLinksTied, StepMonitored DEF Ind, Rest
  <2>3. CASE UNCHANGED vars
    BY <2>1, <2>3, StutterRest DEF Ind
  <2> QED
    BY <2>2, <2>3
<1> QED
  BY <1>1, <1>2, PTL DEF Spec

\* What the runs check of it: the types, that exit leaves nothing behind it, and the
\* parts that make the properties below inductive.
THEOREM ProcessIInv == Spec => []IInv
<1>1. Ind => IInv
  BY BaseInv DEF Ind, Base, Rest, IInv
<1> QED
  BY <1>1, ProcessInductive, PTL

\* A DownMsg tells the truth about who ended and why, goes to the owner of its Ref,
\* comes at most once, and does not come after a Demonitor that was in time
\* (send, handleDownSignal, handleDemonitorSignal, the loops of exit).
THEOREM ProcessDownsAreTrue == Spec => []DownsAreTrue
<1>1. Ind => DownsAreTrue
  BY BaseInv, DownsInv DEF Ind, Rest, DownsAreTrue
<1> QED
  BY <1>1, ProcessInductive, PTL

\* Whoever monitors or links to a process hears of its end, whichever of send, the
\* drained inbox and exit has to answer; what Drain misses is all that is lost, and
\* a SpawnMonitor is never lost.
THEOREM ProcessSignalsAccounted == Spec => []SignalsAccounted
<1>1. Ind => SignalsAccounted
  BY LinksTiedInv, MonitoredInv DEF Ind, Rest, SignalsAccounted
<1> QED
  BY <1>1, ProcessInductive, PTL

\* Two processes that nobody unlinked agree whether they are linked, when the
\* signals between them have arrived (Link, SpawnLink, handleLinkSignal).
THEOREM ProcessLinksMutual == Spec => []LinksMutual
<1>1. Ind => LinksMutual
  BY LinksTiedInv DEF Ind, Rest
<1> QED
  BY <1>1, ProcessInductive, PTL

\* What a Runnable sent before it returned arrives before the DownMsg of its process:
\* p.done is read when everything before it is in the inboxes.
THEOREM ProcessMessagesBeforeDown == Spec => []MessagesBeforeDown
<1>1. Ind => MessagesBeforeDown
  BY DEF Ind, Rest
<1> QED
  BY <1>1, ProcessInductive, PTL

\* A process stops running in OnSignal or OnDone.
LEMMA LeavesRunning ==
  ASSUME TypeOK, Control, Next, NEW p \in Procs, status[p] = "RUNNING", status'[p] # "RUNNING"
  PROVE  OnSignal(p) \/ OnDone(p)
<1>1. ASSUME NEW q \in Procs, OnSignal(q) \/ OnDone(q), q # p
      PROVE  FALSE
  BY <1>1 DEF TypeOK, OnSignal, OnBookkeeping, OnMessage, OnDown, OnExitSurvived, OnExitFatal, OnDone,
    BeginExit, NowExiting
<1>2. ASSUME NEW q \in Procs, EndExit(q)
      PROVE  FALSE
  BY <1>2 DEF TypeOK, Control, EndExit
<1>3. ASSUME NEW x \in Procs, NEW q \in Procs,
             CallSpawnAlone(x, q) \/ CallSpawnLink(x, q) \/ CallSpawnMonitor(x, q)
      PROVE  FALSE
  BY <1>3 DEF TypeOK, CallSpawnAlone, CallSpawnLink, CallSpawnMonitor, CallSpawn
<1>4. \/ status' = status
      \/ \E q \in Procs : OnSignal(q) \/ OnDone(q) \/ EndExit(q)
      \/ \E x \in Procs, q \in Procs :
            CallSpawnAlone(x, q) \/ CallSpawnLink(x, q) \/ CallSpawnMonitor(x, q)
  BY ZenonT(40), Steps DEF Check, Deposit, CallLink, CallUnlink, CallMonitor, CallSend, CallExit,
    CallDemonitor, CallTrapExit, Boot, Start, Drain, DrainNext, DrainDone, Notify, CloseMailbox,
    Panic, Return
<1> QED
  BY <1>1, <1>2, <1>3, <1>4

\* A process that traps exits ends because its Runnable did or because Exit was called on
\* it with Kill; the exit signal of a link does not end it, not with reason Kill either.
THEOREM ProcessLinkSparesTrapping == Spec => LinkSparesTrapping
<1>1. Ind /\ [Next]_vars =>
        [\A p \in Procs : trap[p] /\ status[p] = "RUNNING" /\ status'[p] # "RUNNING"
            => p \in past'.returned \/ p \in past.killed]_vars
  <2> SUFFICES ASSUME Ind, Next, NEW p \in Procs,
                      trap[p], status[p] = "RUNNING", status'[p] # "RUNNING"
               PROVE  p \in past'.returned \/ p \in past.killed
    BY DEF vars
  <2>1. TypeOK /\ Control /\ Truthful
    BY DEF Ind, Base
  <2>2. \/ OnSignal(p) \/ OnDone(p)
    BY <2>1, LeavesRunning
  <2>3. CASE OnDone(p)
    <3>1. past \in Past /\ past' = [past EXCEPT !.returned = @ \cup {p}]
      BY <2>1, <2>3 DEF TypeOK, OnDone
    <3> QED
      BY <3>1 DEF Past
  <2>4. CASE OnSignal(p)
    <3> DEFINE sig == Head(receive[p])
    <3>1. OnExitFatal(p, sig)
      BY <2>4 DEF OnSignal, OnBookkeeping, OnMessage, OnDown, OnExitSurvived
    <3>2. sig \in Signals /\ Sound(p, sig)
      BY <2>1, <3>1, HeadSound DEF OnExitFatal, Receive, Truthful
    <3>3. sig.type = "exit" /\ Untrappable(sig)
      BY <3>1 DEF OnExitFatal
    <3> QED
      BY <3>2, <3>3 DEF Sound
  <2> QED
    BY <2>2, <2>3, <2>4
<1> QED
  BY <1>1, ProcessInductive, PTL DEF Spec, LinkSparesTrapping

\* What no step takes back: a Ref keeps its owner and its target, a process that
\* exits does not come back and keeps its reason, a closed inbox stays closed.
THEOREM ProcessOnward == Spec => [][Onward]_vars
<1>1. Ind /\ [Next]_vars => [Onward]_vars
  BY StepOnward DEF Ind, Base
<1> QED
  BY <1>1, ProcessInductive, PTL DEF Spec
=============================================================================

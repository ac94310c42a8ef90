------------------------------ MODULE Supervisor ------------------------------
(***************************************************************************)
(* erl/supervisor: one supervisor and the processes it starts.             *)
(*                                                                         *)
(* The supervisor is a GenServer: it takes one message at a time.  While   *)
(* it handles one it may stop children one by one, and waits for each of   *)
(* them on a channel (pc = "kill"); children die, and their ExitMsgs       *)
(* arrive, at any time meanwhile.  A child is stopped by a childKiller     *)
(* process, which unlinks it from the supervisor before it asks it to      *)
(* exit.  Starting a child is one synchronous call.                        *)
(*                                                                         *)
(* Processes are numbered in the order they are started; 0 is the zero     *)
(* PID.  The links, signals and monitors used here are those of            *)
(* Process.tla; a DownMsg is taken to arrive.                              *)
(***************************************************************************)
EXTENDS Naturals, Sequences, FiniteSets, SequencesExt

CONSTANTS
  Ids,          \* child IDs
  Inits,        \* what the callback's Init may return
  Kinds,        \* the assignments of restart types to IDs
  Requests,     \* the requests the supervisor gets
  MaxEvents,    \* bound on the requests, the deaths of children by themselves, and
                \* the Start functions that fail or return Ignore, together
  MaxTime       \* bound on the ticks

Strategy    == {"one_for_one", "one_for_all", "rest_for_one"}
RestartType == {"permanent", "temporary", "transient"}
ChildStatus == {"running", "terminated", "undefined"}

\* The requests of HandleCall; "Stop" is what ends a supervisor from outside.
RequestType == {"WhichChildren", "CountChildren", "StartChild", "TerminateChild",
                "RestartChild", "DeleteChild"}

\* The period in ticks, and NewSupFlags' defaults.
SupFlagsS   == [strategy : Strategy, period : Nat, intensity : Nat]
NewSupFlags == [strategy |-> "one_for_one", period |-> 5, intensity |-> 1]

\* Child specs are given by their IDs; an ID may be given twice, or be blank.
Blank      == ""
InitResult == [supFlags : SupFlagsS, childSpecs : Seq(Ids \cup {Blank}), ignore : BOOLEAN]

ASSUME SupervisorAssumption ==
  /\ Blank \notin Ids
  /\ Inits \subseteq InitResult
  /\ Kinds \subseteq [Ids -> RestartType]
  /\ Requests \subseteq RequestType \cup {"Stop"}

VARIABLES
  flags,        \* state.flags
  Restart,      \* ChildSpec.Restart of every ID
  children,     \* state.children
  kept,         \* RestForOne: the children before the one that failed
  order,        \* the children startChildren works on
  work,         \* the children stopChildren works on
  at,           \* how far either of them is
  pc,           \* what the supervisor is doing
  why,          \* what for
  killer,       \* where the childKiller of work[at] is
  restarts,     \* state.restarts
  proc,         \* every process started
  exits,        \* the ExitMsgs on their way to the supervisor
  now,          \* the clock
  spent,        \* deaths, fails and ignores so far
  requested,    \* requests so far
  history,      \* history: when restarts were asked for
  misled        \* history: a request believed the flags of a child that is running

config == <<flags, Restart>>
state  == <<flags, children, restarts>>
loops  == <<kept, order, work, at, killer>>
vars == <<state, Restart, loops, pc, why, proc, exits, now, spent, requested, history, misled>>

\* A pid of 0 is the zero PID.
ChildSpec == [id : Ids, pid : Nat, terminated : BOOLEAN, ignored : BOOLEAN]

NewChildSpec(id) == [id |-> id, pid |-> 0, terminated |-> FALSE, ignored |-> FALSE]

\* No ID is blank, and no two are the same.
CheckDups(es) ==
  /\ \A i \in DOMAIN es : es[i].id # Blank
  /\ \A i, j \in DOMAIN es : es[i].id = es[j].id => i = j

\* Init of the callback may call it off, and newChildSpecs may refuse its children;
\* then there is no supervisor.  Otherwise startChildren begins.
Init ==
  /\ \E r \in Inits :
       LET es      == [i \in DOMAIN r.childSpecs |-> NewChildSpec(r.childSpecs[i])]
           refused == r.ignore \/ ~CheckDups(es)
       IN  /\ flags = r.supFlags
           /\ children = IF refused THEN <<>> ELSE es
           /\ pc = IF refused THEN "ended" ELSE "start"
  /\ Restart \in Kinds
  /\ kept = <<>> /\ order = children /\ work = <<>> /\ at = 1
  /\ why = "init" /\ killer = "none"
  /\ restarts = <<>>
  /\ proc = <<>>
  /\ exits = {}
  /\ now = 0
  /\ spent = [deaths |-> 0, fails |-> 0, ignores |-> 0]
  /\ requested = 0
  /\ history = <<>>
  /\ misled = FALSE

MayHappen == spent.deaths + spent.fails + spent.ignores + requested < MaxEvents

-----------------------------------------------------------------------------
(* childSpecs, and what startChild makes of a ChildSpec.                   *)

Update(es, e)   == [i \in DOMAIN es |-> IF es[i].id = e.id THEN e ELSE es[i]]

\* The k-th smallest of a set of indices, and the entries that are there, in order.
Nth(is, k)  == CHOOSE i \in is : Cardinality({j \in is : j <= i}) = k
Pick(es, is) == [k \in 1 .. Cardinality(is) |-> es[Nth(is, k)]]

Without(es, ids) == Pick(es, {i \in DOMAIN es : es[i].id \notin ids})

Has(es, id)     == \E i \in DOMAIN es : es[i].id = id
Get(es, id)     == es[CHOOSE i \in DOMAIN es : es[i].id = id]
IsAlive(pid)    == pid # 0 /\ proc[pid].running

\* What doWhichChildren says of a child, and which children the handlers and
\* doCountChildren take for running.
Status(e) ==
  IF e.ignored THEN "undefined"
  ELSE IF e.terminated THEN "terminated"
  ELSE IF IsAlive(e.pid) THEN "running" ELSE "undefined"

Info(e)   == [id |-> e.id, status |-> Status(e),
              pid |-> IF Status(e) = "running" THEN e.pid ELSE 0]
Active(e) == Status(e) = "running"

WhichChildren == [i \in DOMAIN children |-> Info(children[i])]
CountChildren ==
  [specs |-> Len(children), active |-> Cardinality({i \in DOMAIN children : Active(children[i])})]

\* What they return.
ChildInfo  == [id : Ids, status : ChildStatus, pid : Nat]
ChildCount == [specs : Nat, active : Nat]

\* child.pid = childPID.  Its flags stay what they were.
Started(e) == [e EXCEPT !.pid = Len(proc) + 1]

Ignored(e) == [e EXCEPT !.pid = 0, !.ignored = TRUE]

\* Start returns a PID, linked to the supervisor: the ChildSpec is now r.
Starts(e, r) ==
  /\ r = Started(e)
  /\ proc' = Append(proc, [id |-> e.id, running |-> TRUE, linked |-> TRUE, told |-> FALSE,
                           reason |-> "none"])
  /\ UNCHANGED spent

\* Start returns Ignore.
Ignores(e, r) ==
  /\ MayHappen
  /\ r = Ignored(e)
  /\ spent' = [spent EXCEPT !.ignores = @ + 1]
  /\ UNCHANGED proc

\* Start returns another error, or panics.
Fails ==
  /\ MayHappen
  /\ spent' = [spent EXCEPT !.fails = @ + 1]
  /\ UNCHANGED proc

-----------------------------------------------------------------------------
(* stopChildren and terminateChild.                                        *)

\* Mutant: children are stopped in the order they were started in.
StopOrderForward(es) == es

StopOrder(es) == Reverse(es)

BeginStop(es, reason) ==
  /\ work' = es /\ at' = 1 /\ pc' = "stop" /\ why' = reason

\* The handler returns, and its local variables are gone.
BackToLoop ==
  /\ pc' = "idle" /\ why' = "none"
  /\ kept' = <<>> /\ order' = <<>> /\ work' = <<>> /\ at' = 1

Stopping == pc = "stop" /\ at <= Len(work)

Marked == [work EXCEPT ![at].terminated = TRUE]

\* Not alive: marked as terminated.
StopSkips ==
  /\ Stopping /\ ~IsAlive(work[at].pid)
  /\ work' = Marked /\ at' = at + 1
  /\ UNCHANGED <<config, children, kept, order, killer, pc, why, restarts, proc, exits, now,
                 spent, requested, history, misled>>

\* Alive: a childKiller is spawned, and <-listen waits for it.
StopSpawnsKiller ==
  /\ Stopping /\ IsAlive(work[at].pid)
  /\ pc' = "kill" /\ killer' = "unlink"
  /\ UNCHANGED <<config, children, kept, order, work, at, why, restarts, proc, exits, now,
                 spent, requested, history, misled>>

\* childKiller: it monitors the child, and unlinks it from the supervisor.  An
\* ExitMsg that is on its way already stays so.
KillerUnlinks ==
  /\ killer = "unlink"
  /\ killer' = "signal"
  /\ proc' = [proc EXCEPT ![work[at].pid].linked = FALSE]
  /\ UNCHANGED <<config, children, kept, order, work, at, pc, why, restarts, exits, now, spent,
                 requested, history, misled>>

\* ... asks it to exit: SupervisorShutdown, and Kill after the timeout; or Kill at
\* once ...
KillerSignals ==
  /\ killer = "signal"
  /\ killer' = "wait"
  /\ proc' = [proc EXCEPT ![work[at].pid].told = TRUE]
  /\ UNCHANGED <<config, children, kept, order, work, at, pc, why, restarts, exits, now, spent,
                 requested, history, misled>>

\* ... and reports when the DownMsg of the child has come.
KillerSeesDown == ~IsAlive(work[at].pid)

KillerReports ==
  /\ killer = "wait" /\ KillerSeesDown
  /\ killer' = "none"
  /\ work' = Marked /\ at' = at + 1 /\ pc' = "stop"
  /\ UNCHANGED <<config, children, kept, order, why, restarts, proc, exits, now, spent, requested, history, misled>>

\* Temporary children do not stay in the list that stopChildren returns.
Temporaries == {id \in Ids : Restart[id] = "temporary"}

Left == Without(work, Temporaries)

\* The children are stopped.  What was restarting starts them again, in start
\* order; a rollback in a restart returns an error that nobody looks at, and leaves
\* the list as startChildren had it; whatever else ends the supervisor.
StopDone ==
  /\ pc = "stop" /\ at > Len(work)
  /\ \/ /\ why = "restart"
        /\ order' = Reverse(Left) /\ work' = <<>> /\ at' = 1 /\ pc' = "start"
        /\ UNCHANGED <<children, kept, why>>
     \/ why = "rollback" /\ children' = kept \o order /\ BackToLoop
     \/ why = "request" /\ children' = Update(children, [work[1] EXCEPT !.pid = 0]) /\ BackToLoop
     \/ /\ why \in {"init", "intensity", "failed", "stopped"}
        /\ pc' = "ended"
        /\ UNCHANGED <<children, kept, order, work, at, why>>
  /\ UNCHANGED <<config, killer, restarts, proc, exits, now, spent, requested, history, misled>>

-----------------------------------------------------------------------------
(* startChildren.                                                          *)

Starting == pc = "start" /\ at <= Len(order)

StartChild ==
  /\ Starting
  /\ \E r \in {Started(order[at]), Ignored(order[at])} :
       /\ Starts(order[at], r) \/ Ignores(order[at], r)
       /\ order' = [order EXCEPT ![at] = r]
  /\ at' = at + 1
  /\ UNCHANGED <<config, children, kept, work, killer, pc, why, restarts, exits, now, requested, history, misled>>

\* A child fails to start: all of them are stopped.
StartFails ==
  /\ Starting /\ Fails
  /\ BeginStop(StopOrder(order), IF why = "init" THEN "init" ELSE "rollback")
  /\ UNCHANGED <<config, children, kept, order, killer, restarts, exits, now, requested, history, misled>>

StartDone ==
  /\ pc = "start" /\ at > Len(order)
  /\ children' = kept \o order
  /\ BackToLoop
  /\ UNCHANGED <<config, killer, restarts, proc, exits, now, spent, requested, history, misled>>

-----------------------------------------------------------------------------
(* The children.                                                           *)

\* A child exits, by itself or because it was told to: if it is still linked its
\* ExitMsg goes to the supervisor.
Dies(q, reason) ==
  /\ proc[q].running
  /\ proc' = [proc EXCEPT ![q].running = FALSE, ![q].linked = FALSE,
                         ![q].told = FALSE, ![q].reason = reason]
  /\ exits' = IF proc[q].linked THEN exits \cup {[pid |-> q, reason |-> reason]} ELSE exits

ChildDies(q, reason) ==
  /\ ~proc[q].told /\ MayHappen /\ pc # "ended"
  /\ Dies(q, reason)
  /\ spent' = [spent EXCEPT !.deaths = @ + 1]
  /\ UNCHANGED <<config, children, loops, pc, why, restarts, now, requested, history, misled>>

ChildObeys(q) ==
  /\ proc[q].told
  /\ Dies(q, "shutdown")
  /\ UNCHANGED <<config, children, loops, pc, why, restarts, now, spent, requested, history, misled>>

Tick ==
  /\ pc = "idle" /\ now < MaxTime
  /\ now' = now + 1
  /\ UNCHANGED <<config, children, loops, pc, why, restarts, proc, exits, spent, requested, history, misled>>

-----------------------------------------------------------------------------
(* HandleInfo: an ExitMsg.  addRestart and processChildRestart.            *)

Clean(reason) == reason # "error"

\* Mutant: findByPID returns whatever child has the process' ID.
OwnersById(pid) == {i \in DOMAIN children : children[i].id = proc[pid].id}

Owners(pid) == {i \in DOMAIN children : children[i].pid = pid}

\* Never restarted: temporary, or transient and gone without an error.
Forgets(id, reason) ==
  \/ Restart[id] = "temporary"
  \/ Restart[id] = "transient" /\ Clean(reason)

\* An ExitMsg of a process that is not, or no longer, a child changes nothing.
ExitOfNobody(m) ==
  /\ pc = "idle" /\ Owners(m.pid) = {}
  /\ exits' = exits \ {m}
  /\ UNCHANGED <<config, children, loops, pc, why, restarts, proc, now, spent, requested, history, misled>>

ExitForgotten(m, i) ==
  /\ pc = "idle" /\ Forgets(children[i].id, m.reason)
  /\ exits' = exits \ {m}
  /\ children' = Without(children, {children[i].id})
  /\ UNCHANGED <<config, loops, pc, why, restarts, proc, now, spent, requested, history, misled>>

\* r.After(now - Period)
Recent(rs) == {j \in DOMAIN rs : rs[j] + flags.period > now}

\* Mutant: the last restart that was too old is found, and everything up to and
\* with the one after it goes.
TrimmedTooFar(rs) ==
  SubSeq(rs, Cardinality(DOMAIN rs \ Recent(rs)) + 1 + (IF Recent(rs) = DOMAIN rs THEN 0 ELSE 1),
         Len(rs))

\* The loop of addRestart: trim is the index of the last restart that is too old,
\* and slices.Delete(restarts, 0, trim) keeps that one.  (When the count exceeds
\* the intensity the loop ends early; the supervisor ends then.)
Trimmed(rs) ==
  LET old == DOMAIN rs \ Recent(rs) IN
  SubSeq(rs, IF old = {} THEN 1 ELSE Cardinality(old), Len(rs))

\* addRestart: `asked' is state.restarts with the new one.
Exceeded(asked) == Cardinality(Recent(asked)) > flags.intensity

AddRestart(m) ==
  /\ exits' = exits \ {m}
  /\ history' = Append(history, now)
  /\ restarts' = Trimmed(Append(restarts, now))
  /\ UNCHANGED <<requested, misled>>

\* HandleInfo returns the error, and the GenServer calls Terminate.
GivesUp(m, i) ==
  /\ pc = "idle" /\ ~Forgets(children[i].id, m.reason)
  /\ AddRestart(m) /\ Exceeded(Append(restarts, now))
  /\ BeginStop(StopOrder(children), "intensity")
  /\ UNCHANGED <<config, children, kept, order, killer, proc, now, spent>>

RestartsOne(m, i) ==
  /\ pc = "idle" /\ ~Forgets(children[i].id, m.reason) /\ flags.strategy = "one_for_one"
  /\ AddRestart(m) /\ ~Exceeded(Append(restarts, now))
  /\ \/ /\ \E r \in {Started(children[i]), Ignored(children[i])} :
             /\ Starts(children[i], r) \/ Ignores(children[i], r)
             /\ children' = Update(children, r)
        /\ UNCHANGED <<work, at, pc, why>>
     \/ /\ Fails
        /\ BeginStop(StopOrder(children), "failed")
        /\ UNCHANGED children
  /\ UNCHANGED <<config, kept, order, killer, now>>

\* Mutant: split at the last child.
FirstIsLast(i) == IF flags.strategy = "one_for_all" THEN 1 ELSE Len(children)

\* The first child that is stopped and started again.
First(i) == IF flags.strategy = "one_for_all" THEN 1 ELSE i

Kept(i) == SubSeq(children, 1, First(i) - 1)

RestartsGroup(m, i) ==
  /\ pc = "idle" /\ ~Forgets(children[i].id, m.reason) /\ flags.strategy # "one_for_one"
  /\ AddRestart(m) /\ ~Exceeded(Append(restarts, now))
  /\ kept' = Kept(i)
  /\ BeginStop(StopOrder(SubSeq(children, First(i), Len(children))), "restart")
  /\ UNCHANGED <<config, children, order, killer, proc, now, spent>>

HandleExit ==
  \E m \in exits :
    \/ ExitOfNobody(m)
    \/ \E i \in Owners(m.pid) :
         ExitForgotten(m, i) \/ GivesUp(m, i) \/ RestartsOne(m, i) \/ RestartsGroup(m, i)

-----------------------------------------------------------------------------
(* HandleCall, and what ends the supervisor from outside.  Refusals and the  *)
(* requests that only read change nothing, and are left out.               *)

Request(op) ==
  /\ pc = "idle" /\ op \in Requests /\ MayHappen
  /\ requested' = requested + 1

\* The flags say that the child is not running, and it is: a group restart sets
\* terminated (supervisor.go:616) and startChild leaves it set.
Lies(e) == ~Active(e) /\ IsAlive(e.pid)

\* doStartChild: an ID the supervisor does not have.
DoStartChild(id) ==
  /\ Request("StartChild") /\ ~Has(children, id)
  /\ \/ \E r \in {Started(NewChildSpec(id)), Ignored(NewChildSpec(id))} :
          /\ Starts(NewChildSpec(id), r) \/ Ignores(NewChildSpec(id), r)
          /\ children' = Append(children, r)
     \/ Fails /\ UNCHANGED children
  /\ UNCHANGED <<config, loops, pc, why, restarts, exits, now, history, misled>>

\* doTerminateChild: its flags say whether the child is running; if so it is stopped
\* the way stopChildren does it.
DoTerminateChild(id) ==
  /\ Request("TerminateChild") /\ Has(children, id)
  /\ misled' = (misled \/ Lies(Get(children, id)))
  /\ LET e == Get(children, id) IN
       \/ /\ Active(e)
          /\ BeginStop(<<e>>, "request")
          /\ UNCHANGED children
       \/ /\ ~Active(e)
          /\ children' = Update(children, [e EXCEPT !.terminated = TRUE, !.pid = 0])
          /\ UNCHANGED <<work, at, pc, why>>
  /\ UNCHANGED <<config, kept, order, killer, restarts, proc, exits, now, spent, history>>

DoRestartChild(id) ==
  /\ Request("RestartChild") /\ Has(children, id) /\ ~Active(Get(children, id))
  /\ misled' = (misled \/ Lies(Get(children, id)))
  /\ LET e == [Get(children, id) EXCEPT !.terminated = FALSE, !.ignored = FALSE] IN
       \/ \E r \in {Started(e), Ignored(e)} :
            /\ Starts(e, r) \/ Ignores(e, r)
            /\ children' = Update(children, r)
       \/ Fails /\ children' = Update(children, [e EXCEPT !.terminated = TRUE])
  /\ UNCHANGED <<config, loops, pc, why, restarts, exits, now, history>>

DoDeleteChild(id) ==
  /\ Request("DeleteChild") /\ Has(children, id) /\ ~Active(Get(children, id))
  /\ misled' = (misled \/ Lies(Get(children, id)))
  /\ children' = Without(children, {id})
  /\ UNCHANGED <<config, loops, pc, why, restarts, proc, exits, now, spent, history>>

\* A stopRequest, or the ExitMsg of the parent: Terminate.
Terminate ==
  /\ Request("Stop")
  /\ BeginStop(StopOrder(children), "stopped")
  /\ UNCHANGED <<config, children, kept, order, killer, restarts, proc, exits, now, spent,
                 history, misled>>

-----------------------------------------------------------------------------
SupervisorStep ==
  \/ StopSkips \/ StopSpawnsKiller \/ KillerUnlinks \/ KillerSignals \/ KillerReports
  \/ StopDone \/ StartChild \/ StartFails \/ StartDone
  \/ HandleExit

Next ==
  \/ SupervisorStep
  \/ \E id \in Ids : DoStartChild(id) \/ DoTerminateChild(id) \/ DoRestartChild(id) \/ DoDeleteChild(id)
  \/ Terminate \/ Tick
  \/ \E q \in DOMAIN proc : ChildObeys(q) \/ \E reason \in {"normal", "error"} : ChildDies(q, reason)

Spec == Init /\ [][Next]_vars

\* The supervisor and its childKillers go on, and an ExitMsg that has arrived is
\* handled.  A child that is told to stop does so: after its timeout it is killed.
\* (With Infinity that is up to the child.)  Nobody has to die or to ask anything.
Fairness ==
  /\ WF_vars(SupervisorStep)
  /\ WF_vars(\E q \in DOMAIN proc : ChildObeys(q))

FairSpec == Spec /\ Fairness

-----------------------------------------------------------------------------
Reasons == {"normal", "error", "shutdown"}
Process == [id : Ids, running : BOOLEAN, linked : BOOLEAN, told : BOOLEAN,
            reason : Reasons \cup {"none"}]
ExitMsg == [pid : DOMAIN proc, reason : Reasons]

TypeOK ==
  /\ flags \in SupFlagsS /\ Restart \in [Ids -> RestartType]
  /\ \A es \in {children, kept, order, work} : es \in Seq(ChildSpec) /\ CheckDups(es)
  /\ at \in 1 .. (IF pc = "start" THEN Len(order) ELSE Len(work)) + 1
  /\ pc \in {"start", "idle", "stop", "kill", "ended"}
  /\ why \in {"none", "init", "restart", "rollback", "request", "intensity", "failed", "stopped"}
  /\ killer \in {"none", "unlink", "signal", "wait"} /\ (killer # "none" <=> pc = "kill")
  /\ restarts \in Seq(Nat) /\ history \in Seq(Nat) /\ now \in Nat
  /\ proc \in Seq(Process)
  /\ exits \subseteq ExitMsg
  /\ spent \in [deaths : Nat, fails : Nat, ignores : Nat] /\ requested \in Nat
  /\ misled \in BOOLEAN
  /\ WhichChildren \in Seq(ChildInfo) /\ CountChildren \in ChildCount

Running(id) == {q \in DOMAIN proc : proc[q].id = id /\ proc[q].running}

\* "Stops all children in reverse order during Terminate" (supervisor.go:272): when
\* the supervisor has ended, for whatever reason and in the middle of whatever
\* restart, none of the processes it ever started is running -- unless a request
\* believed the terminated flag of a child that runs: see Lies.
NothingLeftBehind ==
  ~misled /\ pc = "ended" => \A id \in Ids : Running(id) = {}

\* While the supervisor waits for its next message, a running process it started is
\* the one its ChildSpec names: no restart, rollback or request forgets a process.
NoOrphan ==
  ~misled /\ pc = "idle" =>
    \A q \in DOMAIN proc : proc[q].running =>
      \E i \in DOMAIN children : children[i].pid = q /\ children[i].id = proc[q].id

\* There are never two running processes for one child ID, although deaths,
\* restarts and requests cross each other.
OnePerId == ~misled => \A id \in Ids : Cardinality(Running(id)) <= 1

\* A process that a request forgot (misled) runs on, but not for ever: whatever was
\* asked for, every process that is running is linked to the supervisor, and gets its
\* exit signal when the supervisor exits, but for the one a childKiller has in hand.
Leashed ==
  \A q \in DOMAIN proc : proc[q].running /\ ~proc[q].linked =>
    pc = "kill" /\ work[at].pid = q /\ killer # "unlink"

Place(id) == CHOOSE i \in DOMAIN children : children[i].id = id

\* "Use when later children depend on earlier ones" (doc.go:42-44): while a child is
\* being stopped or started as one of a group, none that was started after it is
\* running.
LaterOnesAreDown ==
  ~misled /\ why # "request" =>
    \A i \in DOMAIN children : Running(children[i].id) # {} =>
      /\ pc = "kill" => i <= Place(work[at].id)
      /\ Starting => i < Place(order[at].id)

\* Of a temporary child there is one process only, and (one_for_one) none of a
\* transient child after a clean exit.
RestartTypesKept ==
  requested = 0 =>
    \A q, r \in DOMAIN proc : q < r /\ proc[q].id = proc[r].id =>
      /\ Restart[proc[q].id] # "temporary"
      /\ flags.strategy = "one_for_one" /\ Restart[proc[q].id] = "transient"
           => ~Clean(proc[q].reason)

\* "ChildRunning indicates the child process is currently running" (types.go:170),
\* "Active is the number of children currently running" (types.go:215): as long as
\* nothing but one_for_one restarts touches the flags, WhichChildren names the running
\* processes and no other, and CountChildren counts them.  (Otherwise: see Lies.)
ReportsAgree ==
  LET running == {q \in DOMAIN proc : proc[q].running} IN
  flags.strategy = "one_for_one" /\ requested = 0 /\ pc = "idle" =>
    /\ {w.pid : w \in ToSet(WhichChildren)} \ {0} = running
    /\ CountChildren.active = Cardinality(running)

\* Every process the supervisor ever started is accounted for: it has ended, or it
\* is the only one of its child and its ChildSpec names it.
Inv ==
  /\ TypeOK /\ NothingLeftBehind /\ NoOrphan /\ OnePerId /\ Leashed /\ RestartTypesKept
  /\ ReportsAgree

\* The restarts within Period of the i-th, by the full history.
Burst(i) == Cardinality({j \in 1 .. i : history[j] + flags.period > history[i]})

\* "if more than Intensity restarts occur within Period seconds, the supervisor
\* terminates" (supervisor.go:66-67), and only then does it give up for that
\* reason: trimming the list loses no restart that still counts.
IntensityExact ==
  why = "intensity" <=> \E i \in DOMAIN history : Burst(i) > flags.intensity

\* "Always restart regardless of exit reason" (supervisor.go:405): a permanent child
\* that is down runs again, unless the supervisor ends or somebody asked for
\* something, its Start returned Ignore, or a Start failed in a group restart.
PermanentComesBack ==
  \A id \in Ids :
    pc = "idle" /\ Running(id) = {} /\ Has(children, id) /\ Restart[id] = "permanent"
      ~> \/ Running(id) # {} \/ pc = "ended" \/ requested > 0 \/ spent.ignores > 0
         \/ flags.strategy # "one_for_one" /\ spent.fails > 0

\* Whatever the supervisor is doing, it comes back to its messages, or ends.
ReturnsToLoop == pc \notin {"idle", "ended"} ~> pc \in {"idle", "ended"}

\* Both: the supervisor recovers from the deaths of its children.
Recovers == PermanentComesBack /\ ReturnsToLoop

-----------------------------------------------------------------------------
(* What makes these invariants inductive.                                  *)

Names(es, q)  == \E i \in DOMAIN es : es[i].pid = q
Apart(es, fs) == \A i \in DOMAIN es, j \in DOMAIN fs : es[i].id # fs[j].id
Refers(es, procs) ==
  \A i \in DOMAIN es :
    es[i].pid # 0 => es[i].pid \in DOMAIN procs /\ procs[es[i].pid].id = es[i].id

\* Every list names processes of its own children, and the children of RestForOne
\* that stay are not among those that are stopped and started.
Lists ==
  /\ \A es \in {children, kept, order, work} : Refers(es, proc)
  /\ Apart(kept, order) /\ Apart(kept, work)

\* What the supervisor may be doing, and which lists are in use then.
Control ==
  /\ pc = "idle" => why = "none" /\ kept = <<>> /\ order = <<>> /\ work = <<>>
  /\ pc = "start" => why \in {"init", "restart"} /\ work = <<>>
  /\ pc \in {"stop", "kill"} => why # "none"
  /\ pc = "ended" => why \in {"init", "intensity", "failed", "stopped"}
  /\ pc = "kill" => at <= Len(work) /\ work[at].pid \in DOMAIN proc
  /\ why \notin {"restart", "rollback"} => kept = <<>>
  /\ pc # "start" /\ why \notin {"init", "rollback"} => order = <<>>
  /\ flags.strategy = "one_for_one" => why \notin {"restart", "rollback"}

\* TerminateChild stops the process that its ChildSpec names.
OneTerminated ==
  why = "request" =>
    /\ Len(work) = 1
    /\ \E i \in DOMAIN children :
         children[i].id = work[1].id /\ children[i].pid = work[1].pid
    /\ at = 2 => ~IsAlive(work[1].pid)

\* An ExitMsg tells the truth.
Heard ==
  /\ \A m \in exits : ~proc[m.pid].running /\ m.reason = proc[m.pid].reason
  /\ \A q \in DOMAIN proc : proc[q].running => proc[q].reason = "none"

\* Where the supervisor still has process q.
Held(q) ==
  /\ pc = "idle" \/ why = "request" => Names(children, q)
  /\ pc = "start" => Names(kept, q) \/ Names(order, q)
  /\ pc \in {"stop", "kill"} /\ why # "request" =>
       Names(kept, q) \/ \E j \in at .. Len(work) : work[j].pid = q
  /\ pc # "ended"

Account ==
  ~misled =>
    /\ \A q \in DOMAIN proc : proc[q].running => Held(q)
    /\ pc = "start" => \A j \in at .. Len(order) : ~IsAlive(order[j].pid)

\* A group is stopped in the reverse of the start order, and started in it; what is
\* kept comes before it.
Placed ==
  pc \in {"start", "stop", "kill"} /\ why # "request" =>
    /\ Len(kept) <= Len(children)
    /\ \A i \in DOMAIN kept : kept[i].id = children[i].id
    /\ \A es \in {order, work} : \A j \in DOMAIN es :
         Has(children, es[j].id) /\ Place(es[j].id) > Len(kept)
    /\ \A j, k \in DOMAIN order : j < k => Place(order[j].id) < Place(order[k].id)
    /\ \A j, k \in DOMAIN work : j < k => Place(work[j].id) > Place(work[k].id)

\* The process a ChildSpec names is the last one of its child.
Latest(es, procs) ==
  \A i \in DOMAIN es : es[i].pid # 0 =>
    \A q \in DOMAIN procs : procs[q].id = es[i].id => q <= es[i].pid

Plain(es) == \A i \in DOMAIN es : ~es[i].terminated /\ (es[i].ignored => es[i].pid = 0)

\* As long as nobody has asked for anything.
Undisturbed ==
  requested = 0 =>
    /\ ~misled /\ why # "request"
    /\ pc = "start" /\ why = "init" =>
         \A j \in at .. Len(order) :
           ~order[j].ignored /\ \A q \in DOMAIN proc : proc[q].id # order[j].id
    /\ pc = "start" /\ why = "restart" =>
         \A j \in DOMAIN order : Restart[order[j].id] # "temporary"
    /\ flags.strategy = "one_for_one" =>
         /\ pc = "start" => Latest(order, proc) /\ Plain(order)
         /\ pc = "idle" => Latest(children, proc) /\ Plain(children)

\* state.restarts is the end of the history: what is missing is too old for good.
Trim ==
  /\ \A j, k \in DOMAIN history : j <= k => history[j] <= history[k]
  /\ \A j \in DOMAIN history : history[j] <= now
  /\ \E k \in 0 .. Len(history) :
       /\ restarts = SubSeq(history, k + 1, Len(history))
       /\ \A j \in 1 .. k : history[j] + flags.period <= now

\* The inductive invariant: where every process is that the supervisor started, which
\* lists it works on, and what of its history still counts.
IInv ==
  /\ Inv
  /\ Lists /\ Control /\ OneTerminated /\ Heard /\ Account /\ Placed /\ Undisturbed /\ Trim
=============================================================================

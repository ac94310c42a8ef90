------------------------------ MODULE Registry ------------------------------
(***************************************************************************)
(* erl/register.go, and what of erl/process.go takes part in it: the map   *)
(* `names' under registrationMutex, the _name of every process under its   *)
(* nameMutex, and the beginning of Process.exit, which changes the status  *)
(* and then gives the name back without holding any lock across the steps. *)
(*                                                                         *)
(* Clients are the goroutines that call Register and Unregister.  A        *)
(* process stands for its own goroutine too, the one that runs exit.       *)
(* tryRegisterName takes the statusMutex of the process as a reader and    *)
(* keeps it until the name is set, setStatus takes it as a writer: taking  *)
(* and giving back are steps of their own.  nameMutex is never held while  *)
(* something else is waited for, so what it guards is one step.  WhereIs,  *)
(* Registered and RegisteredCount only read.                               *)
(***************************************************************************)
CONSTANTS
  Procs,      \* processes
  Names,      \* valid names
  Clients,    \* goroutines that call Register and Unregister
  NoProc,     \* names[n] of a free name
  NoName,     \* the empty name
  Nobody      \* nobody holds registrationMutex

ASSUME RegistryAssumption ==
  /\ NoProc \notin Procs
  /\ NoName \notin Names
  /\ Clients \cap Procs = {}
  /\ Nobody \notin Clients \cup Procs

VARIABLES
  names,      \* the global map
  name,       \* p._name
  status,     \* p._status
  mutex,      \* the holder of registrationMutex (as a writer)
  pc,         \* where each goroutine is
  arg         \* the name and the process a goroutine works on

vars == <<names, name, status, mutex, pc, arg>>

Goroutines == Clients \cup Procs

ClientPC == {"idle", "try", "name", "bind", "unset"}
ProcPC   == {"alive", "setting", "check", "reread", "unregister", "unset", "unregistered",
             "gone"}

TypeOK ==
  /\ names \in [Names -> Procs \cup {NoProc}]
  /\ name \in [Procs -> Names \cup {NoName}]
  /\ status \in [Procs -> {"RUNNING", "EXITING", "EXITED"}]
  /\ mutex \in Goroutines \cup {Nobody}
  /\ pc \in [Goroutines -> ClientPC \cup ProcPC]
  /\ \A c \in Clients : pc[c] \in ClientPC
  /\ \A p \in Procs : pc[p] \in ProcPC
  /\ arg \in [Goroutines -> [n : Names \cup {NoName}, p : Procs \cup {NoProc}]]

\* registrationMutex is held by the goroutine that is inside Register or
\* Unregister, and by nobody when there is none.
LockOK ==
  \A g \in Goroutines : mutex = g <=> pc[g] \in {"try", "name", "bind", "unset"}

Init ==
  /\ names = [n \in Names |-> NoProc]
  /\ name = [p \in Procs |-> NoName]
  /\ status = [p \in Procs |-> "RUNNING"]
  /\ mutex = Nobody
  /\ pc = [g \in Goroutines |-> IF g \in Clients THEN "idle" ELSE "alive"]
  /\ arg = [g \in Goroutines |-> [n |-> NoName, p |-> NoProc]]

-----------------------------------------------------------------------------
\* Register takes the lock.  Its refusals (BadName, a nil PID, NameInUse) change
\* nothing and give the lock back at once: only a free name goes on.
RegisterLock(c, n, p) ==
  /\ pc[c] = "idle" /\ mutex = Nobody
  /\ names[n] = NoProc
  /\ mutex' = c
  /\ pc' = [pc EXCEPT ![c] = "try"]
  /\ arg' = [arg EXCEPT ![c] = [n |-> n, p |-> p]]
  /\ UNCHANGED <<names, name, status>>

\* Mutant: the status lock is given back before the name is set.
StatusReadBriefly(p) == FALSE

\* Mutant: exit keeps the status locked until its name is given back, the locks
\* in the opposite order to Register's.
StatusWrittenLong(p) == pc[p] \in {"setting", "check", "reread", "unregister", "unset"}

\* The statusMutex of p: a reader is tryRegisterName, between its look at the
\* status and the name it sets; a writer is setStatus.
StatusRead(p) == \E c \in Clients : pc[c] = "name" /\ arg[c].p = p

StatusWritten(p) == pc[p] = "setting"

\* tryRegisterName takes the status lock and goes on only if the process is
\* running; with NoProc the deferred Unlocks run.
TryRegisterStatus(c) ==
  /\ pc[c] = "try" /\ ~StatusWritten(arg[c].p)
  /\ \/ /\ status[arg[c].p] = "RUNNING"
        /\ pc' = [pc EXCEPT ![c] = "name"]
        /\ UNCHANGED mutex
     \/ /\ status[arg[c].p] # "RUNNING"
        /\ pc' = [pc EXCEPT ![c] = "idle"]
        /\ mutex' = Nobody
  /\ UNCHANGED <<names, name, status, arg>>

\* Mutant: the early return of Register without the deferred Unlock.
TryRegisterKeepsLock(c) ==
  /\ pc[c] = "name"
  /\ \/ /\ name[arg[c].p] = NoName
        /\ name' = [name EXCEPT ![arg[c].p] = arg[c].n]
        /\ pc' = [pc EXCEPT ![c] = "bind"]
     \/ /\ name[arg[c].p] # NoName
        /\ pc' = [pc EXCEPT ![c] = "idle"]
        /\ UNCHANGED name
  /\ UNCHANGED <<names, status, mutex, arg>>

\* The rest of tryRegisterName, under nameMutex as well: the name is set and the
\* status lock given back, or with AlreadyRegistered every lock.
TryRegisterName(c) ==
  /\ pc[c] = "name"
  /\ \/ /\ name[arg[c].p] = NoName
        /\ name' = [name EXCEPT ![arg[c].p] = arg[c].n]
        /\ pc' = [pc EXCEPT ![c] = "bind"]
        /\ UNCHANGED mutex
     \/ /\ name[arg[c].p] # NoName
        /\ pc' = [pc EXCEPT ![c] = "idle"]
        /\ mutex' = Nobody
        /\ UNCHANGED name
  /\ UNCHANGED <<names, status, arg>>

\* names[name] = pid, and the deferred Unlock.
RegisterBind(c) ==
  /\ pc[c] = "bind"
  /\ names' = [names EXCEPT ![arg[c].n] = arg[c].p]
  /\ pc' = [pc EXCEPT ![c] = "idle"]
  /\ mutex' = Nobody
  /\ UNCHANGED <<name, status, arg>>

\* Unregister takes the lock, finds the name and deletes it.
UnregisterDelete(g, n) ==
  /\ mutex = Nobody
  /\ names[n] # NoProc
  /\ mutex' = g
  /\ arg' = [arg EXCEPT ![g] = [n |-> n, p |-> names[n]]]
  /\ names' = [names EXCEPT ![n] = NoProc]
  /\ pc' = [pc EXCEPT ![g] = "unset"]
  /\ UNCHANGED <<name, status>>

ClientUnregister(c, n) == pc[c] = "idle" /\ UnregisterDelete(c, n)

\* pid.p.setName(""): the name is cleared, whoever holds it.
NameCleared(p) == [name EXCEPT ![p] = NoName]

\* The rest of Unregister: setName, and the deferred Unlock.
UnregisterUnset(g) ==
  /\ pc[g] = "unset"
  /\ name' = NameCleared(arg[g].p)
  /\ pc' = [pc EXCEPT ![g] = IF g \in Clients THEN "idle" ELSE "unregistered"]
  /\ mutex' = Nobody
  /\ UNCHANGED <<names, status, arg>>

-----------------------------------------------------------------------------
\* Process.exit: p.setStatus(exiting) gets the status lock ...
BeginExit(p) ==
  /\ pc[p] = "alive" /\ ~StatusRead(p)
  /\ pc' = [pc EXCEPT ![p] = "setting"]
  /\ UNCHANGED <<names, name, status, mutex, arg>>

\* ... changes the status and gives the lock back.
SetExiting(p) ==
  /\ pc[p] = "setting"
  /\ status' = [status EXCEPT ![p] = "EXITING"]
  /\ pc' = [pc EXCEPT ![p] = "check"]
  /\ UNCHANGED <<names, name, mutex, arg>>

\* if p.getName() != "" ...
ExitChecksName(p) ==
  /\ pc[p] = "check"
  /\ pc' = [pc EXCEPT ![p] = IF name[p] = NoName THEN "unregistered" ELSE "reread"]
  /\ UNCHANGED <<names, name, status, mutex, arg>>

\* The argument of Unregister(p.getName()): the name is read once more.  It may
\* have been unregistered meanwhile, and Unregister("") finds nothing.
ExitReadsName(p) ==
  /\ pc[p] = "reread"
  /\ arg' = [arg EXCEPT ![p] = [n |-> name[p], p |-> p]]
  /\ pc' = [pc EXCEPT ![p] = IF name[p] = NoName THEN "unregistered" ELSE "unregister"]
  /\ UNCHANGED <<names, name, status, mutex>>

\* Unregister, called by exit with the name it read.
ExitUnregisters(p) ==
  /\ pc[p] = "unregister"
  /\ \/ UnregisterDelete(p, arg[p].n)
     \/ /\ mutex = Nobody
        /\ names[arg[p].n] = NoProc
        /\ pc' = [pc EXCEPT ![p] = "unregistered"]
        /\ UNCHANGED <<names, name, status, mutex, arg>>

\* p.setStatus(exited), after the rest of exit.
EndExit(p) ==
  /\ pc[p] = "unregistered" /\ ~StatusRead(p)
  /\ status' = [status EXCEPT ![p] = "EXITED"]
  /\ pc' = [pc EXCEPT ![p] = "gone"]
  /\ UNCHANGED <<names, name, mutex, arg>>

ClientNext(c) ==
  \/ \E n \in Names : ClientUnregister(c, n) \/ \E p \in Procs : RegisterLock(c, n, p)
  \/ TryRegisterStatus(c) \/ TryRegisterName(c) \/ RegisterBind(c) \/ UnregisterUnset(c)

ExitStep(p) ==
  \/ SetExiting(p) \/ ExitChecksName(p) \/ ExitReadsName(p) \/ ExitUnregisters(p)
  \/ UnregisterUnset(p) \/ EndExit(p)

Next ==
  \/ \E c \in Clients : ClientNext(c)
  \/ \E p \in Procs : BeginExit(p) \/ ExitStep(p)

Spec == Init /\ [][Next]_vars

\* A goroutine inside Register, Unregister or exit goes on; sync.RWMutex does
\* not let a blocked writer starve, so an exit that waits for the lock while
\* others take it in turn gets it: strong fairness.  Nobody has to begin.
Fairness ==
  /\ \A c \in Clients :
       WF_vars(TryRegisterStatus(c) \/ TryRegisterName(c) \/ RegisterBind(c) \/ UnregisterUnset(c))
  /\ \A p \in Procs : SF_vars(ExitStep(p))

FairSpec == Spec /\ Fairness

-----------------------------------------------------------------------------
\* register.go:58-60: after a successful Register the process "will properly
\* unregister itself when it exits".  Once exit is past Unregister, no name leads
\* to the process, whatever Register was under way meanwhile.
NoStaleEntry ==
  \A p \in Procs : pc[p] \in {"unregistered", "gone"} =>
    \A n \in Names : names[n] # p

\* The map and the processes' own names tell the same story whenever nobody is
\* inside Register or Unregister: a process with a name nobody can find could
\* never be registered again.
NamesAgree ==
  mutex = Nobody =>
    \A n \in Names, p \in Procs : names[n] = p <=> name[p] = n

\* A process that is found under two names would keep one of them for ever,
\* since exit gives back only one.
OneNameEach ==
  \A n, m \in Names : names[n] # NoProc /\ names[n] = names[m] => n = m

-----------------------------------------------------------------------------
\* The inductive invariant: what NoStaleEntry, NamesAgree and OneNameEach rest on.
\* It says how the map and the processes' names differ while somebody is inside
\* Register or Unregister, and what an exiting process has already read.

\* An entry of the map is backed by the process' own name.
EntryIsNamed ==
  \A n \in Names, p \in Procs : names[n] = p => name[p] = n

\* A process with a name is in the map, or somebody who holds the lock is about
\* to put it there (bind) or to clear its name (unset).
NamedIsEntered ==
  \A p \in Procs :
    name[p] # NoName =>
      \/ names[name[p]] = p
      \/ \E g \in Goroutines : pc[g] \in {"bind", "unset"} /\ arg[g].p = p

\* Inside Register the name stays free; a process whose status is being held is
\* running, and after tryRegisterName it has the name.
RegisterOK ==
  \A c \in Clients : pc[c] \in {"try", "name", "bind"} =>
    /\ arg[c].n \in Names /\ arg[c].p \in Procs
    /\ names[arg[c].n] = NoProc
    /\ pc[c] = "name" => pc[arg[c].p] = "alive"
    /\ pc[c] = "bind" => name[arg[c].p] = arg[c].n

\* Between the delete and setName("") the name is free and no name leads to the
\* process that had it.
UnsetOK ==
  \A g \in Goroutines : pc[g] = "unset" =>
    /\ arg[g].n \in Names /\ arg[g].p \in Procs
    /\ names[arg[g].n] = NoProc
    /\ \A n \in Names : names[n] # arg[g].p

\* An exiting process takes no new name: the one it read is still its own, or it
\* has none any more.
ExitOK ==
  \A p \in Procs :
    /\ pc[p] \in {"alive", "setting"} <=> status[p] = "RUNNING"
    /\ status[p] = "EXITED" => pc[p] = "gone"
    /\ pc[p] \in {"unregister", "unset"} => name[p] \in {NoName, arg[p].n}
    /\ pc[p] = "unregister" => arg[p].n \in Names
    /\ pc[p] \in {"unregistered", "gone"} => name[p] = NoName

IInv ==
  /\ TypeOK
  /\ LockOK
  /\ EntryIsNamed
  /\ NamedIsEntered
  /\ RegisterOK
  /\ UnsetOK
  /\ ExitOK

-----------------------------------------------------------------------------
\* Exit always gets through the registry, however often others take the locks:
\* Register waits for statusMutex with registrationMutex in its hands, so an exit
\* that kept the status locked on its way to Unregister would wait for ever.
ExitsFinish ==
  \A p \in Procs : pc[p] = "setting" ~> status[p] = "EXITED"

\* Register, Unregister and exit together keep the promise of NameTable.
Table == INSTANCE NameTable
  WITH table <- names, gone <- {p \in Procs : status[p] = "EXITED"}

ImplementsNameTable == Table!TableSpec
=============================================================================

--------------------------- MODULE RegistryProofs ---------------------------
(***************************************************************************)
(* Proofs about the registry for any processes, names and clients: the     *)
(* inductive invariant IInv, the safety invariants that follow from it,    *)
(* and that Registry implements NameTable.                                 *)
(***************************************************************************)
EXTENDS Registry, TLAPS

USE RegistryAssumption DEF Goroutines, ClientPC, ProcPC

-----------------------------------------------------------------------------
\* The initial state: no entries, no names, nobody inside.
LEMMA InitEstablishes == Init => IInv
<1> SUFFICES ASSUME Init PROVE IInv
  OBVIOUS
<1>1. TypeOK
  BY DEF Init, TypeOK
<1>2. LockOK /\ EntryIsNamed /\ NamedIsEntered
  BY DEF Init, LockOK, EntryIsNamed, NamedIsEntered
<1>3. RegisterOK /\ UnsetOK /\ ExitOK
  BY DEF Init, RegisterOK, UnsetOK, ExitOK
<1> QED
  BY <1>1, <1>2, <1>3 DEF IInv

-----------------------------------------------------------------------------
\* Register.

LEMMA RegisterLockKeeps ==
  ASSUME IInv, NEW c \in Clients, NEW n \in Names, NEW p \in Procs,
         RegisterLock(c, n, p)
  PROVE  IInv'
<1> USE DEF IInv, RegisterLock
<1>1. TypeOK'
  BY DEF TypeOK
<1>2. LockOK'
  BY <1>1 DEF TypeOK, LockOK
<1>3. EntryIsNamed' /\ NamedIsEntered'
  BY DEF TypeOK, EntryIsNamed, NamedIsEntered
<1>4. RegisterOK' /\ UnsetOK' /\ ExitOK'
  BY DEF TypeOK, LockOK, RegisterOK, UnsetOK, ExitOK
<1> QED
  BY <1>1, <1>2, <1>3, <1>4

\* tryRegisterName goes on with a running process, whose status it then holds.
LEMMA TryRegisterStatusKeeps ==
  ASSUME IInv, NEW c \in Clients, TryRegisterStatus(c)
  PROVE  IInv'
<1> USE DEF IInv, TryRegisterStatus, StatusWritten
<1>1. TypeOK'
  BY DEF TypeOK
<1>2. LockOK'
  BY DEF TypeOK, LockOK
<1>3. EntryIsNamed' /\ NamedIsEntered'
  BY DEF TypeOK, EntryIsNamed, NamedIsEntered
<1>4. RegisterOK' /\ UnsetOK'
  BY DEF TypeOK, RegisterOK, UnsetOK, ExitOK
<1>5. ExitOK'
  BY DEF TypeOK, ExitOK
<1> QED
  BY <1>1, <1>2, <1>3, <1>4, <1>5

\* It sets the name of a process that has none, or gives up.
LEMMA TryRegisterNameKeeps ==
  ASSUME IInv, NEW c \in Clients, TryRegisterName(c)
  PROVE  IInv'
<1> USE DEF IInv, TryRegisterName
<1>1. TypeOK'
  <2>1. arg[c].n \in Names /\ arg[c].p \in Procs
    BY DEF RegisterOK
  <2>2. CASE name[arg[c].p] = NoName
    BY <2>1, <2>2 DEF TypeOK
  <2>3. CASE name[arg[c].p] # NoName
    BY <2>3 DEF TypeOK
  <2> QED
    BY <2>2, <2>3
<1>2. LockOK'
  BY DEF TypeOK, LockOK
<1>3. EntryIsNamed' /\ NamedIsEntered'
  BY DEF TypeOK, LockOK, EntryIsNamed, NamedIsEntered, RegisterOK
<1>4. RegisterOK' /\ UnsetOK'
  BY DEF TypeOK, LockOK, RegisterOK, UnsetOK
<1>5. ExitOK'
  BY DEF TypeOK, RegisterOK, ExitOK
<1> QED
  BY <1>1, <1>2, <1>3, <1>4, <1>5

\* The entry goes to a process that already has the name, so both sides agree.
LEMMA RegisterBindKeeps ==
  ASSUME IInv, NEW c \in Clients, RegisterBind(c)
  PROVE  IInv'
<1> USE DEF IInv, RegisterBind
<1>1. TypeOK'
  BY DEF TypeOK, RegisterOK
<1>2. LockOK'
  BY DEF TypeOK, LockOK
<1>3. EntryIsNamed' /\ NamedIsEntered'
  BY DEF TypeOK, LockOK, EntryIsNamed, NamedIsEntered, RegisterOK
<1>4. RegisterOK' /\ UnsetOK'
  BY DEF TypeOK, LockOK, RegisterOK, UnsetOK
<1>5. ExitOK'
  BY DEF TypeOK, ExitOK
<1> QED
  BY <1>1, <1>2, <1>3, <1>4, <1>5

-----------------------------------------------------------------------------
\* Unregister.  The delete is the same step whether a client or exit takes it:
\* it leaves the map and the names in the state UnsetOK describes.

LEMMA UnregisterDeleteKeeps ==
  ASSUME IInv, NEW g \in Goroutines, NEW n \in Names,
         g \in Clients => pc[g] = "idle",
         g \in Procs => pc[g] = "unregister" /\ arg[g].n = n,
         UnregisterDelete(g, n)
  PROVE  IInv'
<1> USE DEF IInv, UnregisterDelete
<1>1. TypeOK'
  BY DEF TypeOK
<1>2. LockOK'
  BY DEF TypeOK, LockOK
<1>3. EntryIsNamed' /\ UnsetOK'
  BY DEF TypeOK, LockOK, EntryIsNamed, UnsetOK
<1>4. NamedIsEntered'
  BY DEF TypeOK, LockOK, EntryIsNamed, NamedIsEntered
<1>5. RegisterOK'
  BY DEF TypeOK, LockOK, RegisterOK
<1>6. ExitOK'
  BY DEF TypeOK, ExitOK
<1> QED
  BY <1>1, <1>2, <1>3, <1>4, <1>5, <1>6

\* An exiting process whose delete hit an entry of another process has no name
\* left: NamedIsEntered would need its entry, or a second lock holder.
LEMMA UnregisterUnsetKeeps ==
  ASSUME IInv, NEW g \in Goroutines, UnregisterUnset(g)
  PROVE  IInv'
<1> USE DEF IInv, UnregisterUnset, NameCleared
<1>1. TypeOK'
  BY DEF TypeOK
<1>2. LockOK'
  BY DEF TypeOK, LockOK
<1>3. EntryIsNamed' /\ UnsetOK'
  BY DEF TypeOK, LockOK, EntryIsNamed, UnsetOK
<1>4. NamedIsEntered'
  BY DEF TypeOK, LockOK, NamedIsEntered
<1>5. RegisterOK'
  BY DEF TypeOK, LockOK, RegisterOK
<1>6. g \in Procs => name'[g] = NoName
  <2> SUFFICES ASSUME g \in Procs, name[g] = arg[g].n, name[g] # NoName
               PROVE  arg[g].p = g
    BY DEF TypeOK, ExitOK
  <2>1. names[name[g]] # g
    BY DEF UnsetOK
  <2>2. PICK h \in Goroutines : pc[h] \in {"bind", "unset"} /\ arg[h].p = g
    BY <2>1 DEF NamedIsEntered
  <2>3. h = g
    BY <2>2 DEF TypeOK, LockOK
  <2> QED
    BY <2>2, <2>3
<1>7. ExitOK'
  BY <1>6 DEF TypeOK, UnsetOK, ExitOK
<1> QED
  BY <1>1, <1>2, <1>3, <1>4, <1>5, <1>7

-----------------------------------------------------------------------------
\* exit.

\* setStatus(exiting) gets its lock when no tryRegisterName holds the status.
LEMMA BeginExitKeeps ==
  ASSUME IInv, NEW p \in Procs, BeginExit(p) \/ SetExiting(p)
  PROVE  IInv'
<1> USE DEF IInv, BeginExit, SetExiting
<1>1. TypeOK' /\ LockOK'
  BY DEF TypeOK, LockOK
<1>2. EntryIsNamed' /\ NamedIsEntered'
  BY DEF TypeOK, EntryIsNamed, NamedIsEntered
<1>3. RegisterOK'
  BY DEF TypeOK, RegisterOK, StatusRead
<1>4. UnsetOK' /\ ExitOK'
  BY DEF TypeOK, UnsetOK, ExitOK
<1> QED
  BY <1>1, <1>2, <1>3, <1>4

\* exit looks at the name, and reads it again, without any lock.
LEMMA ExitReadsKeep ==
  ASSUME IInv, NEW p \in Procs, ExitChecksName(p) \/ ExitReadsName(p)
  PROVE  IInv'
<1> USE DEF IInv, ExitChecksName, ExitReadsName
<1>1. TypeOK' /\ LockOK'
  BY DEF TypeOK, LockOK
<1>2. EntryIsNamed'
  BY DEF EntryIsNamed
<1>3. NamedIsEntered'
  <2>1. \A g \in Goroutines : pc[g] \in {"bind", "unset"} => pc'[g] = pc[g] /\ arg'[g] = arg[g]
    BY DEF TypeOK
  <2> QED
    BY <2>1 DEF NamedIsEntered
<1>4. RegisterOK' /\ UnsetOK'
  BY DEF TypeOK, RegisterOK, UnsetOK
<1>5. ExitOK'
  BY DEF TypeOK, ExitOK
<1> QED
  BY <1>1, <1>2, <1>3, <1>4, <1>5

\* When exit does not find the name it read, its process has none: with the lock
\* free, a name that is set is in the map.
LEMMA ExitUnregistersKeeps ==
  ASSUME IInv, NEW p \in Procs, ExitUnregisters(p)
  PROVE  IInv'
<1> USE DEF IInv
<1>1. CASE UnregisterDelete(p, arg[p].n)
  BY <1>1, UnregisterDeleteKeeps DEF ExitUnregisters, ExitOK
<1>2. CASE ~UnregisterDelete(p, arg[p].n)
  <2> USE <1>2 DEF ExitUnregisters
  <2>1. TypeOK' /\ LockOK'
    BY DEF TypeOK, LockOK
  <2>2. EntryIsNamed' /\ NamedIsEntered'
    BY DEF TypeOK, EntryIsNamed, NamedIsEntered
  <2>3. RegisterOK' /\ UnsetOK'
    BY DEF TypeOK, RegisterOK, UnsetOK
  <2>4. name[p] = NoName
    BY DEF TypeOK, LockOK, NamedIsEntered, ExitOK
  <2>5. ExitOK'
    BY <2>4 DEF TypeOK, ExitOK
  <2> QED
    BY <2>1, <2>2, <2>3, <2>5
<1> QED
  BY <1>1, <1>2

\* The exit ends without a name.
LEMMA EndExitKeeps ==
  ASSUME IInv, NEW p \in Procs, EndExit(p)
  PROVE  IInv'
<1> USE DEF IInv, EndExit
<1>1. TypeOK' /\ LockOK'
  BY DEF TypeOK, LockOK
<1>2. EntryIsNamed' /\ NamedIsEntered'
  BY DEF TypeOK, EntryIsNamed, NamedIsEntered
<1>3. RegisterOK' /\ UnsetOK' /\ ExitOK'
  BY DEF TypeOK, RegisterOK, UnsetOK, ExitOK
<1> QED
  BY <1>1, <1>2, <1>3

-----------------------------------------------------------------------------
\* Every step keeps the inductive invariant.
LEMMA NextKeeps == IInv /\ [Next]_vars => IInv'
<1> SUFFICES ASSUME IInv, [Next]_vars
             PROVE  IInv'
  OBVIOUS
<1>1. CASE UNCHANGED vars
  BY <1>1 DEF vars, IInv, TypeOK, LockOK, EntryIsNamed, NamedIsEntered, RegisterOK,
              UnsetOK, ExitOK
<1>2. ASSUME NEW c \in Clients, NEW n \in Names, ClientUnregister(c, n)
      PROVE  IInv'
  BY <1>2, UnregisterDeleteKeeps DEF ClientUnregister
<1>3. ASSUME NEW c \in Clients, ClientNext(c)
      PROVE  IInv'
  BY <1>2, <1>3, RegisterLockKeeps, TryRegisterStatusKeeps, TryRegisterNameKeeps,
     RegisterBindKeeps, UnregisterUnsetKeeps DEF ClientNext
<1>4. ASSUME NEW p \in Procs, BeginExit(p) \/ ExitStep(p)
      PROVE  IInv'
  BY <1>4, BeginExitKeeps, ExitReadsKeep, ExitUnregistersKeeps, UnregisterUnsetKeeps,
     EndExitKeeps DEF ExitStep
<1> QED
  BY <1>1, <1>3, <1>4 DEF Next

\* The inductive invariant holds in every reachable state.
THEOREM Invariance == Spec => []IInv
<1>1. Init => IInv
  BY InitEstablishes
<1>2. IInv /\ [Next]_vars => IInv'
  BY NextKeeps
<1> QED
  BY <1>1, <1>2, PTL DEF Spec

\* register.go:58-60, and its Unregister in exit: no name leads to a process
\* that is past Unregister, whatever Register was racing with it.
THEOREM NoStaleEntries == Spec => []NoStaleEntry
<1>1. IInv => NoStaleEntry
  BY DEF IInv, TypeOK, EntryIsNamed, ExitOK, NoStaleEntry
<1> QED
  BY <1>1, Invariance, PTL

\* Outside Register and Unregister, the map and the processes' names agree.
THEOREM NamesAlwaysAgree == Spec => []NamesAgree
<1>1. IInv => NamesAgree
  <2> SUFFICES ASSUME IInv, mutex = Nobody, NEW n \in Names, NEW p \in Procs
               PROVE  names[n] = p <=> name[p] = n
    BY DEF NamesAgree
  <2>1. \A g \in Goroutines : pc[g] \notin {"bind", "unset"}
    BY DEF IInv, LockOK
  <2> QED
    BY <2>1 DEF IInv, EntryIsNamed, NamedIsEntered
<1> QED
  BY <1>1, Invariance, PTL

\* A process is found under one name at most.
THEOREM OneNamePerProcess == Spec => []OneNameEach
<1>1. IInv => OneNameEach
  BY DEF IInv, TypeOK, EntryIsNamed, OneNameEach
<1> QED
  BY <1>1, Invariance, PTL

-----------------------------------------------------------------------------
\* The registry with its locks and its unlocked exit implements the name table:
\* RegisterBind is Bind, the delete of Unregister is Unbind, the end of exit is
\* Go, and every other step leaves table and gone alone.

LEMMA BindIsTableStep ==
  ASSUME IInv, NEW c \in Clients, RegisterBind(c)
  PROVE  Table!TableNext
<1>1. arg[c].n \in Names /\ arg[c].p \in Procs
  BY DEF IInv, RegisterBind, RegisterOK
<1>2. name[arg[c].p] = arg[c].n /\ names[arg[c].n] = NoProc
  BY DEF IInv, RegisterBind, RegisterOK
<1>3. status[arg[c].p] # "EXITED"
  BY <1>1, <1>2 DEF IInv, ExitOK
<1>4. \A m \in Names : names[m] # arg[c].p
  BY <1>1, <1>2 DEF IInv, EntryIsNamed
<1>5. Table!Bind(arg[c].n, arg[c].p)
  BY <1>1, <1>2, <1>3, <1>4 DEF RegisterBind, Table!Bind
<1> QED
  BY <1>1, <1>5 DEF Table!TableNext

\* delete(names, name) is Unbind.
LEMMA DeleteIsTableStep ==
  ASSUME NEW g \in Goroutines, NEW n \in Names, UnregisterDelete(g, n)
  PROVE  Table!TableNext
<1>1. Table!Unbind(n)
  BY DEF UnregisterDelete, Table!Unbind
<1> QED
  BY <1>1 DEF Table!TableNext

\* The end of exit is Go: no entry leads to the process.
LEMMA EndExitIsTableStep ==
  ASSUME IInv, NEW p \in Procs, EndExit(p)
  PROVE  Table!TableNext
<1>1. \A n \in Names : names[n] # p
  BY DEF IInv, EndExit, EntryIsNamed, ExitOK
<1>2. {q \in Procs : status'[q] = "EXITED"} = {q \in Procs : status[q] = "EXITED"} \cup {p}
  BY DEF IInv, TypeOK, EndExit
<1>3. Table!Go(p)
  BY <1>1, <1>2 DEF EndExit, Table!Go
<1> QED
  BY <1>3 DEF Table!TableNext

\* Every step is a step of NameTable or leaves the table alone.
LEMMA StepIsTableStep ==
  IInv /\ [Next]_vars => [Table!TableNext]_Table!tableVars
<1> SUFFICES ASSUME IInv, [Next]_vars
             PROVE  Table!TableNext \/ UNCHANGED Table!tableVars
  OBVIOUS
<1> USE DEF Table!tableVars
<1>1. CASE UNCHANGED vars
  BY <1>1 DEF vars
<1>2. ASSUME NEW c \in Clients, ClientNext(c)
      PROVE  Table!TableNext \/ UNCHANGED Table!tableVars
  <2>1. CASE RegisterBind(c)
    BY <2>1, BindIsTableStep
  <2>2. ASSUME NEW n \in Names, ClientUnregister(c, n)
        PROVE  Table!TableNext
    BY <2>2, DeleteIsTableStep DEF ClientUnregister
  <2>3. ASSUME NEW n \in Names, NEW p \in Procs, RegisterLock(c, n, p)
        PROVE  UNCHANGED Table!tableVars
    BY <2>3 DEF RegisterLock
  <2>4. CASE TryRegisterStatus(c) \/ TryRegisterName(c) \/ UnregisterUnset(c)
    BY <2>4 DEF TryRegisterStatus, TryRegisterName, UnregisterUnset
  <2> QED
    BY <1>2, <2>1, <2>2, <2>3, <2>4 DEF ClientNext
<1>3. ASSUME NEW p \in Procs, BeginExit(p)
      PROVE  UNCHANGED Table!tableVars
  BY <1>3 DEF BeginExit
<1>4. ASSUME NEW p \in Procs, ExitStep(p)
      PROVE  Table!TableNext \/ UNCHANGED Table!tableVars
  <2>1. CASE EndExit(p)
    BY <2>1, EndExitIsTableStep
  <2>2. CASE UnregisterDelete(p, arg[p].n) /\ ExitUnregisters(p)
    BY <2>2, DeleteIsTableStep DEF ExitUnregisters, IInv, ExitOK
  <2>3. CASE ~UnregisterDelete(p, arg[p].n) /\ ExitUnregisters(p)
    BY <2>3 DEF ExitUnregisters
  <2>4. CASE ExitChecksName(p) \/ ExitReadsName(p) \/ UnregisterUnset(p)
    BY <2>4 DEF ExitChecksName, ExitReadsName, UnregisterUnset
  <2>5. CASE SetExiting(p)
    <3>1. status[p] = "RUNNING"
      BY <2>5 DEF SetExiting, IInv, ExitOK
    <3> QED
      BY <2>5, <3>1 DEF SetExiting, IInv, TypeOK
  <2> QED
    BY <1>4, <2>1, <2>2, <2>3, <2>4, <2>5 DEF ExitStep
<1> QED
  BY <1>1, <1>2, <1>3, <1>4 DEF Next

\* Every behaviour of the registry is one of the name table.
THEOREM RegistryImplementsNameTable == Spec => ImplementsNameTable
<1>1. Init => Table!TableInit
  BY DEF Init, Table!TableInit
<1>2. IInv /\ [Next]_vars => [Table!TableNext]_Table!tableVars
  BY StepIsTableStep
<1> QED
  BY <1>1, <1>2, Invariance, PTL DEF Spec, ImplementsNameTable, Table!TableSpec
=============================================================================

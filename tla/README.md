# erl-go in TLA+

[erl-go](../src/README.md) brings Erlang's processes to Go: goroutines with a mailbox, links,
monitors, exit signals, a name registry, and on top of them OTP's behaviours (GenServer,
Supervisor, Application, Task, Port). This directory holds a formal model of it: TLA+ modules
translated from the Go source, TLC configurations that check them on small instances, and proofs
that TLAPS checks for every value of the constants.

Contents: [1 The system](#1-the-system) · [2 The modules](#2-the-modules) ·
[3 The runs](#3-the-runs) · [4 What the code does not do as documented](#4-what-the-code-does-not-do-as-documented) ·
[5 Fairness](#5-fairness) · [6 Bounds](#6-bounds) · [7 What is proved](#7-what-is-proved) ·
[8 What is not modelled](#8-what-is-not-modelled) · [9 Plan](#9-plan) · [10 How to run](#10-how-to-run)

`PROJECT.json` lists the components, the runs, for every definition the lines of source it
stands for, for every property of a passing run a *mutant* (a plausible bug, written as an
operator next to the definition it would replace, that makes the property fail), and the hazards
the properties are aimed at.

## 1 The system

### Layers

```
 application, task, recurringtask, port, test receivers, ExitWaiter
 supervisor  ---- childKiller (one process per child to be stopped)
 genserver   ---- genCaller / genStarter / genStopper (one process per call)
 timer
 erl: Process (signal loop), Link/Monitor/Exit/Send/Spawn*, Register
 internal/inbox: the queue every process has twice (signals, and the Runnable's messages)
```

Every process is two goroutines and up to three more: the signal loop `(*Process).run`, the
Runnable, and a *pump* for each inbox that is read through a Go channel
(`(*Inbox[T]).Channel`). Processes share no state but PIDs: they send each other signals, by
appending to the target's inbox. The exceptions are the status word of the target, which the
sender reads (`send`), and the registry, a map under an RWMutex.

### Components

| Component | State | Operations | What is hard | What makes it correct |
|---|---|---|---|---|
| **Inbox** `erl/internal/inbox` | slice, closed flag, mutex + condition variable, the item in the pump's hand | Enqueue, Pop, BlockingPop, Iter, Channel, Drain, Close | wake-ups between test and Wait; several consumers; the pump holds an item nobody else sees | nothing is lost, doubled or reordered; a waiter is woken; Close ends every consumer |
| **Process** `erl/process.go`, `erl.go`, `dispatch.go` | status, links, monitors, monitoring, trapExits, two inboxes, the `done` channel | run, exit, send, Link, Unlink, Monitor, Demonitor, Spawn*, Exit, ProcessFlag | the sender looks at the status before it enqueues; exit drains while others send; Runnable and signal loop end each other | whoever links or monitors hears of the end, once, with the truth, after the messages sent before; exit completes; Kill kills |
| **Registry** `erl/register.go` | map name→PID; each process has its own name and status | Register, Unregister, WhereIs; exit unregisters | three locks; exit reads its name long before it takes the lock | map and processes agree; a dead process has no name |
| **Supervisor** `erl/supervisor` | child specs with PID and flags, restart times | Init, StartChild, TerminateChild, RestartChild, DeleteChild, handling ExitMsgs, Terminate | children die while others are being stopped or started; roll-back of a failed start; stale ExitMsgs; the intensity window | one process per child, none forgotten; group order; permanent children come back; gives up exactly beyond the intensity |
| **Child killer** `supervisor/child_killer.go` | the child, a timer, the channel the supervisor waits on | unlink, monitor, signal, wait, report | its wait depends on a DownMsg, on its own timer and on the child | the supervisor is answered, and only when the child is gone |
| **GenServer** `erl/genserver` | user state, continuation, parent; per call a helper process and unbuffered channels | Start*, Call, Cast, Stop; callbacks | caller's timeout, helper's timeout, reply and DownMsg race; start failing after a time-out | a call returns one answer and leaks nothing; Terminate is called on every way out |
| **GenServer start** `genserver/api.go`, `gen_starter.go` | the caller's wait for `initAck`, the genStarter, the name | Start, StartLink, StartMonitor | start timeouts on both sides, an Init that fails late, a caller that crashes, the name | a failed start is over when Start returns; Start returns; no orphan |
| **gensrv** `erl/gensrv` | tables of handlers by message type | dispatch | a message without a handler ends the server | Terminate runs all the same |
| **Timer** `erl/timer.go` | a process per timer | SendAfter, CancelTimer | cancel and the receiver's end lose against the firing; the timer starts over at every message | nothing that hangs on it is lost or doubled |
| **Application** `erl/application` | root supervisor, CancelFunc, two `stopped` flags | Start, Stop | the supervisor's end, Stop and Terminate each want to cancel | the context is cancelled once; Stop is synchronous |
| **Task** `erl/task` | the function's goroutine, the owner | Start, Stop | function end, Stop and owner's end race, before and after TrapExit | the function is not left running; the task ends |
| **Recurring task** `erl/recurringtask` | the next run's timer | Start, Stop | an error, a panic, Stop, Kill and the owner's end between two runs | one run ahead, never two; none after Stop |
| **Port** `erl/port` | the external program, its pipes, readers, who asked to close | Open, Close, Cast | `Wait` closes pipes under the readers; commands, closes and ends cross | lines in order; owner and closer are told; the program does not outlive the owner |
| **Test receivers** `erl/x/erltest` | expectations with counts and prerequisites, supervised dependencies | Expect…, Wait, WaitOn…, Stop | counts are polled while Do runs; everything takes one mutex; a dependency dies | Wait is right about what happened; Wait and Stop end |
| **ExitWaiter** `erl/exitwaiter` | a WaitGroup | New | it lives in the name of a process that may die | Stop is answered |
| **exitreason, root process, logging** | none | | | |

### How components interact

* **signals** – `send(signal)` tests `p.getStatus()` and then enqueues in the target's signal
  inbox. To a process that is not running it answers links and monitors itself
  (`process.go:345-362`).
* **exit** – sets the status, unregisters, drains the signal inbox and takes up the links and
  monitors it finds there, tells its links and monitors, closes the Runnable's inbox, waits for
  the Runnable on the `done` channel, and closes the signal inbox (`process.go:257-332`).
* **Supervisor → child** – `Start` of a child is a synchronous call that returns a linked PID;
  stopping one spawns a `childKiller`, on whose channel the supervisor blocks
  (`supervisor.go:598-629`).
* **child → Supervisor** – an ExitMsg through the link, handled like any other message, one at a
  time.
* **caller → server** – three little processes stand between them, one per request: genStarter
  (start), genCaller (call), genStopper (stop). Each monitors the server, has a timer of its own,
  and answers on an unbuffered channel or by closing one.
* **timer → receiver** – a timer is a process that monitors its receiver and sends it one message;
  a recurring task is a server that sets itself one after every run.
* **owner → task, port, application** – linked processes that trap exits: their owner's end is an
  ExitMsg, if it comes after `TrapExit`, and their own end if it comes before.

## 2 The modules

| Module | What it is | Code |
|---|---|---|
| `Mailbox` | abstract specification: a queue, closed or not, and what was taken from it | what `inbox.go` promises |
| `Inbox` | the mutex, the wait set of `sync.Cond`, iterators, the pump with its hand, `Pop`, `Drain`, `Close`, step by step | `erl/internal/inbox/inbox.go` |
| `InboxProofs` | invariance and refinement proofs of `Inbox` | |
| `NameTable` | abstract specification: name and process belong to each other, changed in one step | what `register.go` promises |
| `Registry` | `Register`, `Unregister` and `exit`, lock by lock | `erl/register.go`, `process.go` |
| `RegistryProofs` | invariance and refinement proofs of `Registry` | |
| `Process` | processes, their signal inboxes, links, monitors, exit, spawning | `erl/process.go`, `erl.go`, `dispatch.go` |
| `ProcessProofs` | invariance proofs of `Process` | |
| `Supervisor` | one supervisor, its children and childKillers | `erl/supervisor` |
| `SupervisorProofs` | invariance proofs of `Supervisor` | |
| `RemoteCall` | abstract specification: a call returns once, with the answer, the server's end, or a timeout | what `Call` promises |
| `GenServer` | one server's loop, and Call and Stop through their helpers | `erl/genserver`: `gen_server.go`, `gen_caller.go`, `gen_stopper.go`, `api.go` |
| `GenServerProofs` | invariance and refinement proofs of `GenServer` | |
| `GenStart` | one start of a server: caller, genStarter, server, and whoever else may take the name | `genserver/api.go` (`doStart`), `gen_starter.go`, `gen_server.go` |
| `Application` | one application over its root supervisor, and those that stop it | `erl/application`, the dispatch of `erl/gensrv` |
| `Timer` | timers and their receivers | `erl/timer.go`, `SendAfter` |
| `RecurringTask` | one recurring task; extends `Timer` | `erl/recurringtask` |
| `Task` | one task; extends `Timer` for the processes and their messages | `erl/task` |
| `Workers` | composes the three: an owner with a task, a recurring task and a timer of its own | |
| `StartProofs` | invariance proofs of `GenStart` and `Workers`: what becomes of what was started | |
| `Port` | one port, its reader, `Wait`, and the external program | `erl/port` |
| `PortProofs` | invariance proofs of `Port` | |
| `Receiver` | one TestReceiver, the test that waits and stops, a supervised dependency | `erl/x/erltest`, `erl/exitwaiter` |
| `StopProofs` | invariance proofs of `Application` and `Receiver`: what a Stop or a Wait that returned may be believed | |
| `MC*` | definitions for TLC: symmetry, child specs, ways to start, expectations | |

### Inbox

`Enqueue`, `Pop`, `Drain` and `Close` hold the mutex from start to end, so each is one step, and
the mutex itself needs no variable. `BlockingPop` gives it up in `cond.Wait`: a consumer is about
to look at the queue (`pop`), asleep (`wait`), has a message in its `hand` outside the mutex
(`hold`), or has ended (`end`). `Broadcast` turns every `wait` into `pop`. Consumers are the
goroutines that range over `Iter`, and the pump that `Channel` starts, whose `hold` is the send on
an unbuffered channel: it ends when the reader receives, which it may stop doing at any moment
(`reading`). `Drain` and `Close` change the same state; what `Drain` returns is the queue as it
then stands. `accepted` and `delivered` are history variables.

### Registry

`Clients` call `Register` and `Unregister`; every process may begin to exit at any moment. The
variable `pc` says where a goroutine is between two lock operations: in `Register` with
registrationMutex taken, with the process' statusMutex as well (`StatusRead`: `tryRegisterName` keeps
it, as a reader, until the name is set), and before the map entry; in `Unregister` between the
deletion and `setName("")`; and in `exit` with statusMutex taken as a writer (`StatusWritten`), and
between the two reads of its own name and `Unregister`. `nameMutex` is never held while anything is
waited for, so what it guards is one step. A refusal changes nothing. `NameTable` sees only the
map and who is gone.

### Process

The state of a process is what `Process` has: `status`, `trap`, the signal inbox `receive`,
`links`, `monitors` (others watch it), `monitoring` (it watches others); `pc` and `rbl` say where
its two goroutines are. The steps are those of the code:

* a **call** (`Link`, `Send`, …) puts letters into the caller's `out`; each of them takes two
  steps, `Check` (read the target's status) and `Deposit` (enqueue), because that is where `send`
  may be interrupted; `run` sends the same way;
* **run** takes one signal from its inbox and does all of the handler (`loop`);
* **exit** sets the status, drains the inbox (`drain`) and handles what it found (`absorb`), tells
  links and monitors (`notify`), closes and waits for the Runnable (`await`), and stops; meanwhile
  others may send at every point;
* the **pump** stands between inbox and `run`. Whether it holds a signal when `exit` drains is a
  choice in `Drain`: everything is handled, or the first signal is in the hand and lost;
* the **Runnable** calls, panics or returns; it can return once its inbox is closed;
* **spawning** boots a process (`boot`, `start`): parent's link or monitor first, then the
  Runnable.

`p.monitors` and `p.monitoring` are sets, since their order is that in which `exit` tells them, and
nothing tells these orders apart; while `exit` is in its loops, `links`, `monitors` and `monitoring`
stand for what it has still to visit, and `Notify` takes any of them, as ranging over a map does.
Messages are abstracted to their sender. A process that links, monitors or signals itself is left
out, and so are signals to the root process. The status tests inside the handlers
(`handleLinkSignal` …) never fail, since only `run` calls them and it changes the status itself;
they are not modelled. What the properties need of the past (signals that reached nobody,
demonitored Refs, unlinked pairs) is in the history variables `monitor` and `past`.

### Supervisor

Everything a message handler does between two waits is one step. The supervisor waits in one
place only, `<-listen`, for the childKiller. Meanwhile children die by themselves (`ChildDies`),
obey (`ChildObeys`), and ExitMsgs arrive. `startChildren` takes one step per child, so that
children may die between two of them. Flags of a child spec (`terminated`, `ignored`) and its PID
are changed where the code does, and nowhere else; this matters, since a restart leaves them as
they were (section 4). Processes are numbered by start, so a PID that is out of date stays
distinguishable. `misled` is a history variable, true after a request has acted on the flags of a
running child; the properties that the flag bug of section 4 breaks are stated for behaviours
where that has not happened, so that they still say what else could be wrong.

What the callback's `Init` returns is a choice among `Inits`: flags, child specs (an ID may be given
twice, or be blank, and `CheckDups` then ends the supervisor), or Ignore. `WhichChildren` and
`CountChildren` are operators: what they would report in each state.

Abstractions: the childKiller's own timers are the fairness of a child that was told to stop
(it exits in the end, by itself or by Kill); its DownMsg arrives; a child's `Start` returns at
once; refused requests change nothing. The clock ticks only between messages.

### GenServer

The server's Runnable is `pc`, its signal loop `run`; the callbacks are the user's, so how each of
them ends is a choice: return, continue, error, panic. `nets` counts the deferred recovers above a
callback, because a panic of `Terminate` itself meets the next one, which calls `Terminate` again.
A `Call` or `Stop` is its caller's place (`result`), its helper (`helper`, `box`) and what the
helper offers on the unbuffered channel (`offer`); `Meet` is that channel. The two timers of a
call are independent choices: whichever fires first wins, and the other side may be left.

What is taken from `Process`: signals of one process to another arrive in order, DownMsgs come
from `exit` before the Runnable's inbox is closed, a killed server's Runnable goes on until it
reads its inbox and may then still get the message its pump holds, and a monitor signal that meets
an exiting server may be lost (`HelperMonitors`). What is left out: the user's state, name and
`Init` of the server (they are in `GenStart`), a destination that does not resolve, a call to
oneself, which is refused, and two replies to one call, which the documentation forbids.

### GenStart

`caller` is the place of the caller's goroutine in `doStart`, `starter` that of the genStarter,
`srv` that of the server's Runnable, from `Register` over `Init` to its `initAck`; `proc` is the
server's process. `Ack` is the meeting at the unbuffered `initAck`: it needs the caller to be
waiting. A caller that traps exits gets the server's PID from the genStarter and waits, after a
failure, for the close of `sig`. Both timers are independent choices. The caller's process may
crash at any moment; its goroutine goes on. The name is free, the server's, or another's, who takes
it whenever it can. The exit of a process is the three things others see of it: name, signals, end.

### Application

`RunnableStep` is what the gensrv process does: Init (`AppStart`, `AppTraps`), the handlers, and
`handleTerminate` in three steps, since it waits for the supervisor. `SupSignals` is the link's
signal, an ExitMsg or the end, by `trap`. `cancels` counts the calls of the CancelFunc. `NoHandler`
is `gensrv`'s dispatch: an error, and through it Terminate.

### Timer, RecurringTask, Task, Workers

`Timer` keeps processes as what these modules need of them: who is `alive`, and the messages in the
`mail` of each. A timer monitors (`TimerMonitors`), then leaves or fires, whichever the `select`
takes. `RecurringTask` is its own loop over that: a run ends with `SendAfterWith`. `Task` is a
Runnable that registers, traps, forks, and then takes one message. `Workers` lets the owner of all
three exit at any moment, for any reason. The exit signals of others, a Kill among them, may end
either task at any moment (`RecSignalled`, `TaskSignalled`): the process is gone, its Runnable finds
its inbox closed. A task that traps exits ignores the ExitMsg of anybody but its owner, which is
left out. Messages are the few kinds that matter; how long a timer takes is left out.

### Port

The Runnable takes one message at a time from `inbox`; the goroutine that reads stdout has a buffer
(`buf`), since the scanner reads ahead; `WaitReturns` closes the pipes with whatever is in them,
and only then sends `Exited`. The program is outside the code and is modelled from how the code uses
it: it writes lines, reads stdin unless it is `deaf`, ends by itself, at the end of stdin, or by the
exit signal if there is one. A write blocks while the pipe is full (one command), as `stdin.Write`
does.

### Receiver

The receiver's Runnable (`rpc`) checks one message at a time, with `tr.mx` locked through the Do
callback (`Locked`); the test's goroutine (`test`) polls. Where the code logs the receiver's name,
or asks for its PID, it takes `tr.mx`: these steps have the guard `Unlocked`. Wait lets the
waitTimeout pass first when an expectation has a maximum that it could still exceed (`MustWait`). A
setup is a sequence of expectations, built with the operators that stand for the methods (`Times`,
`MinTimes`, `After`, `DoLocks`); what is still expected is a set of positions, since the code keeps
its expectations in the order they were set and takes the first that matches (`IsMatch`). Stop
starts an exitwaiter for the dependency, kills the dependency, and sends TestExit.

## 3 The runs

Passing:

| Run | Question | Shows |
|---|---|---|
| `inbox` | can the queue lose, double, reorder or strand? | `IInv` (types; nobody sleeps while there is work or after Close: `NoStrandedWaiter`; every message is queued, in one hand, or taken: `Once`), `ConsumersServed` (`CloseEndsConsumers`, `NoMessageStuck`), `ImplementsMailbox` |
| `registry` | do map and processes stay together while processes exit? | `IInv`, from which `NoStaleEntry` (past `Unregister` no name leads to the process), `NamesAgree` and `OneNameEach` follow (section 7), `ExitsFinish` (no exit waits for ever for one of the two locks that Register takes one inside the other), `ImplementsNameTable` (a name given to a process that is already exiting would be no step of it) |
| `process` | do links and monitors hold under every crossing of three calls with returns and exits? | `IInv` (types; an exited process has nothing left to do; what every signal on its way means, and where each monitor stands: section 7), `DownsAreTrue` (a DownMsg is true, comes once, and not after Demonitor), `SignalsAccounted` (whoever monitors or links hears of the end), `LinksMutual`, `MessagesBeforeDown` |
| `process_spawn` | is a spawner told, whatever happens and when, with panics and kills? | `ExitCompletes` (an exit finishes unless it began with a panic: finding 2), `KillIsFatal`, `LinkSparesTrapping` (and nothing but a Kill that was asked for ends a process that traps exits and whose Runnable goes on), `SpawnerHears` (`SpawnMonitorAnswered`, `SpawnLinkPropagates`) |
| `supervisor` | is any process forgotten, doubled, or stopped and started in the wrong order? | `IInv` (`NothingLeftBehind`, `NoOrphan`, `OnePerId`, `Leashed`, `RestartTypesKept`, `ReportsAgree`), `LaterOnesAreDown`, `IntensityExact`, `Recovers` (`PermanentComesBack`, `ReturnsToLoop`) |
| `genserver` | is the answer of Call and Stop true, is Terminate called, does a helper stay behind? | `IInv`, from which `TerminateOnTheWayOut` and `StopMeansTerminated` follow, `HelpersEnd`, `ImplementsRemoteCall`: an answer that was given in the server's lifetime is not lost to its DownMsg |
| `gen_start` | what is left of a start that failed, timed out, or lost its caller? | `IInv` with `FailedStartIsOver` (the name is free and no signal comes late), `StartReturns`, `NoOrphan`, `ExitCompletes` |
| `application` | is the context cancelled, once, whatever ends the application? | `AppIInv` with `StopIsSynchronous`, `IntensityCancels` |
| `workers` | do runs, functions and timers survive, or end with, what they belong to? | `WorkersIInv` with `OneRunAhead` and `StopEndsRuns`, `FunNotAbandoned` (a function that runs on alone is one whose process an exit signal has ended: finding 9), `TaskRecurs`, `TaskObeys` |
| `port` | does everybody hear of the lines and of the end, in order? | `IInv` with `LinesInOrder`, `EndToldOnce` and `ReturnTells`, `OwnerTold` (once the program has ended the port ends, and has told the owner), `CloserTold`, `ProgramEndsWithOwner` |
| `receiver` | can a test be told the wrong thing, or hang? | `IInv` (counts, order and what may be removed), `WaitIsHonest` (what a Wait that returned says of the Do callbacks), `WaitEnds`, `StopEndsAll` |

A property that is a conjunction has its parts as definitions of their own, each with the promise of
the code it is about. `SignalsAccounted` is the safety form of "you always get a DownMsg or
ExitMsg": when the other process has told whom it knew and every signal has arrived, the answer is
there, or one of the known exceptions of section 4 (a lost signal, a monitor removed with another) holds.

Failing on purpose: `process_lost` (`NoSignalLost`), the shortest way to a link or monitor signal
that reaches nobody.

## 4 What the code does not do as documented

The first has a run of its own. The others show up in the modules as exceptions that a property
has to make; each is named there, and taking it out makes the property fail.

1. **A link or monitor signal can be lost** (`process_lost`, `NoSignalLost`). `send` finds the
   target running (`process.go:347`); the target drains and closes its inbox; `Enqueue` refuses,
   and nobody looks at its result. The same happens to a signal in the pump's hand
   (`inbox.go:116`). `process.go:352` promises the answer "even if it's already dead".
2. **A panic leaves a process EXITING.** The deferred recover sends one value on `done` and does
   not close it; `run` receives that value, and `exit` waits for another
   (`process.go:103,125,328`). In `Process`: `Panic`, `rbl = "vanished"`, which `ExitCompletes` excepts.
3. **Demonitor removes too much.** `v.ref != sig.ref && v.pid != sig.origin` (`process.go:233`)
   drops every monitor of that owner. In `Process`: `Kept`, and the exception `Sibling`.
4. **exit may unregister somebody else.** The name is read before the lock is taken
   (`process.go:264`). In `Registry`: `ExitReadsName`, `ExitUnregisters`. The same happens to the
   `unregisterName` of a server whose Init fails after its start timed out (`gen_server.go:166`).
5. **A restarted child keeps `terminated`** (`supervisor.go:544`). `TerminateChild` then forgets a
   running child, `RestartChild` starts a second one. In `Supervisor`: `Lies`, `misled`. The forgotten
   process is still linked (`Leashed`): nobody restarts it, but the supervisor's end is
   signalled to it. A
   `RestartChild` whose Start fails leaves a false flag too, while the child's ExitMsg is still
   unread; `ReportsAgree` is therefore stated for a supervisor nobody has asked for anything.
6. **An error of HandleContinue skips Terminate** (`gen_server.go:293`), against
   `gen_server.go:139-142`. In `GenServer`: `ContinueFails`, `dropped`.
7. **Start can block for ever** when the caller's process dies while it waits for a failed server:
   the genStarter leaves without closing `sig` (`gen_starter.go:58-60`). In `GenStart`: the
   `~parentUp` of `StartReturns`. And **a server can stay EXITING** at its `initAck` after a start
   timeout (`api.go:485`): the last case of `ExitCompletes`.
8. **An application may die without cancelling** if its root supervisor ends before
   `application.go:160`. In `Application`: `proc = "exiting"` in `IntensityCancels`.
9. **A task function may be left running**: by a Kill, such as a childKiller sends
   (`child_killer.go:84,133`), since it ends a process that traps exits at once
   (`process.go:177-181`) and its Runnable finds the inbox closed (`task.go:102`); and by any exit
   signal that comes before `task.go:93`. In `Task`: `CutOff`, `cut`. Cleanup is not called when the
   function ends either (`task.go:112-117`). And a linked owner that ends with Normal before
   `task.go:93` is never heard of (`process.go:192`): `told = "unheard"`, which `TaskObeys` excepts.
10. **A port** that gets a command after a close fails and tells nobody (`port.go:153`); the first of
    two closers is never told (`port.go:160`); lines may be dropped by `Wait` (`port.go:131`), and
    the owner's Message aliases the scanner's buffer (`port.go:99`). In `Port`: `failed`, `closer`,
    `WaitReturns`.
11. **Test receivers**: `After` waits for satisfied, not exhausted (`expect.go:84,151`); an
    unexpected message is not ignored (`expectation_set.go:64-66`); Stop's own kill of a dependency
    fails a test that has no expectation for its ExitMsg (`test_receiver.go:713`); a Do that takes
    `tr.mx` never returns (`test_receiver.go:306`). In `Receiver`: `Satisfied`, `Check`, `DoIsStuck`.
12. Seen in the source: `Call` to a dead PID returns an Exception, not `NoProc`
    (`gen_caller.go:58`); `Exit(self, pid, exitreason.Normal)` is not ignored (`process.go:192`);
    the shutdown timeout that is documented in milliseconds is in seconds (`child_killer.go:132`);
   `StartChild` of a spec with a blank ID starts it, keeps it, and returns an error, and so does
   every `StartChild` after it (`supervisor.go:735-742`, `supervisor_state.go:93,105`).

## 5 Fairness

* Goroutines that can run do run: weak fairness of each process' `run`, `exit` and Runnable
  steps, of the pump and of the consumers. The Go scheduler is preemptive.
* `Registry`: strong fairness for a lock an exiting process waits for, as Go's `sync.RWMutex`
  has a hand-over that does not starve a waiter; weak fairness of the other steps of a client that is
  inside.
* A Runnable returns once its inbox is closed. The code cannot force it; `exit` waits for it
  without a limit, and `erl.go` asks for it of every Runnable.
* `Inbox`: a reader of the channel is not assumed to go on reading.
* `Supervisor`: its own steps and those of the childKillers; a child that was told to stop does
  (the killer sends `Kill` after the timeout; with an infinite timeout this is up to the child).
  Nobody has to die, to call or to tick.
* `GenServer`: goroutines, and timers fire; the user's callbacks return or panic. Nobody has to
  answer a call that got `NoReply`.
* `GenStart`: caller, genStarter and server go on, and their timers fire (weak fairness of each
  part); Init need never return, and nobody has to crash.
* `Application`: its Runnable, its process and the link's signal; a supervisor that was told to stop
  stops. The supervisor need not end by itself, and the 60 seconds of Stop may be over at once.
* `Workers`: every timer, the task's and the recurring task's own steps. A TaskFun of the recurring
  task returns; the function of a task need not.
* `Port`: the port's goroutines; a program that is not deaf reads its stdin and ends at its end; a
  program that gets the exit signal ends. A program need not end by itself.
* `Receiver`: the receiver's Runnable and the test's goroutine; a dependency that was killed ends.

Clients never have to call anything.

## 6 Bounds

| Run | Bound | Why it is enough |
|---|---|---|
| `inbox` | 2 iterators, the pump, 1 caller of Pop, `MaxMsgs` 4 | three waiters and one message: some are woken for nothing; a fourth message follows Close or Drain |
| `registry` | 2 clients, 2 processes, 2 names | two clients for the same name and for the same process, while either process exits |
| `process` | 2 processes, `MaxCalls` 3, `MaxRefs` 2 | set up, undo and set up again; two monitors between one pair; messages before an end. Panics would triple the states; they are in `process_spawn` and in the proof of `IInv` |
| `process_spawn` | 1 + 1 process, `MaxCalls` 2, `MaxRefs` 1 | spawn, then exit, panic or demonitor; with liveness |
| `supervisor` | 2 children, `Inits`: the three strategies with `Intensity` 1 and `Period` 1, Ignore, a duplicate ID, a blank one; `MaxTime` 1, `MaxEvents` 4 | two restarts inside and outside of the window; `MaxEvents` limits deaths, failed and ignoring starts and requests together, so four of one kind or any mix |
| `genserver` | 1 Call, 1 Stop (with reason Normal or Kill, and no timeout), `MaxCasts` 1 (a cast, or the parent's end) | a call sees the other clients only in that the server is busy or ends, which the Stop, the cast and the parent already do in every order |
| `gen_start` | one start, in all 12 ways of `ModesOfStart`, and Init of every outcome | two starts share nothing but the name, which another may take at any moment |
| `application` | 2 callers of App.Stop, one stray message at a time | the second finds the flag set and the process on its way out |
| `workers` | 1 owner, 1 task, 1 recurring task, 2 timers | the recurring task has at most one timer, the owner the other |
| `port` | 1 other closer, `MaxLines` 2, `MaxCasts` 2 | a line read, a line in the pipe; a command in the pipe, one that blocks; two closers |
| `receiver` | 2 expectations in every order and with every kind of count, `MaxMsgs` 3, 1 dependency | satisfied, exhausted and one message too many, before and after the other expectation |

The largest are `supervisor` with 1 and `process` with 0.9 million distinct states.

The bounds are guards of the actions they limit, and stop the environment, never the program.
`CHECK_DEADLOCK FALSE`: all processes may have ended, and calls are bounded.

## 7 What is proved

With TLAPS, for any number of consumers, messages, clients, names, processes, children, calls, stops
and timers, for every way to start a server, and for every set of expectations. Every invariant
that a passing run checks on a small instance is a theorem of the specification of that run.

**`InboxProofs`**

* `Invariance`: `Spec => []IInv`. `NoStrandedWaiter` alone is not inductive: a consumer in
  `hold` must have something in its hand (`HandsFull`), or the step that lets go of it would not
  preserve the types. From it
* `NoLostWakeUp`: no consumer sleeps while the queue has an item, or after Close.
* `InboxImplementsMailbox`: each step is a step of `Mailbox` or changes none of its variables. The
  wait set and the hands are invisible; the step that takes is the abstract step.
* `EveryMessageOnce`: a message that was accepted has one place (`ExactlyOnePlace`). It is what a
  caller cares about in `Once`, the part of `IInv` that says so of every message number, and of those
  that were not used yet.

**`RegistryProofs`**

* `Invariance`: `IInv` says how map and processes may differ while somebody is inside. Its parts:
  `LockOK` (one client inside), `EntryIsNamed` and `NamedIsEntered` (what a name in the map says
  of its process, and back, except for the one being registered or unregistered), `RegisterOK`,
  `UnsetOK` and `ExitOK` (what the local variables of `Register`, `Unregister` and `exit` know).
  The property a caller cares about, `NoStaleEntry`, needs all of them: an entry appears under a
  lock that `exit` does not hold, and only the status test inside `tryRegisterName` excludes it,
  with the status lock kept until the name is set: a process whose status is being held is `alive`
  (`RegisterOK`).
* `NoStaleEntries`, `NamesAlwaysAgree`, `OneNamePerProcess`.
* `RegistryImplementsNameTable`: the refinement.

**`GenServerProofs`**

* `Invariance`: `IInv` is the types and four parts. `RequestOnce`: a call's request is in the
  inbox, in `HandleCall`, owed, or answered, so that no call is answered twice. `BoxOK`: a DownMsg
  in a helper's inbox means that the server has begun to exit, and an answer it gave before is in
  front of it; this needs `RequestOnce` (an answer finds the helper waiting, or gone).
  `OfferOK`: what the helper makes of it. `EndOK`: how often Terminate was called. Every step is
  looked at once per part (`RequestOnceKept`, `BoxOKKept`, `OfferOKKept`, `EndOKKept`).
* `StopTruth`: from `OfferOK` the reason of a `nil` is the one the server ended with, from `EndOK`
  the server did not get there without Terminate.
* `Termination`: `TerminateOnTheWayOut`, from `EndOK`.
* `CallImplements`: the refinement. Meeting at the channel and giving up are `Returns`, sending a
  CallReply is `Answer` (once, by `RequestOnce`), the exit of the process is `End`.

**`StartProofs`**: what becomes of a server, of the runs, and of a function once they were started.

* `FailedStartsAreOver`: `Spec => []IInv` of `GenStart`, for every set of modes and of outcomes of
  Init. `IInv` has three more parts in `Strong`: `Order` (which of caller, genStarter and server can
  be where at the same time, and that an initAck is offered with an outcome), `Names` (a server that
  failed has lost its name before the initAck) and `Hearing` (a caller that traps exits is tied to
  the server only once it has succeeded). A failed start is over because of all three: `heard` could
  be set by a signal of a server that the caller is tied to, and only `Hearing` excludes that.
* `WorkersInductive`: `WorkersInd`, which is `WorkersIInv` and `FunNotAbandoned`, is inductive.
* `WorkersInvariant`: `WorkersSpec => []WorkersIInv`, for any number of timers. `OneRunAhead` counts,
  and a count is awkward to carry through a step that moves a run from one place to another.
  `RunsHold` says the same without counting: the next run is a doTask in the inbox, a timer, or the
  TaskFun that is going; each place holds one at most, and no two of them do. The count follows, from
  the cardinality of a set whose elements are all equal (`AtMostOne`, `RunsCount`). `PostsHold` is what
  `RunsHold` needs of the timers: those of the recurring task are never cancelled, and whatever else
  is set is the owner's.
* `StopEndsRuns` is not inductive either: `StopHolds` says what a process that is gone may still have
  in its inbox. Its runs after the end (`late`) and the messages left there come to one at most, and
  only an exit signal comes before the Runnable has returned.
* `NoFunAbandoned`: `FunNotAbandoned`, with `TaskHolds`: the message that the function ended is true
  when it is taken, and the process of a task ends before its Runnable only by an exit signal. So a
  function is abandoned in the two ways of finding 9 and in no other, whatever the order of Stop, the
  owner's end and the function's own.

**`StopProofs`**: what a Stop, or a Wait, that has returned may be believed.

* `CancelledOnce`: `AppSpec => []AppIInv` for any set of callers of Stop. `Strong` adds `Stages` (what
  the Runnable's position says of Start and of the root supervisor), `Cancels` (who has called the
  CancelFunc by then), `Endings` (why a process is not up) and `Told` (what an `App.Stop` was told).
  `StopIsSynchronous` follows from `Endings` and `Told`.
* `ReceiverIInv`: `Spec => []IInv` of `Receiver`, for every set of expectations, each of which may
  come after any others. `CountsHold`: the calls whose Do has returned are those that were made, less
  the one that is running, and none exceed the maximum or the messages that have arrived.
  `OrderHolds`: an expectation that was called has had all its prerequisites satisfied, and one that
  was removed was satisfied; this is what allows `IsSatisfied` of the set to look only at those that
  are left. `VerdictHolds`: a verdict is given by the step that leaves the polling loop.
* `ReceiverWaitIsHonest`: when Wait has returned, the Do of every call it counted has returned. The
  counts alone would not do, since they are raised before Do; it follows because Wait still takes
  `tr.mx` on its way out, which a running Do holds.

**`ProcessProofs`** (any number of processes, calls and Refs)

* `ProcessInductive`: `Spec => []Ind`. `Ind` has two halves. `Base` says what is true of every signal,
  wherever it is: `TypeOK`; `Control` (how status, `run`, the Runnable and the inbox go together);
  `Truthful` (a DOWN signal on its way is for the owner of its Ref, from a process that has ended,
  with its reason; what the lists hold was asked for). Each action is looked at once for it, and
  `Onward` (what no step takes back) carries it over to signals that were sent earlier.
* `Rest` rests on it. `Orderly`: once a Runnable has returned, its DOWN signal is in no inbox in
  front of one of its messages, since each goroutine sends its letters one after the other and
  `done` is read when they are gone. `LinksTied`: a process that is linked to another, or is about
  to be, is known to the other, or its link signal is on its way there, or the exit signal on its
  way back. `Monitored`, for each Ref: its monitor is in one of seven stages (with the process that
  is being spawned, on its way, in the inbox, with the target, and back).
* The proof of `Monitored` follows a Ref from stage to stage. `Single`: a stage that is new follows
  one that is over, so there are never two, and no DOWN signal comes twice. `Answerable`: a stage
  that is over is followed by the next one, or by one of the exceptions a property makes.
  `Ordered`: both halves of a Monitor go out in front of the Demonitor. `Expected`: the owner knows
  the Ref when the DOWN signal comes, or `handleDownSignal` would drop it. `Hushed`: after a
  Demonitor that was in time it does not. Refs that a step makes are looked at separately
  (`CallMonitorHolds`, `CallSpawnMonitorHolds`).
* `ProcessDownsAreTrue`, `ProcessSignalsAccounted`, `ProcessLinksMutual`,
  `ProcessMessagesBeforeDown`, `ProcessIInv`: what the run checks, from `Ind`. `ProcessOnward` is an
  action property.
* `ProcessLinkSparesTrapping`: the action property `LinkSparesTrapping`, from `SoundHistory`: a Kill
  that is on its way without a link was asked for (`past.killed`), so that `exit`'s own signals to
  links, whatever their reason, are never taken for one.

**`SupervisorProofs`** (any children, flags and mixture of requests, deaths and failing Starts)

* `Inductive`: `Spec => []Ind`, with `Ind == Base /\ Trim /\ IntensityExact`. `Base` is the types, that
  ExitMsgs are true (`Heard`), `RestartTypesKept`, and `Core`: what each of the four lists the
  supervisor works on holds while it stops or starts a group (`Lists`, `Control`, `Placed`), and that
  each running process is in the part that has still to be visited (`Account`). One lemma per action.
* `SupervisorTypeOK`, `SupervisorIInv`: no process is forgotten, doubled or left behind, and the
  reports are true. `Leashed`, the one of its parts that holds after a request was misled too, is
  proved by itself, action by action (`LeashedStep`). `SupervisorLaterOnesAreDown`: from `Placed`
  and `Account`.
* `SupervisorIntensityExact`: `restarts` is the end of the history (`Trim`), and what `addRestart` cut
  off is too old to count in any window that is still open.

**`PortProofs`** (any closers, lines and commands)

* `PortIInv`: `Spec => []IInv`. What the owner got, what the scanner holds and what is in the pipe is
  one increasing sequence, not beyond what the program has `Written`; `Wait`, and an owner that has
  ended, take from its ends only. `Stages` says that Exited comes from `Wait` and that nobody has
  been told before the Runnable returns, so that the end is told once.
* Its part `ReturnTells`, that a Runnable which returns without an error of a command has told whom
  it should, is the safety half of the liveness properties `OwnerTold` and `CloserTold`.

Assumptions: only the named ones on the constants (`GoroutineAssumption`, `BoundAssumption`,
`Registry`'s, `GenServerAssumption`, `GenStartAssumption`, `ProcessAssumption`,
`SupervisorAssumption`, `PortAssumption`, `ApplicationAssumption`, `WorkersAssumption`,
`ReceiverAssumption`), which TLC evaluates in the runs. The last one leaves out an expectation whose
minimum is above its maximum: it cannot be satisfied, and no count says anything about it.

Model-checked only: the liveness properties (`ConsumersServed`, `ExitsFinish`, `ExitCompletes`,
`KillIsFatal`, `SpawnerHears`, `OwnerTold`, `Recovers`, `HelpersEnd`, `StartReturns`, `TaskRecurs`,
`StopEndsAll` and the like: ENABLED and fairness are outside what TLAPS can be asked here), which
are all that `process_spawn` checks but for `LinkSparesTrapping`; the violation in `process_lost`,
which is a behaviour and not a theorem; and whatever would need induction over data.

## 8 What is not modelled

* Logging, path and time helpers, the root process (it logs), exit reasons beyond the classes that
  the modules tell apart, code generators and examples.
* The older `erl/erltest`, which `erl/x/erltest` replaces; matchers of expectations, but for the type.
* `gensrv`: its options fill tables before the start; the callbacks that only dispatch are those of
  `GenServer`.
* `Port`: stderr (like stdout), a program that does not start, a port that is itself killed, split
  functions. What is in a line is left out, and with it that lines share a buffer.
* `Supervisor`: `StartChild` with a blank ID (section 4, 12); what a childKiller does after its
  report; that Go slices share the user's array of ChildSpecs.
* Everywhere: how long anything takes (a timeout may come at any moment), signals of a process to
  itself, the wording of errors.

A race that is known and excluded from a property: `Demonitor` of a Ref made by `SpawnMonitor`
before the child has booted finds no such monitor yet, and the DownMsg still comes
(`erl.go:239`); `DemonitorSilences` leaves those Refs out.

## 9 Plan

Done: all modules of section 2, and the proofs of section 7. Next, in this order:

1. `ExitCompletes` as far as safety goes: the steps that make it true, as action properties.
2. `ChildKiller` in detail, composed with monitors that may be lost: when does the supervisor
   block?
3. Slices: the aliasing of `ChildSpecs` and of a Port's lines.

## 10 How to run

```
tlc -workers 2 -config MCInbox.cfg MCInbox
tlapm InboxProofs.tla
```

and likewise for the other `MC*` modules with the configurations named in `PROJECT.json`.
Measured with two workers: supervisor 130 s, workers 100 s, port 80 s, process 70 s, receiver 60 s,
genserver 45 s, process_spawn 25 s, the others a few seconds each. `ProcessProofs` takes ten minutes
from nothing, `SupervisorProofs` five, each other proof module less than a minute.

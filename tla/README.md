# A specification of supavisor

TLA+ modules for [supavisor](../src/README.md), a process supervisor: a daemon
that starts the configured programs in the order of their dependencies, restarts
them by their policy, probes their health, captures and rotates their output,
answers `sctl` over a socket, and stops everything when it is told to end.

The modules are translated from the Go source under `src/`. TLC checks them on
small instances, and TLAPS proves the theorems of the `*Proofs` modules for every
value of the constants. `PROJECT.json` maps each definition to its lines.

To check a run: `tlc -config <Run>.cfg <Module>.tla`; the module of each run is
named below. To check the proofs: `tlapm ReaperProofs.tla`, and likewise
`ProcessProofs`, `SupervisorProofs`, `ReloadProofs`, `DaemonProofs`, `IoProofs`,
`ConfigProofs` and `GraphProofs`.

## 1. Inventory

| Component | Source | State | Operations | Model |
|---|---|---|---|---|
| Child reaper | `internal/process/reaper.go` | `waiters` by PID, the `forking` lock | `spawn`, `reapAll`, `signalGroupIfUnreaped` | `Reaper`; what it promises: `ChildExits` |
| Process | `internal/process/process.go`, `state.go` | published state, restart count, `completed`, `stoppedExternally`, per-run context, channels, log streams | `Start`, `Stop`, `monitor`, `maybeRestart`, `waitForStartSuccess` | `Process`; what it promises: `ProcessLife` |
| Health checks | `internal/process/health.go` | health, `healthCancel`, `healthDone`, failure count | `startHealthChecks`, `stopHealthChecks`, `probeLoop` | `Process` (life cycle; the counting is not modelled) |
| Reconciler and control | `internal/server/reconcile.go`, `server.go` | `desired`, `inflight`, `blockedReason` | `reconcile`, `runAction`, `StartProcess`, `StopProcess`, `RestartProcess`, `awaitState`, `Stop`, `stopAllProcesses` | `Supervisor` |
| Reload | `internal/server/reload.go` | the program set, `config`, `dependencyGraph` | `Reload`, `diffPrograms`, `stopForReload`, `applyPrograms` | `Reload` |
| State file | `internal/server/state.go`, `identity_*.go` | the file, the boot id, start tokens | `saveState`, `recordStateChanges`, `reapOrphans` | `Daemon` |
| PID lock | `internal/server/pidlock.go` | the file and its flock | `acquirePIDLock`, `Release` | `Daemon` |
| IPC server | `internal/server/ipc.go` | slots, connections, the listener | accept loop, `handleConnection`, `Stop`, requests | `IpcServer`; requests: `Supervisor`, `Reload` |
| Configuration | `internal/config` | none after parsing | `ParseConfig`, `Validate` | `Validate`: `ConfigCheck` |
| Dependency graph | `internal/dependency/graph.go` | nodes with both directions of each edge | `AddNode`, `TopologicalSort`, `Tiers` | `DependencyGraph` |
| Log rotation | `internal/logrotate/writer.go` | the open file, its size, the backups on disk | `NewWriter`, `Write`, `rotate`, `Close` | `LogWriter` |
| Commands | `cmd/supavisor`, `cmd/sctl` | none | flags, one request | not modelled |

How they interact:

- The **reconciler** is one goroutine. It reads what is wanted (`desired`) and what
  is (`Process.GetState`), and starts an *action* goroutine that calls `Start` or
  `Stop`; `inflight` keeps a second action for the same program away. Every state
  or health change calls back into the server, which asks for another pass.
- **IPC goroutines**, one for each connection, write `desired` and then poll for
  the state they were asked for. `StartProcess` also calls `Stop` itself, to bring
  a program that exited back to `STOPPED`; this one is outside `inflight`.
- Each **run** of a program has a *monitor*, which gets the exit status from the
  reaper, tears the run down, publishes how it ended and may call `Start` for the
  next run; a *start waiter*, which promotes `STARTING` to `RUNNING`; and a *probe
  loop*. All of them and the callers share the `Process` under a mutex that they
  release between steps.
- The **reaper** is the only one to call `wait4`. Starts hold a read lock across
  fork and registration, and it holds the write lock to collect.
- **Shutdown** ends the reconciler, waits for its actions, and stops the programs
  by the tiers of the **dependency graph**, the dependents first.
- A **log writer** belongs to one drain goroutine of one run.
- A **reload** runs on the signal loop's goroutine or on an IPC one. It plans under
  `reloadMutex`, has the reconciler stop what it will replace by writing `desired`,
  waits for that, and swaps the program set; whoever holds a pointer from before
  holds the old `Process`.
- The **IPC server** has an accept loop, which takes a slot for each connection,
  and ends after the connections it has accepted.
- **Daemons** over one directory share the PID file, which is locked, and the
  state file, which each writes as its programs change state and in which its
  successor finds the children of one that was killed.

What is hard here, and what makes each component correct:

- *Reaper.* PIDs are recycled the moment a zombie is collected, SIGCHLD coalesces,
  orphans of others are children too. A status must reach exactly the start whose
  child it was, whatever the order, and none may be lost.
- *Process.* The state is one word written by five kinds of goroutine between
  lock sections. There must not be two children, a stopped program must have none,
  a channel must be closed once, restarts must stay bounded, and every Stop must
  return.
- *Supervisor.* Everything it decides is decided on values read earlier.
  Dependencies must come first, dependents must go first, nothing may start behind
  a shutdown, and what is wanted must in the end be started.
- *Graph and configuration.* What is accepted must be startable, and only what is
  circular may be called so.
- *Reload.* Programs change identity under goroutines that hold pointers to them.
  The set of programs must stay of one piece, what is replaced must have no child,
  what an operator asked for must survive, and the new program must be started.
- *State file and PID lock.* A daemon can be killed between any two steps, and a PID
  or a start time can belong to somebody else by the time it is looked at. No
  recorded child may be forgotten, and no other process taken for one.
- *IPC.* A burst of clients must queue, a shutdown must wait for the requests under
  way and for nothing else, and the `WaitGroup` must not be misused in between.
- *Log rotation.* Every file operation can fail, and the daemon can be killed
  between any two: nothing but the oldest lines may be lost.

The list of hazards with their lines is under `hazards` in `PROJECT.json`.

## 2. The modules

### `Reaper`

Several starts, several PIDs, the reaper goroutine and the kernel. `holder` says
whose a PID is: free, a start's child, an orphan's, or a stranger's process.
`spawn` is `ForkingRLock`, `Fork` or `ForkFails`, and `Register`, with the read
lock held between; `reapAll` is `ForkingLock`, then `Wait4` and `Dispatch` in
turn, then `NoneExited`. `Wait4` frees the PID at once, before `waiters` is looked
at, and the kernel may hand it out again between any two steps of the daemon,
though not to a start, which the lock keeps out. An `execProbe` that times out
signals its group (`SignalGroupIfUnreaped`).

`WaitersAfter` and `Registered` are what the two critical sections under `r.mu`
do to the map.

### `ChildExits`

What the reaper promises the rest of the daemon: a start that succeeds has a child,
and its exit is reported to that start, once, after it happened. There are no PIDs
in it, no registrations and no locks. `Reaper` implements it: `Life` maps a start
to what has become of its child, and what the start has received is the report.
`Promise == INSTANCE ChildExits WITH ...` is in `Reaper`; run `ReaperStatus` checks
`KeepsPromise`, which is `Promise!FairSpec`, and `ReaperProofs` proves
`Promise!Spec` for any starts and PIDs. `ChildExits` is as much of the reaper as
`Process` has: a run's child is alive, ends, and its monitor hears of it.

### `Process`

One program; a *run* is one pass through `Start`, and its number stands for the
context, the channels, the streams and the monitor of that run. A step is one
section under `Process.mu`, one blocking wait, or one channel operation. Any of
the reconciler's goroutine, the shutdown's and the clients' may be inside `Stop`
while the reconciler's or a monitor is inside `Start`. The local variables a
goroutine carries across an unlock (`state`, `cmd`, `cancel` of `Stop`) are in
`loc`, so that they are stale where they are in the code.

The number of runs is bounded by `MaxRuns`. A monitor sets out to restart only while
a run is left for it; if the reconciler takes that run first, the monitor's `Start`
is refused (`EnterRefused`), or goes no further.
`CanWedge` lets a child survive SIGKILL. How long anything lasts is not modelled,
only which of the racing events comes first; a timer may always fire.

Some of what one would want of this component is not true while a `Stop` overlaps
a start (see the disagreements). `Calm` says that this has not happened: the
auxiliary `raced` records it, and the properties that need it say so. They are proved
for every instance (section 4). Run `ProcessCalm` goes as far as the first such overlap
(its constraint `CalmOrMeeting`), and beyond it to where a monitor that has passed its
last check meets another start, so that the refusal of the second is reached. Past
that, the type invariant, `StopRequestedOpen` and `RestartsBounded` are known from
their proofs, and `StopReturns` and `ExitIsSettled` from `ProcessLive`, which has no
such limit.

### `ProcessLife`

What the rest of the daemon sees of a program: the state of `GetState`, whether a
child is alive, and `HasCompleted`. There are no goroutines in it, no runs and no
locks. A program is started when it rests and has no child, after the latch of the
last run was reset; it is forked once; and the states that say a run is over
(`STOPPED`, `EXITED`, `BACKOFF`, `FATAL`) come when there is no child. Four of its actions are
wider than one would draw them, because the code takes them: `Stop` publishes
`STOPPING` by a state that it read earlier, so it may come after the exit was settled
(`Stopping`), `FATAL` may come over it (`GivesUp`), and a start may find it (`Resting`); and a
start check of an earlier run may promote before the fork (`ComesUp`).
`Life == INSTANCE ProcessLife WITH ...` is in `Process`. `KeepsLife` says that up to the
first `Stop` that overlaps a start each step is one of `ProcessLife` or is not seen;
run `ProcessCalm` checks it, and `ProcessProofs` proves it.

### `Supervisor`, `MCSupervisor`

All programs at once, each as its `Process` is seen from outside: the states it
publishes, and what a call of `Start` or `Stop` does to them. `BACKOFF`, which
lasts an instant (see the disagreements), is not distinguished. Where two calls can
overlap on a program, `StopReturns` leaves open what the other one left. Of what
`ProcessLife` allows, a `STOPPING` that is published after the exit was settled, and what
comes of it, is left out here and in `Reload`: where a program is stuck in it
(`ProcessStuck`), their liveness properties do not hold.

The reconcile loop is a step for each lock section: `Look` (what is wanted, under
`processMutex`), `Judge` (the state), `CheckDependency` and `CheckHealth` for each
dependency, `NoteBlocked` or `NoteReady`, `RunAction`. Because a tick always may
begin another pass, a lost wakeup costs no more than a second, and the wakeup
channel is not modelled. IPC goroutines (`client`) go through `StartProcess`,
`StopProcess` and `RestartProcess` in the same grain. `Hopeless` is the
transitive walk of `blockedByDependency`, read in one step: it only reads, and the
disagreement about it (`SupervisorBlocked`) does not depend on the states changing under it.

The auxiliary variables are `reached` (the conditions that ever held), `stopped`
(what a client was told is stopped) and `writtenOff` (what a client was told
cannot start, forgotten when the next request comes).

### `Reload`, `MCReload`

`Reload` against everything that shares the program set with it. A `Process` is a
name and a generation; `processes`, `desired` and `config` are the server's maps,
`st` and `def` belong to the `Process`, in the map or not. A reload asks for
`reloadMutex` (`Ask`), reads the file and compares it (`Plan`, or `Refused`), takes its
`Snapshot` of `desired`, asks for the stops (`StopNext`), waits for each (`Awaited`, or
`GivesUp` at its deadline), and swaps the program set in one lock section (`Apply`).
Next to it run the reconcile loop, which holds a pointer from `Look` to the end of
its action, the actions (`worker`), an operator's stop, a client's start and the
shutdown.

Auxiliary: `told`, whether the last request for a program was a stop and whether it
came before or after the snapshot of a reload, and `hasty`, that a stop made for a
reload could not be relied on: a wait gave up, a start had been decided already, or
an operator asked for one meanwhile. The reload goes on in those cases, after a warning
at most, so `DroppedHasNoChild` assumes that none has occurred.

### `Daemon`, `MCDaemon`

What outlives a daemon. Daemons are started beside each other over one directory,
killed between any two steps (`Crash`) and rebooted (`Reboot`); the kernel gives
PIDs and inodes, and takes flocks and PIDs back. `pc` goes through `Server.Start` (open,
lock, read, identify, terminate, wait, kill, clear) and through the end of
`Server.Stop` (clear the state file, check the path, unlink, close). While it serves,
its one program starts, ends and restarts, and `saveState`, on its own goroutine, reads
the PID and the start time in two steps before it writes (`save`).

A start time is a number that a later boot repeats, which is why the file has the
boot id too. The auxiliary `who` of a record is the process that was meant.
`overlap` and `late` record two things the code does not rule out: that a lock was
taken on a file no longer at the path, and that a save ended after `Stop` had cleared
the file; `Alone` is that neither has happened.

### `IpcServer`

The accept loop with its slots, the connections' goroutines, the `WaitGroup` as a
counter, and `Stop`. A client connects, asks, waits and leaves, or stays silent until
its deadline. `Accept` may fail with the listener open, which the loop answers with a
pause. What a request does is the other modules'.

### `DependencyGraph`

`AddNode` in any order, for a name again if the caller does so, then the sort and
the tiers, one iteration of a loop at a time. A loop over a Go map takes its
elements in any order.

### `ConfigCheck`, `MCConfigCheck`

`Validate` over every configuration of a set. The recursion of
`checkCircularDependency` is a stack of calls, so that what it leaves in
`recStack` when it returns early is there for the calls that follow.

### `LogWriter`

One log, its file and backups, on a disk that keeps what is there when the daemon is
killed (`Killed`). A file is the numbers of its lines and its size. The steps are
the file operations of `NewWriter`, `Write`, `rotate`, `shiftBackups` and `prune`, which
removes one file after the other (`Prune`, `Remove`, `PruneEnds`), and each may fail
(`MaxFaults`). The age from which backups go is any number of them (`Expired`), and
the backups setting may differ from one opening to the next. `torn` remembers that a
prune left something behind, because a removal failed, which the code ignores, or
because the daemon was killed: older lines can then outlive newer ones.

## 3. The runs

Runs that pass:

| Run | Module | Instance | States | What it shows |
|---|---|---|---|---|
| `ReaperStatus` | `Reaper` | 2 starts, 2 PIDs | 28 k | the reaper implements `ChildExits`, liveness included; a status goes to its owner, none is lost, each orphan is collected |
| `ProcessCalm` | `Process` | 2 runs, 1 restart, a client, health check; until a SIGKILL | 0.9 M | no double close; no health without a run; one child; stopped means none; completion is the last run's; what is seen of a program is `ProcessLife` |
| `ProcessLive` | `Process` | 1 run, health check, a child that may not die | 8 k | every Stop returns; every exit is settled |
| `SupervisorSafety` | `MCSupervisor` | 2 programs, `healthy`, 1 request | 0.5 M | one action a program; dependencies first; shutdown order; no start behind it |
| `SupervisorLive` | `MCSupervisor` | 2 programs, `completed`, 1 request | 0.1 M | the wanted is started, the unwanted stopped, a shutdown ends |
| `ReloadSwap` | `MCReload` | 1 name with 2 definitions, 2 reloads, 1 request, shutdown | 82 k | the program set is of one piece; a dropped Process has no child; a stop survives; what is wanted is started; a reload ends |
| `DaemonCrash` | `MCDaemon` | 2 daemons, 2 PIDs, 2 kills, 1 reboot, 2 processes a boot | 0.5 M | one daemon; orphans end first, are not forgotten, not confused; what runs is on file |
| `IpcBurst` | `IpcServer` | 3 clients, 1 slot | 67 k | a burst is served; Stop ends, cuts nothing off and meets no `Add` |
| `GraphLists` | `DependencyGraph` | 4 names, lists of 2, 4 additions | 0.5 M | edges agree; only cycles are refused; the tiers are tight |
| `ConfigVerdict` | `MCConfigCheck` | 3 programs, 1 missing name, lists of 2 | 0.5 M | what is accepted can start; only cycles are called circular |
| `LogRotation` | `LogWriter` | 5 lines, 3 backups, 2 failures, 3 openings | 0.5 M | only the oldest lines go; files are bounded |

The run that TLC finds violated, a disagreement between the code and its comment:

| Run | Property | What happens |
|---|---|---|
| `ReloadStop` | `OperatorsWordSurvives` | a stop that comes while a reload waits for programs to end is overwritten with the reload's snapshot (`reload.go:60-63`: "Whatever an operator asked for survives the reload") |

Each module with a specification to check has one type invariant. Those of `Reaper`, `Process`, `Supervisor`,
`Reload`, `Daemon`, `IpcServer`, `LogWriter`, `ConfigCheck` and `DependencyGraph` are
proved (section 4), and with them `NoStaleWaiter`, `RestartsBounded`,
`RunningHasNoReason`, `DoneStaysDone`, `SortFollowsDependencies`, `SizeIsTrue` and
`UnchangedIsUntouched`. Configurations beside the
runs check the rest: `ReloadTwo` (`MCReload`: the types, and two programs of which
one may stay as it is), `LogSize` (`LogWriter`: the types and `SizeIsTrue`) and
`ConfigEnds` (`MCConfigCheck`: `EndsWithVerdict`).

Five of the runs have a larger one beside them, which checks the same properties and
takes minutes: `ProcessWide` (with a `SIGKILL`, and a client during the shutdown, and with
`LiveRunIsLogged` and `ReleasedBeforeStart`; 3.7 M
states), `ProcessTwice` (two runs; 0.3 M), `SupervisorTwice` (two requests; 4.4 M),
`DaemonWide` (three files, two uses of each PID; 3.0 M) and `ReloadWide` (a program of
any definition at first; 0.5 M).

### Further disagreements

Each of these has a configuration beside the runs above, with which TLC finds a
counterexample.

| Configuration | Module | Property | What happens |
|---|---|---|---|
| `ProcessStuck` | `Process` | `StopEndsStopped` | `Stop` overwrites a settled `STOPPED` with `STOPPING`, for good (`README.md:402`: "`sctl stop` always ends in `STOPPED`") |
| `ProcessShutdown` | `Process` | `ShutdownLeavesNothing` | a restart that passed its last check starts a child over which the daemon exits (`server.go:198-199`: "nothing for the next daemon to reap") |
| `SupervisorStop` | `MCSupervisor` | `StopStays` | a start decided before a stop happens after the stop was answered (`reconcile.go:92-96`) |
| `DaemonLock` | `MCDaemon` | `LockKeepsOneDaemon` | a daemon locks the file that one that is ending has just unlinked, and a third makes a new one (`pidlock.go:15-16`) |
| `DaemonStrangers` | `MCDaemon` | `OnlyOursAreSignaled` | a save looks up the start time of a PID that has been reused, or the PID is reused between the check and the signal (`README.md:516-517`) |
| `ReloadTwice` | `MCReload` | `OneActionAtATime` | a program removed and added again loses its mark when the action of the removed one returns (`reconcile.go:126-127`) |
| `ReaperSignal` | `Reaper` | `SignalsOwnGroup` | the check under `r.mu` can be passed after `wait4` has freed the PID (`reaper.go:185-189`: it "cannot go stale") |
| `ProcessBackoff` | `Process` | `BackoffIsShown` | the wait shows `EXITED`; `BACKOFF` comes after it (`README.md:394`) |
| `ProcessPromote` | `Process` | `RunningStayedUp` | an old run's start check promotes a new run (`README.md:842`) |
| `SupervisorReason` | `MCSupervisor` | `UnwantedHasNoReason` | a reason is recorded after the stop that cleared it (`reconcile.go:241-242`) |
| `SupervisorBlocked` | `MCSupervisor` | `WrittenOffForGood` | a start is refused although its dependency is coming up (`reconcile.go:295-296`) |
| `GraphRepeats` | `DependencyGraph` | `RefusesOnlyCycles` | `depends_on: [a, a]` is refused as circular, after `Validate` accepted it |
| `ConfigMissing` | `MCConfigCheck` | `CircularIsCircular` | a missing name mentioned twice is reported as a circular dependency |
| `ConfigLogs` | `MCConfigCheck` | `LogsHaveOneOwner` | one file written in two ways passes as two (`README.md:952`) |
| `LogCloseFails` | `LogWriter` | `FailedRotationKeepsLogging` | a failing close in a rotation ends logging (`writer.go:80-81`) |

### Bounds

- *Reaper.* A wrong delivery needs a PID to be used twice, by two starts or by a
  start and a stranger or an orphan: two starts over two PIDs have both reuse and
  overlap. The safety properties are proved for any number of either.
- *Process.* Two runs are what a restart needs; a third adds no kind of overlap,
  since goroutines of a run only meet those of the next through the shared fields.
  `MaxRestarts` 1 reaches the limit. `MaxRuns` bounds only the exploration: where it
  is reached, no further start begins. `ProcessCalm` does not go past a `SIGKILL`
  (`NotKilled`), nor to a client's call during the shutdown (`NoClientInShutdown`):
  these make longer ways to the same settling of a run, and `ProcessWide` has
  them, as the theorems do. `ProcessLive` has the one run whose Stop and exit
  are waited for; `ProcessTwice` has the next one too.
- *Supervisor.* A dependency is a relation of two programs; the chain of three is
  needed only for the transitive walk. One request comes at any point of a pass, of an
  action or of the shutdown; with two (`SupervisorTwice`) a start and a stop follow each
  other, and the theorems hold for any number.
- *Reload.* One name that is there, redefined or gone has every case of the diff, and
  two generations of it can be alive at once; a second name adds an unchanged
  program, which `ReloadTwo` has (the theorems hold for any). Two reloads, from the signal
  loop and from a client, meet at the mutex; two workers let an old action and a
  new one overlap. The daemon is started on a file whose program is not started by
  itself (`FromRest`), so that an operator's start and a reload's can meet;
  `ReloadWide` starts on any.
- *Daemon.* Two daemons are a holder and its successor, or a holder and one that is
  refused; two inodes and a PID that is used twice are what a reuse of either takes,
  and two PIDs what two processes at once do (`TwoInABoot`). Two kills let the daemon that deals with the orphans be killed as well. Daemons and
  PIDs are symmetric, which safety and action properties allow. States past an
  `overlap` or a `late` save are not explored (the constraint `Alone`): what goes wrong
  there is what `DaemonLock` shows, and the theorems have no such limit.
- *IPC.* One slot and three clients: one served, one held by the loop, one queued.
- *Graph, configuration.* Four nodes hold every shape of a cycle with a tail, a
  diamond, and a chain of four tiers; two entries to a list.
- *Log.* Three backups, with lines over and under the maximum, let a chain have a
  hole, a failing rename in the middle, a prune of several files that is cut short, and
  a setting that shrinks.

### Fairness

- *Reaper.* The loop and the starts keep running; a fork returns (the comment of
  `spawn` accepts that a wedged one stalls everything); a killed process dies;
  `SF(Wait4(p))` because the kernel takes a daemon's zombies in order, so one is not
  passed over for ever. Nothing makes a child exit by itself.
- *Process.* Goroutines run and timers fire. A killed child dies, unless the run
  lets it be wedged, as `ProcessLive` does. Nobody is made to call `Start` or `Stop`.
- *Supervisor.* Goroutines run. `SF(LoopEnds)`: `select` picks among ready cases at
  random, so a closed `stopChan` is taken in the end. An action's Start or Stop
  returns, which is what `StopReturns` of `Process` shows. No program is made to
  come up or to exit, no client to ask, no daemon to end.
- *Reload.* Goroutines run and deadlines pass. A `sync.Mutex` starves nobody, so the
  signal loop gets `reloadMutex` in the end: `SF(Plan(Hup) \/ Refused(Hup))`. Nobody is
  made to reload, to ask or to shut down.
- *IPC.* Goroutines run, requests are answered (that is `StopReturns`, `ReloadEnds` and
  the deadlines of the waits), a silent client meets its deadline. `SF` of `Accept`
  and `TakeSlot`: accepting works in the end while somebody is queued, and `select`
  takes what stays ready. A client that asks for ever keeps its slot, so the two
  liveness properties assume that each falls silent (`TheyFallSilent`); `sctl` asks once.
- *ConfigCheck.* A function that is running runs on.

## 4. What is proved

The proofs assume no more of the constants than the modules' named assumptions, so
the bounds (`MaxRuns`, `MaxOps`, `MaxReloads`, ...) are arbitrary there, and so are the
programs, their dependencies, the PIDs and the clients. Few of the invariants are
inductive as they stand; what was added to each is what the code relies on without
saying so.

`ReaperProofs` (5): `ReaperTypeOK`, `ReaperStatusReachesOwner`, `ReaperNoStatusLost`,
`ReaperNoStaleWaiter`, `ReaperImplementsPromise`. That a status goes to the right start
depends on the entry in `waiters` being that of the PID's present holder, which
depends on nobody forking while a collected status is in hand. The inductive `IInv`
adds, to the types, that an entry in `waiters` is owed a status (`EntryIsOwed`: its
start has registered, and the child has its PID or is the one in hand), that every
start that is owed one has its entry (`OwedHasEntry`), and what the lock means: no
start between fork and registration while the reaper holds a status. On it rests
the refinement, `Spec => Promise!Spec`: each step of `Reaper` is, under `Life`, a step
of `ChildExits` or none. The liveness half of the promise is TLC's.

`ProcessProofs` (11): `ProcessTypeOK`; `ProcessStopRequestedOpen`, that no
`stopRequested` channel is closed twice by any interleaving of starts, stops and
restarts; `ProcessRestartsBounded`. `StopRequestedOpen` says that the channel the
Process offers is open. It stays so because a run's channel is offered once, when
the run is recorded, and taken by whoever closes it; the strengthening
`ChannelInv` adds `FreshChannels`, that the channel of a run which is not recorded
yet has not been closed.

The other six are what holds until a `Stop` overlaps a start: `ProcessOneLiveChild`,
`ProcessStoppedMeansNoChild`, `ProcessCompletedIsLatestRun`, `ProcessHealthHasOwner`,
`ProcessReleasedBeforeStart` and `ProcessLiveRunIsLogged`. They have one inductive invariant, `CalmInv`, which says
where every goroutine of every run can be:

1. `Places`: runs come one after the other, each goroutine is in its own code, and the
   contexts of the runs before the last are cancelled.
2. `Control`: what keeps two starts apart, for which the code has no lock. A start is
   alone, with every monitor at rest and no `Stop` on (`OneStart`); a monitor that is
   about to restart is the last run's, and the state says that it is (`Restarting`,
   `FailedRestart`, `Backing`); what the reconciler decided on, and what a `Stop` read
   before it waited, still holds when it is acted on (`Decided`, `Asked`); a monitor that
   tears a run down leaves a state from which nobody starts (`Settling`), and
   `STOPPED` is said only when all are at rest (`StoppedRests`).
3. `Ownership`: a live child is its monitor's, or its `Start`'s on the way there
   (`ChildOwner`), from which one child follows; `completed` is of the last run
   (`Completed`); a probe that may still publish can be cancelled, or is being waited
   for by whoever cancelled it (`HealthOwner`).

A step either is none of a part's business, which frame lemmas say once for each part
(`Drift`, `Moves`, `StartMoves`, `Apart`), or is one of the few that are, each with a
lemma of its own.

`LiveRunIsLogged` adds `Logged` to it: a child is spawned after its streams were put into
`p.streams`, and whoever closes what is found there comes when no child is alive. For
`Stop` that is because it waits for the monitor of the command that it read, which is
the live child's. A `Stop` that gives up on a child which survives `SIGKILL` closes
its streams all the same, so the theorem is about `~CanWedge`.

`ProcessKeepsLife` and `ProcessImplementsLife` are the step simulation of `ProcessLife`:
`Spec => KeepsLife`, and so `Spec /\ []Calm => Life!Spec`. Each step of a
goroutine is matched with a step of the life, or shown not to be seen (`Unseen`). What
`CalmInv` is needed for is that nothing is alive where the code only assumes so:
when a start is entered (`NoneAtEntry`) and until it forks (`NoneBeforeSpawn`), when a
monitor is past its wait (`NoneAfterExit`), and when a `Stop` found nothing to stop
(`NoneInStop`).

`SupervisorProofs` (6): `SupervisorTypeOK`, `SupervisorActionsDoNotOverlap`,
`SupervisorNothingStartsInShutdown`, `SupervisorShutdownOrder`,
`SupervisorDependenciesCameFirst`, `SupervisorRunningHasNoReason`. They build on each
other:

1. `Types`: the types, that indices stay in range, and that a request under way
   names a program.
2. `Quiet`: an action has its mark in `inflight`, and once the reconciler has ended
   there is neither an action nor a program it is looking at. With it
   `ActionsDoNotOverlap`.
3. `StateMoves`: which moves of a program's state any step can make, and `Recorded`,
   that what a dependent may wait for and holds now is in `reached`.
4. `Phases` and `Ordered`: what each phase of the shutdown has left behind, and that
   a tier is begun when those behind it are done, which stay `STOPPED`. With them
   `NothingStartsInShutdown` and `ShutdownOrder`.
5. `Checked`: the dependencies the pass has gone past were each where they had to be
   at some time (`Came`); `Needed` follows it through the action to the states. With
   it `DependenciesCameFirst`.
6. `Held` and `Reasons`: a program whose dependencies the pass looks into is
   `STOPPED`, and nobody but the pass gets it out of there; a reason is taken back
   before the start. With it `RunningHasNoReason`.

`ReloadProofs` (5): `ReloadTypeOK`, `ReloadProgramsAreInStep`, `ReloadStopSurvives`,
`ReloadUnchangedIsUntouched`, `ReloadDroppedHasNoChild`. `ReloadInv` adds that one reload holds the mutex
(`OneHolds`), that its plan is about the configuration there is (`PlanIsCurrent`), and
that its snapshot has every stop that came before it (`SnapshotHonoursStop`).
`DroppedHasNoChild` takes more, as it is about what the loop and its actions do with
pointers they read before: `DropInv` says that only a Process in the map is up or about
to be started (`OnlyCurrent`), that once a reload has asked for a stop nobody wants the
program and no start of it is still to come, so that `STOPPED`, once seen, stays
(`StopIsFinal`), and the same of all programs after `stopAllProcesses` (`Sweeping`).

`DaemonProofs` (6): `DaemonTypeOK`; `DaemonOneDaemon`, from `LockInv`: a file has one
holder, and what a daemon holds is at the path, as long as nobody has locked a file
that had left it; `DaemonIdentifiedIsRecorded`, from `RecordInv`: a record of
this boot has the start time of the process it was made for, be it in the file, in
a save or in the hands of `reapOrphans`. `DaemonOrphansEndFirst`,
`DaemonOrphansAreNotForgotten` and `DaemonRunningIsRecorded` hold together or not at
all, since a file that forgot an orphan, or took one for the daemon's own, would break
the others later. `KeptInv` says for each daemon that it overlooks no record of
a living orphan (`NothingOverlooked`), that it puts none on file as its own
(`NoneTakenOver`), and that a running program is on file or in the save that is under
way (`OnItsWay`); `ProgramOK` is what the daemon's program and its saver may be up
to in each phase. They are about the file too, so they need that nobody else writes
it: that is `LockInv`, and where `Alone` comes in. `NoFileAssumption`, that
the value for "no file" is not a file, is the one assumption that was added.

`IoProofs` (7) is about the server and about the log. `IpcTypeOK`, `IpcNothingIsCutOff`
and `IpcNoAddDuringWait` rest on `IpcInv`, which says that the slots taken are the connections that have one, and the one in the loop's
hand (`SlotsAreHeld`), that the counter of the `WaitGroup` is the goroutines there are
(`GroupCounts`), what the queue and the loop hold, and that `Stop` gets to the
counter after the loop has ended (`StopInOrder`).

`LogTypesHold`, `LogSizeIsTrue`, `LogKeepsTheTail` and `LogFilesBounded` hold for any
maximum size, any lengths of lines and any number of backups, failures and kills.
Neither of the last two is inductive: that a rename destroys nothing but the oldest
lines depends on what the steps before it left. `LogInv` adds that the name a file is
moved to is free, or is the last of the chain (`ChainHasRoom`); that when a rotation
begins nothing is past the count, and that what a prune still has to remove is at the
old end, so that one cut short leaves no gap in the middle of what is to stay
(`Removing`); that the log has the last line (`Ordered`); and where size and content
agree (`Counted`, `Bounded`). `Removing` and `ChainHasRoom` are what `torn` breaks,
so with `torn` the theorem says no more than that lines stay in order.

`ConfigProofs` (4): `ConfigTypeOK`, `ConfigDoneStaysDone`, `ConfigAcceptedCanAllStart`,
`ConfigCircularIsReal`, for any number of programs and any dependencies. `SearchInv`
says of the recursion that the names on `recStack` are those of the calls
(`StackIsCalls`), that each call was made for an entry of the one below it
(`CallsArePath`), that the entries a call has gone past are done (`PassedIsSettled`),
and that no programs that are done wait on each other (`DoneCanStart`). A name met
again is then on the path, and the calls from there on are the cycle.

`GraphProofs` (5): `GraphDependentsMirror`, for any sequence of `AddNode`, from
`MirrorInv`; `GraphTypeOK` and `GraphSortFollowsDependencies`, for any lists;
`GraphRefusesOnlyCycles` and `GraphTiersAreTight`, where no list names a program twice
(`~Duplicates`: they are false otherwise, see `GraphRepeats`). `SortInv` says with
`Counts` that an in-degree is what the node is still behind, and that no nodes that
are out wait on each other (`OutIsAcyclic`); when the queue runs dry, those that are
left are a set in which each waits on another. `TierInv` is the same for the tiers,
with a dependency in the tier before each node's own.

Only model-checked: liveness, which the proof system does not do (`ENABLED`), and the
instances of section 3 that have their own configuration (`EndsWithVerdict`).

## 5. What is not modelled

- *I/O and formats*: YAML, JSON over the socket, log wording, permissions, the
  socket's path, the command line of a child, credentials and limits. A start that
  depends on them works or fails.
- *Time*: only which event comes first. `healthyUptime` is a choice at the exit;
  `startsecs`, `stopwaitsecs`, the backoff and the poll intervals are timers that
  may fire at any point.
- *The process group*: leftovers of a group are killed with the exit
  (`killLingeringGroup`); what they could do to the pipe is the bounded drain.
- *The data race* of `closeChildEnds` and `stopLogging` over a stream's write end:
  both outcomes close it.
- *Health checks*: how failures are counted against `retries` and `start_period`, and
  the probes themselves. The goroutine and what it publishes are in `Process`.
- *Log*: a line that is written in part before the write fails, and a `Stat` of the
  reopened file that fails; files of other names in the directory.
- *State file*: a write of it that fails, two saves that meet in one `.tmp` file, a
  boot id that cannot be read, and the platforms other than Linux. A child that does
  not die on SIGKILL is in `Process` but not in `Daemon`.
- *Reload*: dependencies, which only delay a start and are `Supervisor`'s, and the
  graph that is rebuilt, which is `DependencyGraph`'s.
- *A daemon with no programs* in `Supervisor`, which assumes that there is one.
- *Commands*: `cmd/supavisor` and `cmd/sctl` are one call after another; `version` is
  constants; `probes` are experiments, of which `Reaper` models the program they are
  about.

## 6. The plan

Built in this order: `Reaper`, `Process`, `Supervisor`, `DependencyGraph`,
`ConfigCheck`, `LogWriter`, with the first proofs; `Daemon`, `Reload`, `IpcServer`;
`ChildExits` and the refinement; the proofs of `Supervisor`, `ConfigCheck` and the sorts;
those of `Process` where it is calm, of the state file, of what a reload drops, and of the
log; `ProcessLife` and its step simulation.
What is next:

1. The late `STOPPING` of `ProcessLife` in `Supervisor` and `Reload`, and then that what
   they let a program do includes every step of it, with `BACKOFF` read as `EXITED`.
2. `HealthCount`: failures, retries and the start period.
3. `Daemon` with a state file that cannot be written, and with children that stay.
4. Larger instances: two clients of one program, the chain of three programs under
   requests, two names in `ReloadSwap`.

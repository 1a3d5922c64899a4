------------------------------ MODULE Process -------------------------------
(***************************************************************************)
(* internal/process/process.go and health.go: one managed program, the     *)
(* Process object that stands for it, and every goroutine that touches it: *)
(* callers of Start and Stop, and per run a monitor, a start waiter and a  *)
(* probe loop.  A step is one section under Process.mu, one blocking wait, *)
(* or one channel operation; everything between two of them interleaves.   *)
(*                                                                         *)
(* A run is one pass through Start; its number names its context, its      *)
(* child, its channels and its monitor goroutine.                          *)
(***************************************************************************)
EXTENDS Naturals, FiniteSets

CONSTANTS Reconciler,   \* the goroutine runAction starts for this program
          Shutdown,     \* the goroutine stopAllProcesses starts for it
          Clients,      \* IPC goroutines inside StartProcess
          MaxRuns,      \* bound: passes through Start in a behaviour
          MaxRestarts,  \* config max_restarts
          Autorestart,  \* config autorestart
          HealthCheck,  \* whether the program has a health check
          CanWedge      \* whether a killed child may fail to die

Runs    == 1 .. MaxRuns
Callers == {Reconciler, Shutdown} \cup Clients
Threads == Callers \cup Runs

ASSUME ProcessAssumption ==
    /\ MaxRuns \in Nat /\ MaxRestarts \in Nat
    /\ Autorestart \in {"always", "unexpected", "never"}
    /\ HealthCheck \in BOOLEAN /\ CanWedge \in BOOLEAN
    /\ Callers \cap Nat = {}
    /\ Reconciler # Shutdown /\ Reconciler \notin Clients /\ Shutdown \notin Clients

VARIABLES
    proc,      \* the fields of Process; a run number stands for its cancel
               \* function, channels and log streams, 0 for nil
    child,     \* [Runs -> the child process and how it ended]
    killed,    \* runs whose group was sent SIGKILL
    closed,    \* which contexts and stopRequested channels are closed
    waiter,    \* [Runs -> waitForStartSuccess goroutine]
    probe,     \* [Runs -> probeLoop goroutine]
    pc,        \* [Threads -> where the goroutine is]
    loc,       \* [Threads -> its local variables]
    runs,      \* how many runs there have been
    phase,     \* the daemon: "up", "stopping", "exited"
    raced      \* auxiliary: a Stop has overlapped a start (see Calm)

vars == <<proc, child, killed, closed, waiter, probe, pc, loc, runs, phase, raced>>

States == {"STOPPED", "STARTING", "RUNNING", "BACKOFF", "STOPPING", "EXITED", "FATAL"}
IsStopped(s) == s \in {"STOPPED", "EXITED", "FATAL"}

Run0 == {0} \cup Runs
Proc == [state : States, health : {"NONE", "STARTING", "HEALTHY", "UNHEALTHY"},
         completed : BOOLEAN, stoppedExternally : BOOLEAN, restartCount : Nat,
         cancel : Run0, cmd : Run0, stopRequested : Run0, healthCancel : Run0,
         streams : SUBSET Runs]
Closed == [ctx : SUBSET Runs, health : SUBSET Runs, stop : SUBSET Runs]
Loc  == [state : States, cmd : Run0, cancel : Run0, health : Run0, asked : BOOLEAN]
NoLoc == [state |-> "STOPPED", cmd |-> 0, cancel |-> 0, health |-> 0, asked |-> FALSE]

StartSteps == {"starting", "logging", "spawning", "recording", "watching", "readying",
               "launching", "aborting", "failing"}
StopSteps  == {"taking", "draining", "deciding", "resting", "waiting", "killing",
               "finishing"}
ExitSteps  == {"taking", "draining", "unlogging", "noting", "settling", "stopped", "exited",
               "latching", "exiting", "policy", "fatal", "backoff", "check", "retry", "start"}

TypeOK ==
    /\ proc \in Proc
    /\ child \in [Runs -> {"none", "alive", "ok", "fail"}]
    /\ killed \subseteq Runs
    /\ closed \in Closed
    /\ waiter \in [Runs -> {"off", "waiting", "elapsed", "done"}]
    /\ probe \in [Runs -> {"off", "probing", "HEALTHY", "UNHEALTHY", "done"}]
    /\ pc \in [Threads -> {"idle", "start", "stop", "off", "await", "done"}
                          \cup StartSteps \cup StopSteps \cup ExitSteps]
    /\ loc \in [Threads -> Loc]
    /\ \A t \in Threads :
        /\ pc[t] \in StartSteps \cup {"waiting", "killing"} => loc[t].cmd # 0
        /\ pc[t] = "draining" => loc[t].health # 0
    /\ runs \in Run0
    /\ phase \in {"up", "stopping", "exited"}
    /\ raced \in BOOLEAN

Init ==
    /\ proc = [state |-> "STOPPED", health |-> "NONE", completed |-> FALSE,
               stoppedExternally |-> FALSE, restartCount |-> 0, cancel |-> 0, cmd |-> 0,
               stopRequested |-> 0, healthCancel |-> 0, streams |-> {}]
    /\ child = [r \in Runs |-> "none"]
    /\ killed = {}
    /\ closed = [ctx |-> {}, health |-> {}, stop |-> {}]
    /\ waiter = [r \in Runs |-> "off"]
    /\ probe = [r \in Runs |-> "off"]
    /\ pc = [t \in Threads |-> IF t \in Runs THEN "off" ELSE "idle"]
    /\ loc = [t \in Threads |-> NoLoc]
    /\ runs = 0
    /\ phase = "up"
    /\ raced = FALSE

-----------------------------------------------------------------------------
(* Shorthands *)

Up == phase # "exited"

\* Thread t moves from one point of its code to another.
At(t, from, to) == Up /\ pc[t] = from /\ pc' = [pc EXCEPT ![t] = to]

\* Where a call of Start or Stop returns to; a monitor has nothing left to do.
Returned(t) == IF t \in Runs THEN "done" ELSE "idle"

\* setState
SetState(s) == proc' = [proc EXCEPT !.state = s]

others == <<child, killed, waiter, probe, runs, phase>>

\* monitorDone and runExited are closed by the monitor as it goes.
MonitorDone(r) == pc[r] = "done"
RunExited(r)   == pc[r] \notin {"off", "await"}

HealthCtxDone(r) == r \in closed.health \cup closed.ctx

InStart(t) == pc[t] \in StartSteps
InStop(t)  == pc[t] \in StopSteps /\ t \in Callers

\* A goroutine that has decided to start a run, or to give up on restarting,
\* and has not published it yet.
Committed(t) == InStart(t) \/ (t \in Runs /\ pc[t] \in {"policy", "fatal", "retry", "start"})

\* The bound.  A monitor sets out for Start only with a run left for it; the
\* reconciler may take that run first, and then the monitor's call is refused
\* or, once the bound is reached, goes no further.
RunsLeft ==
    runs + Cardinality({t \in Threads : pc[t] \in {"start", "check", "retry"}}) < MaxRuns
RunLeftFor(t) ==
    runs + (IF t \in Runs /\ pc[Reconciler] = "start" THEN 1 ELSE 0) < MaxRuns

-----------------------------------------------------------------------------
\* Changed forms of definitions below, each a plausible wrong edit of the code;
\* no action of the specification uses them.
FreshRunKeepsCompleted(r) == [proc EXCEPT !.cancel = r]
HealthCanceledNot == closed.health
ProbeEndedNotAwaited(r) == TRUE
MarkStoppedKeepsChannel == [proc EXCEPT !.stoppedExternally = TRUE]
NothingToStopUnlessRunning(s) == s # "RUNNING"
GraceIsOverNever == FALSE
ReadyToStartIfNotRunning == IsStopped(proc.state)

-----------------------------------------------------------------------------
(* Start *)

Startable == proc.state \notin {"RUNNING", "STARTING"}

FreshRun(r) == [proc EXCEPT !.completed = FALSE, !.cancel = r]

\* The first section: the guard, and a fresh context for the run.
Enter(t) ==
    LET r == runs + 1 IN
    /\ At(t, "start", "starting")
    /\ Startable
    /\ RunLeftFor(t)
    /\ runs' = r
    /\ proc' = FreshRun(r)
    /\ closed' = [closed EXCEPT !.ctx = @ \cup ({proc.cancel} \ {0})]
    /\ loc' = [loc EXCEPT ![t] = [NoLoc EXCEPT !.cmd = r]]
    /\ raced' = (raced \/ \E u \in Callers : InStop(u))
    /\ UNCHANGED <<child, killed, waiter, probe, phase>>

\* "already running or starting": a caller gets the error, and the monitor
\* that was restarting publishes FATAL for it.
EnterRefused(t) ==
    /\ At(t, "start", IF t \in Runs THEN "fatal" ELSE "idle")
    /\ ~Startable
    /\ UNCHANGED <<proc, closed, loc, raced, others>>

Starting(t) ==
    /\ At(t, "starting", "logging")
    /\ SetState("STARTING")
    /\ UNCHANGED <<closed, loc, raced, others>>

\* startLogging: the run's pipes and writers join p.streams.
StartLogging(t) ==
    /\ At(t, "logging", "spawning")
    /\ proc' = [proc EXCEPT !.streams = @ \cup {loc[t].cmd}]
    /\ UNCHANGED <<closed, loc, raced, others>>

\* startLogging, buildCommand or spawn fails.
StartFails(t) ==
    /\ At(t, "logging", "aborting") \/ At(t, "spawning", "aborting")
    /\ UNCHANGED <<proc, closed, loc, raced, others>>

\* buildCommand makes the command of the run, and spawn starts it in its own group.
Spawn(t) ==
    /\ At(t, "spawning", "recording")
    /\ child' = [child EXCEPT ![loc[t].cmd] = "alive"]
    /\ UNCHANGED <<proc, closed, loc, raced, killed, waiter, probe, runs, phase>>

\* recordRun
RecordRun(t) ==
    /\ At(t, "recording", IF HealthCheck THEN "watching" ELSE "launching")
    /\ proc' = [proc EXCEPT !.cmd = loc[t].cmd, !.stopRequested = loc[t].cmd,
                            !.stoppedExternally = FALSE]
    /\ UNCHANGED <<closed, loc, raced, others>>

\* startHealthChecks: publish the cancel function, then the health, then probe.
StartHealthChecks(t) ==
    /\ At(t, "watching", "readying")
    /\ proc' = [proc EXCEPT !.healthCancel = loc[t].cmd]
    /\ UNCHANGED <<closed, loc, raced, others>>

HealthStarting(t) ==
    /\ At(t, "readying", "launching")
    /\ proc' = [proc EXCEPT !.health = "STARTING"]
    /\ probe' = [probe EXCEPT ![loc[t].cmd] = "probing"]
    /\ UNCHANGED <<closed, loc, raced, child, killed, waiter, runs, phase>>

\* go p.monitor, go p.waitForStartSuccess, return nil
Launch(t) ==
    LET r == loc[t].cmd IN
    /\ Up
    /\ pc[t] = "launching"
    /\ pc' = [pc EXCEPT ![t] = Returned(t), ![r] = "await"]
    /\ waiter' = [waiter EXCEPT ![r] = "waiting"]
    /\ loc' = [loc EXCEPT ![t] = NoLoc]
    /\ UNCHANGED <<proc, closed, raced, child, killed, probe, runs, phase>>

\* The error paths: stopLogging and cancel, then FATAL.
Abort(t) ==
    /\ At(t, "aborting", "failing")
    /\ proc' = [proc EXCEPT !.streams = {}]
    /\ closed' = [closed EXCEPT !.ctx = @ \cup {loc[t].cmd}]
    /\ UNCHANGED <<loc, raced, others>>

StartFatal(t) ==
    /\ At(t, "failing", IF t \in Runs THEN "fatal" ELSE "idle")
    /\ SetState("FATAL")
    /\ loc' = [loc EXCEPT ![t] = NoLoc]
    /\ UNCHANGED <<closed, raced, others>>

-----------------------------------------------------------------------------
(* stopHealthChecks, called by Stop and by the monitor *)

AfterTaking(next) == IF proc.healthCancel = 0 THEN next ELSE "draining"
HealthCanceled == closed.health \cup ({proc.healthCancel} \ {0})

\* Take the cancel function, so that it is called once, and call it.
TakeHealth(t, next) ==
    /\ At(t, "taking", AfterTaking(next))
    /\ proc' = [proc EXCEPT !.healthCancel = 0]
    /\ closed' = [closed EXCEPT !.health = HealthCanceled]
    /\ loc' = [loc EXCEPT ![t].health = proc.healthCancel]
    /\ UNCHANGED <<raced, others>>

ProbeEnded(r) == probe[r] = "done"

\* Wait for the probe loop, and only then clear the health.
AwaitProbe(t, next) ==
    /\ At(t, "draining", next)
    /\ ProbeEnded(loc[t].health)
    /\ proc' = [proc EXCEPT !.health = "NONE"]
    /\ loc' = [loc EXCEPT ![t].health = 0]
    /\ UNCHANGED <<closed, raced, others>>

-----------------------------------------------------------------------------
(* Stop *)

MarkStopped == [proc EXCEPT !.stoppedExternally = TRUE, !.stopRequested = 0]
NothingToStop(s) == IsStopped(s) \/ s = "BACKOFF"
GraceIsOver == CanWedge

\* The first section (what Stop goes by is read here) and close(stopRequested).
BeginStop(t) ==
    /\ At(t, "stop", "taking")
    /\ proc' = MarkStopped
    /\ closed' = [closed EXCEPT !.stop = @ \cup ({proc.stopRequested} \ {0})]
    /\ loc' = [loc EXCEPT ![t] = [NoLoc EXCEPT !.state = proc.state, !.cmd = proc.cmd,
                                              !.cancel = proc.cancel]]
    /\ raced' = (raced \/ \E u \in Threads : Committed(u))
    /\ UNCHANGED others

\* Nothing is running by the state read first: cancel any pending restart.
NothingRunning(t) ==
    /\ At(t, "deciding", "resting")
    /\ NothingToStop(loc[t].state)
    /\ closed' = [closed EXCEPT !.ctx = @ \cup ({loc[t].cancel} \ {0})]
    /\ proc' = [proc EXCEPT !.streams = {}]
    /\ UNCHANGED <<loc, raced, others>>

Resting(t) ==
    /\ At(t, "resting", "idle")
    /\ SetState("STOPPED")
    /\ loc' = [loc EXCEPT ![t] = NoLoc]
    /\ UNCHANGED <<closed, raced, others>>

\* Otherwise publish STOPPING and signal the group, if there ever was one.
Stopping(t) ==
    /\ At(t, "deciding", IF loc[t].cmd = 0 THEN "finishing" ELSE "waiting")
    /\ ~NothingToStop(loc[t].state)
    /\ SetState("STOPPING")
    /\ UNCHANGED <<closed, loc, raced, others>>

MonitorReports(t) ==
    /\ At(t, "waiting", "finishing") \/ At(t, "killing", "finishing")
    /\ MonitorDone(loc[t].cmd)
    /\ UNCHANGED <<proc, closed, loc, raced, others>>

\* stopwaitsecs has passed: SIGKILL.
StopTimeout(t) ==
    /\ At(t, "waiting", "killing")
    /\ killed' = killed \cup {loc[t].cmd}
    /\ UNCHANGED <<proc, closed, loc, raced, child, waiter, probe, runs, phase>>

\* reapGrace has passed as well.
GiveUp(t) ==
    /\ At(t, "killing", "finishing")
    /\ GraceIsOver
    /\ UNCHANGED <<proc, closed, loc, raced, others>>

Finish(t) ==
    /\ At(t, "finishing", "idle")
    /\ closed' = [closed EXCEPT !.ctx = @ \cup ({loc[t].cancel} \ {0})]
    /\ proc' = [proc EXCEPT !.streams = {}]
    /\ loc' = [loc EXCEPT ![t] = NoLoc]
    /\ UNCHANGED <<raced, others>>

-----------------------------------------------------------------------------
(* monitor and maybeRestart *)

\* The reaper's status arrives and runExited is closed.
ExitArrives(r) ==
    /\ At(r, "await", "taking")
    /\ child[r] \in {"ok", "fail"}
    /\ UNCHANGED <<proc, closed, loc, raced, others>>

StopLogging(r) ==
    /\ At(r, "unlogging", "noting")
    /\ proc' = [proc EXCEPT !.streams = {}]
    /\ UNCHANGED <<closed, loc, raced, others>>

\* The exit is recorded; a run of healthyUptime forgets the restarts before it.
RecordExit(r) ==
    /\ At(r, "noting", "settling")
    /\ \E healthy \in BOOLEAN :
          proc' = [proc EXCEPT !.restartCount = IF healthy THEN 0 ELSE @]
    /\ loc' = [loc EXCEPT ![r].asked = proc.stoppedExternally]
    /\ UNCHANGED <<closed, raced, others>>

\* The switch on the state, which is read in a section of its own.
SettledTo(r) ==
    IF loc[r].asked THEN "stopped"
    ELSE IF proc.state = "STOPPING" THEN "exited"
    ELSE IF child[r] = "ok" THEN "latching" ELSE "exiting"

Settle(r) ==
    /\ At(r, "settling", SettledTo(r))
    /\ loc' = [loc EXCEPT ![r] = NoLoc]
    /\ UNCHANGED <<proc, closed, raced, others>>

PublishStopped(r) ==
    /\ At(r, "stopped", "done")
    /\ SetState("STOPPED")
    /\ UNCHANGED <<closed, loc, raced, others>>

PublishExited(r) ==
    /\ At(r, "exited", "done")
    /\ SetState("EXITED")
    /\ UNCHANGED <<closed, loc, raced, others>>

\* completed is latched before the state change that wakes whoever waits for it.
Latch(r) ==
    /\ At(r, "latching", "exiting")
    /\ proc' = [proc EXCEPT !.completed = TRUE]
    /\ UNCHANGED <<closed, loc, raced, others>>

Exiting(r) ==
    /\ At(r, "exiting", "policy")
    /\ SetState("EXITED")
    /\ UNCHANGED <<closed, loc, raced, others>>

ShouldRestart(r) ==
    \/ Autorestart = "always"
    \/ Autorestart = "unexpected" /\ child[r] = "fail"

LimitReached == proc.restartCount >= MaxRestarts

Policy(r) ==
    \/ /\ At(r, "policy", "done")
       /\ ~ShouldRestart(r)
       /\ UNCHANGED proc
       /\ UNCHANGED <<closed, loc, raced, others>>
    \/ /\ At(r, "policy", "fatal")
       /\ ShouldRestart(r) /\ LimitReached
       /\ UNCHANGED <<proc, closed, loc, raced, others>>
    \/ /\ At(r, "policy", "backoff")
       /\ ShouldRestart(r) /\ ~LimitReached
       /\ proc' = [proc EXCEPT !.restartCount = @ + 1]
       /\ UNCHANGED <<closed, loc, raced, others>>

\* Exceeded max_restarts, or Start returned an error.
PublishFatal(r) ==
    /\ At(r, "fatal", "done")
    /\ SetState("FATAL")
    /\ UNCHANGED <<closed, loc, raced, others>>

Canceled(r) == r \in closed.ctx \cup closed.stop

BackoffCanceled(r) ==
    /\ At(r, "backoff", "done")
    /\ Canceled(r)
    /\ UNCHANGED <<proc, closed, loc, raced, others>>

\* The timer; select may take it although a channel is closed too.
BackoffElapsed(r) ==
    /\ At(r, "backoff", "check")
    /\ RunsLeft
    /\ UNCHANGED <<proc, closed, loc, raced, others>>

StopWanted == proc.stoppedExternally \/ proc.state = "STOPPING"

CheckCanceled(r) ==
    /\ At(r, "check", IF StopWanted THEN "done" ELSE "retry")
    /\ raced' = (raced \/ (~StopWanted /\ Canceled(r)))
    /\ UNCHANGED <<proc, closed, loc, others>>

Retry(r) ==
    /\ At(r, "retry", "start")
    /\ SetState("BACKOFF")
    /\ UNCHANGED <<closed, loc, raced, others>>

-----------------------------------------------------------------------------
(* waitForStartSuccess *)

Quits(r) == r \in closed.ctx \/ RunExited(r)

WaiterQuits(r) ==
    /\ Up /\ waiter[r] = "waiting"
    /\ Quits(r)
    /\ waiter' = [waiter EXCEPT ![r] = "done"]
    /\ UNCHANGED <<proc, child, killed, closed, probe, pc, loc, runs, phase, raced>>

\* startsecs have passed; select may see that although it could also quit.
WaiterElapses(r) ==
    /\ Up /\ waiter[r] = "waiting"
    /\ waiter' = [waiter EXCEPT ![r] = "elapsed"]
    /\ UNCHANGED <<proc, child, killed, closed, probe, pc, loc, runs, phase, raced>>

\* compareAndSetState(StateStarting, StateRunning)
Promote(r) ==
    /\ Up /\ waiter[r] = "elapsed"
    /\ waiter' = [waiter EXCEPT ![r] = "done"]
    /\ proc' = [proc EXCEPT !.state = IF @ = "STARTING" THEN "RUNNING" ELSE @]
    /\ UNCHANGED <<child, killed, closed, probe, pc, loc, runs, phase, raced>>

-----------------------------------------------------------------------------
(* probeLoop: a probe gives a result, the result is published, and so on. *)

ProbeResult(r, h) ==
    /\ Up /\ probe[r] = "probing"
    /\ ~HealthCtxDone(r)
    /\ probe' = [probe EXCEPT ![r] = h]
    /\ UNCHANGED <<proc, child, killed, closed, waiter, pc, loc, runs, phase, raced>>

PublishHealth(r) ==
    /\ Up /\ probe[r] \in {"HEALTHY", "UNHEALTHY"}
    /\ proc' = [proc EXCEPT !.health = probe[r]]
    /\ probe' = [probe EXCEPT ![r] = "probing"]
    /\ UNCHANGED <<child, killed, closed, waiter, pc, loc, runs, phase, raced>>

ProbeEnds(r) ==
    /\ Up /\ probe[r] = "probing"
    /\ HealthCtxDone(r)
    /\ probe' = [probe EXCEPT ![r] = "done"]
    /\ UNCHANGED <<proc, child, killed, closed, waiter, pc, loc, runs, phase, raced>>

-----------------------------------------------------------------------------
(* The child, and who calls Start and Stop. *)

ChildExits(r) ==
    /\ Up /\ child[r] = "alive"
    /\ \E how \in {"ok", "fail"} : child' = [child EXCEPT ![r] = how]
    /\ UNCHANGED <<proc, killed, closed, waiter, probe, pc, loc, runs, phase, raced>>

ReadyToStart == proc.state = "STOPPED"

\* reconcile: runAction(proc.Start) for a program that is STOPPED, and
\* runAction(proc.Stop) for one that is not; inflight keeps them apart.
ReconcilerStarts ==
    /\ At(Reconciler, "idle", "start")
    /\ phase = "up"
    /\ ReadyToStart
    /\ runs < MaxRuns
    /\ UNCHANGED <<proc, closed, loc, raced, others>>

ReconcilerStops ==
    /\ At(Reconciler, "idle", "stop")
    /\ phase = "up"
    /\ proc.state \notin {"STOPPED", "STOPPING"}
    /\ UNCHANGED <<proc, closed, loc, raced, others>>

\* StartProcess releases a program that is not running back to STOPPED.
ClientStops(c) ==
    /\ At(c, "idle", "stop")
    /\ IsStopped(proc.state)
    /\ UNCHANGED <<proc, closed, loc, raced, others>>

\* Server.Stop: once the reconciler and its actions are done, stop everything,
\* and then the daemon exits.
BeginShutdown ==
    /\ At(Shutdown, "idle", "stop")
    /\ phase = "up"
    /\ pc[Reconciler] = "idle"
    /\ phase' = "stopping"
    /\ UNCHANGED <<proc, closed, loc, raced, child, killed, waiter, probe, runs>>

DaemonExits ==
    /\ phase = "stopping"
    /\ pc[Shutdown] = "idle"
    /\ phase' = "exited"
    /\ UNCHANGED <<proc, child, killed, closed, waiter, probe, pc, loc, runs, raced>>

\* Nothing of the daemon runs after it has exited.
Exited == phase = "exited" /\ UNCHANGED vars

-----------------------------------------------------------------------------
StartStep(t) ==
    \/ Enter(t) \/ EnterRefused(t) \/ Starting(t) \/ StartLogging(t) \/ StartFails(t)
    \/ Spawn(t) \/ RecordRun(t) \/ StartHealthChecks(t) \/ HealthStarting(t) \/ Launch(t)
    \/ Abort(t) \/ StartFatal(t)

StopStep(c) ==
    \/ BeginStop(c) \/ TakeHealth(c, "deciding") \/ AwaitProbe(c, "deciding")
    \/ NothingRunning(c) \/ Resting(c) \/ Stopping(c) \/ MonitorReports(c)
    \/ StopTimeout(c) \/ GiveUp(c) \/ Finish(c)

MonitorStep(r) ==
    \/ ExitArrives(r) \/ TakeHealth(r, "unlogging") \/ AwaitProbe(r, "unlogging")
    \/ StopLogging(r) \/ RecordExit(r) \/ Settle(r) \/ PublishStopped(r) \/ PublishExited(r)
    \/ Latch(r) \/ Exiting(r) \/ Policy(r) \/ PublishFatal(r)
    \/ BackoffCanceled(r) \/ BackoffElapsed(r) \/ CheckCanceled(r) \/ Retry(r)

HelperStep(r) ==
    \/ WaiterQuits(r) \/ WaiterElapses(r) \/ Promote(r)
    \/ PublishHealth(r) \/ ProbeEnds(r)

Environment ==
    \/ ReconcilerStarts \/ ReconcilerStops \/ BeginShutdown \/ DaemonExits
    \/ \E c \in Clients : ClientStops(c)
    \/ \E r \in Runs : ChildExits(r) \/ \E h \in {"HEALTHY", "UNHEALTHY"} : ProbeResult(r, h)

Next ==
    \/ \E t \in {Reconciler} \cup Runs : StartStep(t)
    \/ \E c \in Callers : StopStep(c)
    \/ \E r \in Runs : MonitorStep(r) \/ HelperStep(r)
    \/ Environment
    \/ Exited

Spec == Init /\ [][Next]_vars

\* Every goroutine keeps running, timers fire, a killed child that can die does
\* die.  Nothing makes anybody start or stop the program, a child exit, or a
\* probe give a result.
Fairness ==
    /\ WF_vars(StartStep(Reconciler))
    /\ \A c \in Callers : WF_vars(StopStep(c))
    /\ \A r \in Runs :
        /\ WF_vars(MonitorStep(r) \/ StartStep(r))
        /\ WF_vars(WaiterQuits(r) \/ WaiterElapses(r) \/ Promote(r))
        /\ WF_vars(PublishHealth(r) \/ ProbeEnds(r))
        /\ ~CanWedge => WF_vars(r \in killed /\ ChildExits(r))
    /\ WF_vars(DaemonExits)

FairSpec == Spec /\ Fairness

-----------------------------------------------------------------------------
(* Properties *)

Live == {r \in Runs : child[r] = "alive"}

\* No Stop has overlapped a start, or a monitor about to publish what the
\* restart policy decided.  The properties that assume it are false without
\* it; configurations ProcessStuck and ProcessShutdown show the overlaps go wrong.
Calm == ~raced

\* As far as the first such overlap, and beyond it to where a monitor that has
\* passed its last check meets another start (EnterRefused).
CalmOrMeeting ==
    \/ Calm
    \/ /\ pc[Reconciler] \in {"idle", "start", "starting", "logging"}
       /\ \E r \in Runs : pc[r] \in {"start", "fatal"}

\* Bounds of ProcessCalm.  SIGKILL changes nothing that its properties speak of:
\* a child may end at any time.  ProcessWide goes without the two.
NotKilled == killed = {}
NoClientInShutdown == phase = "up" \/ \A c \in Clients : pc[c] = "idle"

\* Stop closes stopRequested without holding the lock, and a second close would
\* panic the daemon: what Process offers to the next Stop is still open,
\* however many Stops and restarts there are at once.
StopRequestedOpen == proc.stopRequested \notin closed.stop

\* max_restarts bounds consecutive restarts whoever races whom (maybeRestart
\* compares and counts in one section).
RestartsBounded == proc.restartCount <= MaxRestarts

\* One program, one process: neither a restart by the monitor nor a start by
\* the reconciler leaves the previous run's child running next to the new one.
OneLiveChild == Calm => Cardinality(Live) <= 1

\* A program that is reported as STOPPED, EXITED or FATAL has no process: Stop
\* and the monitor publish those states after the exit, Start before the spawn.
StoppedMeansNoChild == Calm /\ IsStopped(proc.state) => Live = {}

\* What a live child writes is being captured: its streams stay in p.streams,
\* and so open, until its exit has been seen, although Stop, the monitor and a
\* failing Start all close whatever streams they find there.
LiveRunIsLogged == Calm => Live \subseteq proc.streams

\* HasCompleted: "the answer is always about the most recent run rather than
\* about any run there has ever been", and that run ended with status 0.
CompletedIsLatestRun == Calm /\ proc.completed => runs > 0 /\ child[runs] = "ok"

\* stopHealthChecks waits for the probe loop before it clears the health, so a
\* late result is never left behind: while a health is shown, somebody holds
\* the means to clear it or is doing so.
HealthHasOwner ==
    Calm /\ proc.health # "NONE" =>
        proc.healthCancel # 0 \/ \E t \in Threads : pc[t] = "draining"

\* A program that exited or gave up is not started from there: its own restart
\* policy passes through BACKOFF, and anybody else needs a Stop first
\* ("starting a FATAL process here would defeat max_restarts entirely").
ReleasedBeforeStart ==
    [][Calm' /\ proc.state \in {"EXITED", "FATAL"}
           => proc'.state \notin {"STARTING", "RUNNING"}]_vars

\* Read from outside, a Process goes through the states of ProcessLife.
Life == INSTANCE ProcessLife WITH state <- proc.state, alive <- (Live # {}),
                                  completed <- proc.completed

\* What the reconciler, a reload and the dependents of a program go by is true
\* of it: a start finds it at rest and childless, and no state that says a run is
\* over comes before the exit, whoever of its goroutines publishes it.
KeepsLife == Life!Init /\ [][Calm' => [Life!Next]_(Life!vars)]_vars

\* Every Stop returns, even for a child that does not die on SIGKILL (reapGrace:
\* one such program "must not be able to hold up the daemon's shutdown").
StopReturns == \A c \in Callers : InStop(c) ~> (pc[c] = "idle" \/ phase = "exited")

\* Every exit is settled: the monitor gets through the teardown and publishes
\* how the run ended, and ends or waits out a backoff.
ExitIsSettled ==
    \A r \in Runs :
        pc[r] = "await" /\ child[r] # "alive"
            ~> (pc[r] \in {"backoff", "done"} \/ phase = "exited")

\* README: "sctl stop always ends in STOPPED".  When no call of Start or Stop
\* is under way and every monitor has ended, nobody is left to move a program
\* on from STOPPING.
StopEndsStopped ==
    (\A c \in Callers : pc[c] = "idle") /\ (\A r \in Runs : pc[r] \in {"off", "done"})
        => proc.state # "STOPPING"

\* server.go: "Everything was stopped deliberately, so there is nothing for the
\* next daemon to reap" (the state file is removed on the strength of it).
ShutdownLeavesNothing == phase = "exited" => Live = {}

\* README: BACKOFF is "Process failed to start, waiting before retry".
BackoffIsShown == \A r \in Runs : pc[r] = "backoff" => proc.state = "BACKOFF"

\* README: "RUNNING means the process is alive: it stayed up for startsecs", so
\* RUNNING is only published by the latest run's own start waiter.
RunningStayedUp == proc.state = "RUNNING" => waiter[runs] = "done"
=============================================================================

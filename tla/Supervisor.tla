----------------------------- MODULE Supervisor -----------------------------
(***************************************************************************)
(* internal/server: the reconcile loop, the action goroutines it starts,   *)
(* the IPC goroutines of sctl start/stop/restart, and the shutdown.        *)
(*                                                                         *)
(* Each program is a Process seen from outside: the states it publishes,   *)
(* and what one call of Start or Stop does to them when nothing overlaps   *)
(* it (Process models what happens when something does).                   *)
(***************************************************************************)
EXTENDS Naturals, Sequences, FiniteSets

CONSTANTS Programs,
          DependsOn,   \* [Programs -> sequence of [on, cond]] (config depends_on)
          Order,       \* the programs by priority (programNames)
          Tier,        \* [Programs -> Nat], the tiers of the dependency graph
          Autorestart, \* [Programs -> {"always", "unexpected", "never"}]
          HealthChecked, \* the programs with a health_check
          Clients,     \* IPC goroutines
          MaxOps,      \* bound: requests the clients make
          None

Dependency(p) == {DependsOn[p][i] : i \in DOMAIN DependsOn[p]}
States == {"STOPPED", "STARTING", "RUNNING", "STOPPING", "EXITED", "FATAL"}
IsStopped(s) == s \in {"STOPPED", "EXITED", "FATAL"}

\* Without a program there is nothing to reconcile: a pass has a first one.
ASSUME SupervisorAssumption ==
    /\ Programs # {} /\ Order \in Seq(Programs)
    /\ \A p \in Programs : \E i \in DOMAIN Order : Order[i] = p
    /\ DependsOn \in [Programs ->
           Seq([on : Programs, cond : {"started", "healthy", "completed"}])]
    /\ Tier \in [Programs -> Nat]
    /\ Autorestart \in [Programs -> {"always", "unexpected", "never"}]
    /\ HealthChecked \subseteq Programs
    /\ \A p \in Programs : \A d \in Dependency(p) :
           /\ Tier[d.on] < Tier[p]
           /\ d.cond = "healthy" => d.on \in HealthChecked
           /\ d.cond = "completed" => Autorestart[d.on] # "always"
    /\ MaxOps \in Nat
    /\ None \notin Programs

VARIABLES
    state, healthy, completed,  \* what each Process reports
    desired,        \* Server.desired
    inflight,       \* Server.inflight
    blockedReason,  \* Server.blockedReason: the dependency it names, or None
    action,         \* [Programs -> the action goroutine of runAction]
    rec,            \* the reconcile loop: where it is and what it has read
    client,         \* [Clients -> the request an IPC goroutine is serving]
    phase,          \* Server.Stop: "up", "closing", "tiers", "exited"
    stopping,       \* [Programs -> the Stop that stopAllProcesses makes]
    ops,            \* requests made
    reached,        \* auxiliary: the <<program, condition>> that have ever held
    stopped,        \* auxiliary: programs a client was told are stopped
    writtenOff      \* auxiliary: programs a client was told cannot start

procs == <<state, healthy, completed>>
vars  == <<state, healthy, completed, desired, inflight, blockedReason, action, rec, client,
           phase, stopping, ops, reached, stopped, writtenOff>>

NoRequest == [pc |-> "idle", prog |-> None, again |-> FALSE]

TypeOK ==
    /\ state \in [Programs -> States]
    /\ healthy \in [Programs -> BOOLEAN] /\ completed \in [Programs -> BOOLEAN]
    /\ desired \in [Programs -> {"RUNNING", "STOPPED"}]
    /\ inflight \in [Programs -> BOOLEAN]
    /\ blockedReason \in [Programs -> Programs \cup {None}]
    /\ action \in [Programs -> {"none", "start", "stop", "stopping", "returning"}]
    /\ rec \in [pc : {"select", "look", "judge", "dep", "health", "blocked", "ready", "run",
                      "done"},
                i : 1 .. Len(Order), want : {"RUNNING", "STOPPED"}, d : Nat]
    /\ client \in [Clients -> [pc : {"idle", "check", "recheck", "reset", "resetting", "want",
                                     "unwant", "startwait", "stopwait"},
                               prog : Programs \cup {None}, again : BOOLEAN]]
    /\ phase \in {"up", "closing", "tiers", "exited"}
    /\ stopping \in [Programs -> {"no", "stop", "stopping", "done"}]
    /\ ops \in 0 .. MaxOps
    /\ reached \subseteq Programs \X {"started", "healthy", "completed"}
    /\ stopped \subseteq Programs /\ writtenOff \subseteq Programs

Init ==
    /\ state = [p \in Programs |-> "STOPPED"]
    /\ healthy = [p \in Programs |-> FALSE] /\ completed = [p \in Programs |-> FALSE]
    /\ desired \in [Programs -> {"RUNNING", "STOPPED"}]
    /\ inflight = [p \in Programs |-> FALSE]
    /\ blockedReason = [p \in Programs |-> None]
    /\ action = [p \in Programs |-> "none"]
    /\ rec = [pc |-> "look", i |-> 1, want |-> "STOPPED", d |-> 1]
    /\ client = [c \in Clients |-> NoRequest]
    /\ phase = "up"
    /\ stopping = [p \in Programs |-> "no"]
    /\ ops = 0
    /\ reached = {}
    /\ stopped = {} /\ writtenOff = {}

-----------------------------------------------------------------------------
(* A program, as its Process reports it *)

Up == phase # "exited"

\* What the auxiliary record of conditions becomes with the new state.
Reached(p) ==
    reached' = reached \cup (IF state'[p] = "RUNNING" THEN {<<p, "started">>} ELSE {})
                       \cup (IF healthy'[p] THEN {<<p, "healthy">>} ELSE {})
                       \cup (IF completed'[p] THEN {<<p, "completed">>} ELSE {})

ProcStep(p) ==
    /\ Up
    /\ Reached(p)
    /\ UNCHANGED <<desired, inflight, blockedReason, action, rec, client, phase, stopping,
                   ops, stopped, writtenOff>>

ComesUp(p) ==
    /\ state[p] = "STARTING"
    /\ state' = [state EXCEPT ![p] = "RUNNING"]
    /\ UNCHANGED <<healthy, completed>>
    /\ ProcStep(p)

HealthChanges(p) ==
    /\ p \in HealthChecked
    /\ state[p] \in {"STARTING", "RUNNING"}
    /\ healthy' = [healthy EXCEPT ![p] = ~@]
    /\ UNCHANGED <<state, completed>>
    /\ ProcStep(p)

\* The monitor settles an exit nobody asked for.
Exits(p) ==
    /\ state[p] \in {"STARTING", "RUNNING"}
    /\ state' = [state EXCEPT ![p] = "EXITED"]
    /\ healthy' = [healthy EXCEPT ![p] = FALSE]
    /\ \E clean \in BOOLEAN : completed' = [completed EXCEPT ![p] = clean]
    /\ ProcStep(p)

\* The restart policy: another run after the backoff, or FATAL.
Restarts(p) ==
    Autorestart[p] = "always" \/ (Autorestart[p] = "unexpected" /\ ~completed[p])

Retries(p) ==
    /\ state[p] = "EXITED" /\ Restarts(p)
    /\ state' = [state EXCEPT ![p] = "STARTING"]
    /\ completed' = [completed EXCEPT ![p] = FALSE]
    /\ UNCHANGED healthy
    /\ ProcStep(p)

GivesUp(p) ==
    /\ state[p] = "EXITED" /\ Restarts(p)
    /\ state' = [state EXCEPT ![p] = "FATAL"]
    /\ UNCHANGED <<healthy, completed>>
    /\ ProcStep(p)

\* The effect of a call of Stop: at once for a program that is not running, and
\* otherwise from STOPPING on, when the exit has been seen.
StopCalled(p) ==
    /\ state' = [state EXCEPT ![p] = IF IsStopped(@) THEN "STOPPED" ELSE "STOPPING"]
    /\ healthy' = [healthy EXCEPT ![p] = FALSE]
    /\ UNCHANGED <<completed, reached>>

\* Where another call has moved the program on, this one may leave it there.
StopReturns(p) ==
    /\ \E s \in {"STOPPED"} \cup ({state[p]} \ {"STOPPING"}) : state' = [state EXCEPT ![p] = s]
    /\ UNCHANGED <<healthy, completed, reached>>

-----------------------------------------------------------------------------
\* Changed forms of definitions below, each a plausible wrong edit of the code;
\* no action of the specification uses them.
SkipsNothing(p) == FALSE
JudgeStopsNoExited(s) == s \in {"STARTING", "RUNNING"}
MetAlways(p, d) == TRUE
ActionsNotAwaited == TRUE
StillInflight(p) == inflight
StopChanUnseen == FALSE
LowestTierFirst(p) == \A q \in Programs : Tier[q] < Tier[p] => stopping[q] = "done"

-----------------------------------------------------------------------------
(* runAction *)

\* Start: refused while running or starting, and FATAL when it fails.
ActionStarts(p) ==
    /\ Up /\ action[p] = "start"
    /\ action' = [action EXCEPT ![p] = "returning"]
    /\ IF state[p] \in {"STARTING", "RUNNING"}
       THEN UNCHANGED procs
       ELSE /\ \E s \in {"STARTING", "FATAL"} : state' = [state EXCEPT ![p] = s]
            /\ completed' = [completed EXCEPT ![p] = FALSE]
            /\ healthy' = [healthy EXCEPT ![p] = FALSE]
    /\ UNCHANGED <<desired, inflight, blockedReason, rec, client, phase, stopping, ops,
                   reached, stopped, writtenOff>>

ActionStops(p) ==
    /\ Up /\ action[p] = "stop"
    /\ StopCalled(p)
    /\ action' = [action EXCEPT ![p] = IF IsStopped(state[p]) THEN "returning" ELSE "stopping"]
    /\ UNCHANGED <<desired, inflight, blockedReason, rec, client, phase, stopping, ops,
                   stopped, writtenOff>>

ActionStopped(p) ==
    /\ Up /\ action[p] = "stopping"
    /\ StopReturns(p)
    /\ action' = [action EXCEPT ![p] = "returning"]
    /\ UNCHANGED <<desired, inflight, blockedReason, rec, client, phase, stopping, ops,
                   stopped, writtenOff>>

\* delete(s.inflight, name)
Landed(p) == [inflight EXCEPT ![p] = FALSE]

ActionReturns(p) ==
    /\ Up /\ action[p] = "returning"
    /\ action' = [action EXCEPT ![p] = "none"]
    /\ inflight' = Landed(p)
    /\ UNCHANGED <<procs, desired, blockedReason, rec, client, phase, stopping, ops, reached,
                   stopped, writtenOff>>

-----------------------------------------------------------------------------
(* reconcile *)

Current == Order[rec.i]

RecStep(from) ==
    /\ Up /\ rec.pc = from
    /\ UNCHANGED <<procs, desired, client, phase, stopping, ops, reached, stopped, writtenOff>>

\* On to the next program, or the end of the pass.
NextProgram ==
    IF rec.i = Len(Order) THEN [rec EXCEPT !.pc = "select", !.i = 1]
    ELSE [rec EXCEPT !.pc = "look", !.i = @ + 1]

\* busy
Skips(p) == inflight[p]

\* Under processMutex: what is wanted, and whether an action is in flight.
Look ==
    /\ RecStep("look")
    /\ rec' = IF Skips(Current) THEN NextProgram
              ELSE [rec EXCEPT !.pc = "judge", !.want = desired[Current]]
    /\ UNCHANGED <<inflight, blockedReason, action>>

MayStart(s) == s = "STOPPED"
MustStop(s) == s \notin {"STOPPED", "STOPPING"}

\* The state is read on its own, and the two are compared.
Judge ==
    /\ RecStep("judge")
    /\ rec' = CASE rec.want = "RUNNING" /\ MayStart(state[Current]) ->
                       [rec EXCEPT !.pc = "dep", !.d = 1]
                [] rec.want = "STOPPED" /\ MustStop(state[Current]) ->
                       [rec EXCEPT !.pc = "run"]
                [] OTHER -> NextProgram
    /\ UNCHANGED <<inflight, blockedReason, action>>

Dep == DependsOn[Current][rec.d]

\* One dependency's state or completion; its health is read separately.
Met(p, d) == IF d.cond = "completed" THEN completed[d.on] ELSE state[d.on] = "RUNNING"

\* dependenciesSatisfied, one dependency at a time.
CheckDependency ==
    /\ RecStep("dep")
    /\ rec' = IF rec.d > Len(DependsOn[Current]) THEN [rec EXCEPT !.pc = "ready"]
              ELSE IF ~Met(Current, Dep) THEN [rec EXCEPT !.pc = "blocked"]
              ELSE IF Dep.cond = "healthy" THEN [rec EXCEPT !.pc = "health"]
              ELSE [rec EXCEPT !.d = @ + 1]
    /\ UNCHANGED <<inflight, blockedReason, action>>

CheckHealth ==
    /\ RecStep("health")
    /\ rec' = IF healthy[Dep.on] THEN [rec EXCEPT !.pc = "dep", !.d = @ + 1]
              ELSE [rec EXCEPT !.pc = "blocked"]
    /\ UNCHANGED <<inflight, blockedReason, action>>

\* noteBlocked(name, reason)
NoteBlocked ==
    /\ RecStep("blocked")
    /\ blockedReason' = [blockedReason EXCEPT ![Current] = Dep.on]
    /\ rec' = NextProgram
    /\ UNCHANGED <<inflight, action>>

Forget(p) == [blockedReason EXCEPT ![p] = None]

\* noteBlocked(name, "")
NoteReady ==
    /\ RecStep("ready")
    /\ blockedReason' = Forget(Current)
    /\ rec' = [rec EXCEPT !.pc = "run"]
    /\ UNCHANGED <<inflight, action>>

\* runAction: mark the program busy, then go.
RunAction ==
    /\ RecStep("run")
    /\ inflight' = [inflight EXCEPT ![Current] = TRUE]
    /\ action' = [action EXCEPT ![Current] = IF rec.want = "RUNNING" THEN "start" ELSE "stop"]
    /\ rec' = NextProgram
    /\ UNCHANGED blockedReason

\* reconcileLoop: a tick or a request begins another pass, ...
BeginPass ==
    /\ RecStep("select")
    /\ rec' = [rec EXCEPT !.pc = "look"]
    /\ UNCHANGED <<inflight, blockedReason, action>>

\* ... and stopChan ends the loop, though select may take the others first.
StopChanClosed == phase # "up"

LoopEnds ==
    /\ RecStep("select")
    /\ StopChanClosed
    /\ rec' = [rec EXCEPT !.pc = "done"]
    /\ UNCHANGED <<inflight, blockedReason, action>>

-----------------------------------------------------------------------------
(* sctl start, stop, restart: one IPC goroutine each *)

Serving(c, at) == Up /\ client[c].pc = at

\* Every variable an IPC goroutine's step does not name.
ClientStep ==
    UNCHANGED <<inflight, action, rec, phase, stopping, ops>>

Goes(c, to) == client' = [client EXCEPT ![c].pc = to]
Answers(c) == client' = [client EXCEPT ![c] = NoRequest]

\* A request arrives. What clients were told before it may no longer hold.
Request(c) ==
    /\ Serving(c, "idle") /\ ops < MaxOps
    /\ \E p \in Programs, r \in {"start", "stop", "restart"} :
           client' = [client EXCEPT ![c] =
                         [pc |-> IF r = "start" THEN "check" ELSE "unwant",
                          prog |-> p, again |-> r = "restart"]]
    /\ ops' = ops + 1
    /\ writtenOff' = {}
    /\ UNCHANGED <<procs, desired, inflight, blockedReason, action, rec, phase, stopping,
                   reached, stopped>>

\* StartProcess: an error for a program that is up.
AlreadyRunning(c) ==
    /\ Serving(c, "check") /\ state[client[c].prog] = "RUNNING"
    /\ Answers(c)
    /\ ClientStep
    /\ UNCHANGED <<procs, desired, blockedReason, reached, stopped, writtenOff>>

NotRunning(c) ==
    /\ Serving(c, "check") /\ state[client[c].prog] # "RUNNING"
    /\ Goes(c, "recheck")
    /\ ClientStep
    /\ UNCHANGED <<procs, desired, blockedReason, reached, stopped, writtenOff>>

\* The state is read again: a program at rest is reset first.
CheckAtRest(c) ==
    /\ Serving(c, "recheck")
    /\ Goes(c, IF IsStopped(state[client[c].prog]) THEN "reset" ELSE "want")
    /\ ClientStep
    /\ UNCHANGED <<procs, desired, blockedReason, reached, stopped, writtenOff>>

ResetProgram(c) ==
    /\ Serving(c, "reset")
    /\ StopCalled(client[c].prog)
    /\ Goes(c, IF IsStopped(state[client[c].prog]) THEN "want" ELSE "resetting")
    /\ ClientStep
    /\ UNCHANGED <<desired, blockedReason, stopped, writtenOff>>

ResetReturns(c) ==
    /\ Serving(c, "resetting")
    /\ StopReturns(client[c].prog)
    /\ Goes(c, "want")
    /\ ClientStep
    /\ UNCHANGED <<desired, blockedReason, stopped, writtenOff>>

\* setDesired(DesiredRunning)
Want(c) ==
    /\ Serving(c, "want")
    /\ desired' = [desired EXCEPT ![client[c].prog] = "RUNNING"]
    /\ stopped' = stopped \ {client[c].prog}
    /\ Goes(c, "startwait")
    /\ ClientStep
    /\ UNCHANGED <<procs, blockedReason, reached, writtenOff>>

\* setDesired(DesiredStopped) also forgets why the program was held back.
Unwant(c) ==
    /\ Serving(c, "unwant")
    /\ desired' = [desired EXCEPT ![client[c].prog] = "STOPPED"]
    /\ blockedReason' = Forget(client[c].prog)
    /\ Goes(c, "stopwait")
    /\ ClientStep
    /\ UNCHANGED <<procs, reached, stopped, writtenOff>>

\* awaitState of StartProcess sees the program up, or its work done, ...
Started(c) ==
    /\ Serving(c, "startwait")
    /\ LET p == client[c].prog IN
           state[p] = "RUNNING" \/ (state[p] = "EXITED" /\ completed[p])
    /\ Answers(c)
    /\ ClientStep
    /\ UNCHANGED <<procs, desired, blockedReason, reached, stopped, writtenOff>>

\* blockedByDependency: the walk over the dependencies that have to come up.
Hopeless[p \in Programs] ==
    \E d \in Dependency(p) :
        /\ ~ (d.cond = "completed" /\ completed[d.on])
        /\ \/ state[d.on] = "FATAL"
           \/ desired[d.on] = "STOPPED" /\ IsStopped(state[d.on])
           \/ d.cond = "completed" /\ state[d.on] = "EXITED" /\ Autorestart[d.on] = "never"
           \/ state[d.on] # "RUNNING" /\ Hopeless[d.on]

\* ... or that a program that is wanted will not come up, ...
CannotStart(c) ==
    /\ Up /\ client[c].pc \in {"startwait", "stopwait"}
    /\ desired[client[c].prog] = "RUNNING" /\ Hopeless[client[c].prog]
    /\ writtenOff' = writtenOff \cup {client[c].prog}
    /\ Answers(c)
    /\ ClientStep
    /\ UNCHANGED <<procs, desired, blockedReason, reached, stopped>>

\* awaitState of StopProcess: done; a restart goes on to StartProcess.
Stopped(c) ==
    /\ Serving(c, "stopwait") /\ state[client[c].prog] = "STOPPED"
    /\ stopped' = IF client[c].again \/ desired[client[c].prog] = "RUNNING" THEN stopped
                  ELSE stopped \cup {client[c].prog}
    /\ IF client[c].again
       THEN client' = [client EXCEPT ![c].pc = "check", ![c].again = FALSE]
       ELSE Answers(c)
    /\ ClientStep
    /\ UNCHANGED <<procs, desired, blockedReason, reached, writtenOff>>

\* ... or the action timeout or the shutdown ends either wait.
WaitEnds(c) ==
    /\ Up /\ client[c].pc \in {"startwait", "stopwait"}
    /\ Answers(c)
    /\ ClientStep
    /\ UNCHANGED <<procs, desired, blockedReason, reached, stopped, writtenOff>>

Client(c) ==
    \/ AlreadyRunning(c) \/ NotRunning(c) \/ CheckAtRest(c)
    \/ ResetProgram(c) \/ ResetReturns(c) \/ Want(c) \/ Unwant(c)
    \/ Started(c) \/ CannotStart(c) \/ Stopped(c) \/ WaitEnds(c)

-----------------------------------------------------------------------------
(* Server.Stop *)

ShutdownStep ==
    UNCHANGED <<desired, inflight, blockedReason, action, rec, client, ops, stopped, writtenOff>>

\* close(s.stopChan)
BeginShutdown ==
    /\ phase = "up"
    /\ phase' = "closing"
    /\ ShutdownStep
    /\ UNCHANGED <<procs, stopping, reached>>

\* s.actions.Wait()
ActionsDone == \A p \in Programs : action[p] = "none"

\* <-s.reconcileDone, then the actions it started.
Quiesced ==
    /\ phase = "closing"
    /\ rec.pc = "done" /\ ActionsDone
    /\ phase' = "tiers"
    /\ ShutdownStep
    /\ UNCHANGED <<procs, stopping, reached>>

\* stopAllProcesses: every program of a tier together, the last tier first.
TierMayStop(p) == \A q \in Programs : Tier[q] > Tier[p] => stopping[q] = "done"

StopProgram(p) ==
    /\ phase = "tiers" /\ stopping[p] = "no" /\ TierMayStop(p)
    /\ StopCalled(p)
    /\ stopping' = [stopping EXCEPT ![p] = IF IsStopped(state[p]) THEN "done" ELSE "stopping"]
    /\ ShutdownStep
    /\ UNCHANGED phase

ProgramStopped(p) ==
    /\ phase = "tiers" /\ stopping[p] = "stopping"
    /\ StopReturns(p)
    /\ stopping' = [stopping EXCEPT ![p] = "done"]
    /\ ShutdownStep
    /\ UNCHANGED phase

\* The IPC server is closed and the daemon exits.
DaemonExits ==
    /\ phase = "tiers" /\ \A p \in Programs : stopping[p] = "done"
    /\ phase' = "exited"
    /\ ShutdownStep
    /\ UNCHANGED <<procs, stopping, reached>>

Exited == phase = "exited" /\ UNCHANGED vars

-----------------------------------------------------------------------------
Reconcile ==
    \/ Look \/ Judge \/ CheckDependency \/ CheckHealth \/ NoteBlocked \/ NoteReady
    \/ RunAction \/ BeginPass \/ LoopEnds

Action(p) == ActionStarts(p) \/ ActionStops(p) \/ ActionStopped(p) \/ ActionReturns(p)

Shutdown == Quiesced \/ DaemonExits \/ \E p \in Programs : StopProgram(p) \/ ProgramStopped(p)

Next ==
    \/ \E p \in Programs : \/ ComesUp(p) \/ HealthChanges(p) \/ Exits(p)
                           \/ Retries(p) \/ GivesUp(p) \/ Action(p)
    \/ Reconcile
    \/ \E c \in Clients : Request(c) \/ Client(c)
    \/ BeginShutdown \/ Shutdown
    \/ Exited

Spec == Init /\ [][Next]_vars

\* Goroutines run; a select that finds stopChan closed each time it looks takes
\* it in the end. Nothing makes a program come up or exit, a client ask, or the
\* daemon be told to stop.
Fairness ==
    /\ WF_vars(Reconcile) /\ SF_vars(LoopEnds)
    /\ \A p \in Programs : WF_vars(Action(p))
    /\ \A c \in Clients : WF_vars(Client(c))
    /\ WF_vars(Shutdown)

FairSpec == Spec /\ Fairness

-----------------------------------------------------------------------------
(* Properties *)

\* reconcile and runAction: the reconciler launches no Start or Stop of a program
\* whose last one has not returned, though requests and crashes change what it
\* wants in the meantime (inflight is its only memory of that).
ActionsDoNotOverlap ==
    [][\A p \in Programs :
          action[p] # "none" => action'[p] \notin {"start", "stop"} \ {action[p]}]_vars

\* noteBlocked (README: "A program that is running has no Reason line").
RunningHasNoReason ==
    \A p \in Programs : state[p] \in {"STARTING", "RUNNING"} => blockedReason[p] = None

\* dependenciesSatisfied: no program is started, and none has ever come up,
\* before each program it depends on reached its condition.
DependenciesCameFirst ==
    \A p \in Programs :
        action[p] = "start" \/ state[p] \in {"STARTING", "RUNNING"} =>
            \A d \in Dependency(p) :
                /\ <<d.on, d.cond>> \in reached
                /\ d.cond = "healthy" => <<d.on, "started">> \in reached

\* stopAllProcesses: by the time a program is stopped, everything that depends
\* on it, directly or through others, is stopped and stays so.
ShutdownOrder ==
    \A p, q \in Programs :
        stopping[p] # "no" /\ (\E d \in Dependency(q) : d.on = p) =>
            stopping[q] = "done" /\ state[q] = "STOPPED"

\* Server.Stop: nothing the reconciler began is still running when the programs
\* are stopped, so nothing brings one back up behind the shutdown.
NothingStartsInShutdown ==
    phase = "tiers" => \A p \in Programs :
        /\ action[p] = "none"
        /\ stopping[p] = "done" => state[p] = "STOPPED"

\* reconcile: a program that is wanted and at rest with its dependencies where
\* they have to be is not left there. No wakeup is lost, and no inflight mark
\* left behind.
WantedIsStarted ==
    \A p \in Programs :
        []<>~ (/\ phase = "up" /\ desired[p] = "RUNNING" /\ state[p] = "STOPPED"
               /\ \A d \in Dependency(p) : Met(p, d) /\ (d.cond = "healthy" => healthy[d.on]))

\* reconcile: a program nobody wants is stopped, whatever it was doing, EXITED
\* in a restart backoff included.
UnwantedIsStopped ==
    \A p \in Programs :
        []<>~ (phase = "up" /\ desired[p] = "STOPPED" /\ state[p] # "STOPPED")

\* Server.Stop runs to its end.
ShutdownEnds == phase = "closing" ~> phase = "exited"

\* The claims below are the source's own and do not hold of it.

\* README: a program "that is simply not wanted" has no reason either
\* (setDesired: "a reason recorded while it was wanted must not outlive the
\* request").
UnwantedHasNoReason ==
    \A p \in Programs : desired[p] = "STOPPED" => blockedReason[p] = None

\* reconcile: no "stopped program [may] spawn a run nobody was asking for ...
\* after the stop was reported as done".
StopStays ==
    \A p \in Programs : p \in stopped => state[p] \notin {"STARTING", "RUNNING"}

\* blockedIndefinitely: a start is answered "cannot start" only for a dependency
\* that "has no prospect of coming up". So, until another request, a program so
\* answered has a dependency that is not where it has to be.
WrittenOffForGood ==
    \A p \in writtenOff : \E d \in Dependency(p) : ~Met(p, d)
=============================================================================

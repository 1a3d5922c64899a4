------------------------------- MODULE Reload -------------------------------
(***************************************************************************)
(* internal/server/reload.go against everything that shares the program    *)
(* set with it: the reconcile loop and its actions, the operators' starts  *)
(* and stops, another reload, and the shutdown.                            *)
(*                                                                         *)
(* A reload replaces Process objects, so a goroutine that holds a pointer  *)
(* may hold one to a Process that is not in s.processes any more.  Here a  *)
(* Process is a name and a generation.  Dependencies, which Supervisor     *)
(* has, are left out: they only delay a start.                             *)
(***************************************************************************)
EXTENDS Naturals, FiniteSets

CONSTANTS Names,      \* the names of programs
          Defs,       \* their definitions
          Autostart,  \* the definitions with autostart
          Files,      \* what the configuration file may say (bound)
          Reloaders,  \* the signal loop and the IPC goroutines of sctl reload
          Hup,        \* of these, the signal loop
          Clients,    \* the IPC goroutines of sctl start
          Workers,    \* the action goroutines (bound: as many at once)
          MaxReloads, \* bound: reloads that get the mutex
          MaxOps,     \* bound: requests the clients make
          None

ASSUME ReloadAssumption ==
    /\ Hup \in Reloaders
    /\ None \notin Defs \cup Names \cup Nat \cup {"RUNNING", "STOPPED"}
    /\ Autostart \subseteq Defs
    /\ Files \subseteq [Names -> Defs \cup {None}]
    /\ MaxReloads \in Nat /\ MaxOps \in Nat

VARIABLES
    config,     \* Server.config: [Names -> a definition, or None]
    processes,  \* Server.processes: [Names -> a generation, or None]
    desired,    \* Server.desired
    inflight,   \* Server.inflight
    st,         \* the state of each Process
    def,        \* the definition each Process was made of
    worker,     \* [Workers -> the action goroutine of runAction]
    rec,        \* the reconcile loop: where it is and what it has read
    reload,     \* [Reloaders -> where Reload is]
    client,     \* [Clients -> the request]
    phase,      \* Server.Stop: "up", "closing", "tiers", "exited"
    stopping,   \* [Names -> the Stop that stopAllProcesses makes]
    reloads, ops,
    told,       \* [Names -> was the last request a stop, and when] (auxiliary)
    hasty       \* a stop for a reload that could not be relied on (auxiliary)

Gens == 0 .. MaxReloads
Objs == Names \X Gens
NoObj == <<None, 0>>
Configs == [Names -> Defs \cup {None}]
Wanted == {"RUNNING", "STOPPED", None}
None2 == [n \in Names |-> None]

serverVars == <<config, processes, desired, inflight>>
histVars == <<reloads, ops, told, hasty>>
vars == <<config, processes, desired, inflight, st, def, worker, rec, reload, client, phase, stopping, reloads, ops, told, hasty>>

Nothing == [at |-> "idle", obj |-> NoObj]
NoReload == [at |-> "idle", gen |-> 0, old |-> None2, new |-> None2, previous |-> None2, todo |-> {}, waits |-> {}]
NoPass == [at |-> "select", todo |-> {}, want |-> None, obj |-> NoObj]

TypeOK ==
    /\ config \in Configs
    /\ processes \in [Names -> Gens \cup {None}]
    /\ desired \in [Names -> Wanted]
    /\ inflight \subseteq Names
    /\ st \in [Objs -> {"STOPPED", "UP", "STOPPING", "EXITED"}]
    /\ def \in [Objs -> Defs \cup {None}]
    /\ worker \in [Workers -> [at : {"idle", "start", "stop", "stopping", "returning"}, obj : Objs \cup {NoObj}]]
    /\ rec \in [at : {"select", "next", "judge", "run", "done"}, todo : SUBSET Names, want : Wanted, obj : Objs \cup {NoObj}]
    /\ reload \in [Reloaders -> [at : {"idle", "locking", "snapshot", "stopping"}, gen : Gens,
                                 old : Configs, new : Configs, previous : [Names -> Wanted],
                                 todo : SUBSET Names, waits : SUBSET Names]]
    /\ client \in [Clients -> [at : {"idle", "want"}, obj : Objs \cup {NoObj}]]
    /\ phase \in {"up", "closing", "tiers", "exited"}
    /\ stopping \in [Names -> [at : {"idle", "due", "called", "done"}, obj : Objs \cup {NoObj}]]
    /\ reloads \in 0 .. MaxReloads /\ ops \in 0 .. MaxOps
    /\ told \in [Names -> {"no", "stop", "late"}] /\ hasty \in BOOLEAN

WantedAtFirst(d) == IF d \in Autostart THEN "RUNNING" ELSE "STOPPED"

\* New: a Process for every program.
Init ==
    /\ config \in Files
    /\ processes = [n \in Names |-> IF config[n] = None THEN None ELSE 0]
    /\ desired = [n \in Names |-> IF config[n] = None THEN None ELSE WantedAtFirst(config[n])]
    /\ inflight = {}
    /\ st = [o \in Objs |-> "STOPPED"]
    /\ def = [o \in Objs |-> IF o[2] = 0 THEN config[o[1]] ELSE None]
    /\ worker = [w \in Workers |-> Nothing] /\ rec = NoPass
    /\ reload = [r \in Reloaders |-> NoReload] /\ client = [c \in Clients |-> Nothing]
    /\ phase = "up" /\ stopping = [n \in Names |-> Nothing]
    /\ reloads = 0 /\ ops = 0 /\ told = [n \in Names |-> "no"] /\ hasty = FALSE

Up == phase # "exited"
Configured == {n \in Names : processes[n] # None}
Current(n) == <<n, processes[n]>>

-----------------------------------------------------------------------------
(* A Process, as Process models it. *)

Exits(o) ==
    /\ Up /\ st[o] = "UP" /\ st' = [st EXCEPT ![o] = "EXITED"]
    /\ UNCHANGED <<serverVars, def, worker, rec, reload, client, phase, stopping, histVars>>

\* The monitor's restart.
Retries(o) ==
    /\ Up /\ st[o] = "EXITED" /\ st' = [st EXCEPT ![o] = "UP"]
    /\ UNCHANGED <<serverVars, def, worker, rec, reload, client, phase, stopping, histVars>>

StopCalled(o) == st' = [st EXCEPT ![o] = IF @ \in {"UP", "STOPPING"} THEN "STOPPING" ELSE "STOPPED"]
StopDone(o) == st' = [st EXCEPT ![o] = IF @ = "STOPPING" THEN "STOPPED" ELSE @]

-----------------------------------------------------------------------------
(* reconcile and runAction. *)

RecStep == Up /\ UNCHANGED <<config, processes, desired, st, def, reload, client, phase, stopping, histVars>>

\* programNames
BeginPass ==
    /\ RecStep /\ rec.at = "select" /\ rec' = [rec EXCEPT !.at = "next", !.todo = Configured]
    /\ UNCHANGED <<inflight, worker>>

LoopEnds ==
    /\ RecStep /\ rec.at = "select" /\ phase # "up" /\ rec' = [rec EXCEPT !.at = "done"]
    /\ UNCHANGED <<inflight, worker>>

\* What is wanted, the pointer and the mark, under one lock.
Look ==
    /\ RecStep /\ rec.at = "next" /\ UNCHANGED <<inflight, worker>>
    /\ IF rec.todo = {} THEN rec' = NoPass
       ELSE \E n \in rec.todo :
              rec' = IF n \in inflight \/ processes[n] = None
                     THEN [rec EXCEPT !.todo = @ \ {n}]
                     ELSE [at |-> "judge", todo |-> rec.todo \ {n}, want |-> desired[n], obj |-> Current(n)]

Next1 == [rec EXCEPT !.at = "next", !.want = None, !.obj = NoObj]

\* The Process is asked by the pointer.
Judge ==
    /\ RecStep /\ rec.at = "judge" /\ UNCHANGED <<inflight, worker>>
    /\ rec' = IF \/ rec.want = "RUNNING" /\ st[rec.obj] = "STOPPED"
                 \/ rec.want = "STOPPED" /\ st[rec.obj] \notin {"STOPPED", "STOPPING"}
              THEN [rec EXCEPT !.at = "run"] ELSE Next1

RunAction ==
    /\ RecStep /\ rec.at = "run"
    /\ \E w \in Workers :
         /\ worker[w].at = "idle"
         /\ worker' = [worker EXCEPT ![w] = [at |-> IF rec.want = "RUNNING" THEN "start" ELSE "stop", obj |-> rec.obj]]
    /\ inflight' = inflight \cup {rec.obj[1]}
    /\ rec' = Next1

Reconcile == BeginPass \/ LoopEnds \/ Look \/ Judge \/ RunAction

WorkerStep(w) == Up /\ UNCHANGED <<config, processes, desired, def, rec, reload, client, phase, stopping, histVars>>

\* Start is refused while the program is up, and may fail.
ActionStarts(w) ==
    /\ WorkerStep(w) /\ worker[w].at = "start"
    /\ worker' = [worker EXCEPT ![w].at = "returning"] /\ UNCHANGED inflight
    /\ IF st[worker[w].obj] = "UP" THEN UNCHANGED st
       ELSE \E s \in {"UP", "EXITED"} : st' = [st EXCEPT ![worker[w].obj] = s]

ActionStops(w) ==
    /\ WorkerStep(w) /\ worker[w].at = "stop" /\ StopCalled(worker[w].obj)
    /\ worker' = [worker EXCEPT ![w].at = "stopping"] /\ UNCHANGED inflight

ActionStopped(w) ==
    /\ WorkerStep(w) /\ worker[w].at = "stopping" /\ StopDone(worker[w].obj)
    /\ worker' = [worker EXCEPT ![w].at = "returning"] /\ UNCHANGED inflight

\* By name, whatever Process has it now.
LandedIfCurrent(o) == IF processes[o[1]] = o[2] THEN inflight \ {o[1]} ELSE inflight
Landed(o) == inflight \ {o[1]}

ActionReturns(w) ==
    /\ WorkerStep(w) /\ worker[w].at = "returning"
    /\ inflight' = Landed(worker[w].obj)
    /\ worker' = [worker EXCEPT ![w] = Nothing] /\ UNCHANGED st

Action(w) == ActionStarts(w) \/ ActionStops(w) \/ ActionStopped(w) \/ ActionReturns(w)

-----------------------------------------------------------------------------
(* Reload, under reloadMutex. *)

Others == UNCHANGED <<st, worker, rec, client, phase, stopping, ops>>

Removed(old, new) == {n \in Names : old[n] # None /\ new[n] = None}
Added(old, new)   == {n \in Names : old[n] = None /\ new[n] # None}
Changed(old, new) == {n \in Names : old[n] # None /\ new[n] # None /\ old[n] # new[n]}
\* Those that reload r stops, to drop or replace them.
Dropped(r) == Removed(reload[r].old, reload[r].new) \cup Changed(reload[r].old, reload[r].new)

Ask(r) ==
    /\ Up /\ reload[r].at = "idle" /\ reload' = [reload EXCEPT ![r].at = "locking"]
    /\ Others /\ UNCHANGED <<serverVars, def, reloads, told, hasty>>

MayLockUnguarded(r) == TRUE
MayLock(r) == \A q \in Reloaders : reload[q].at \in {"idle", "locking"}

\* The file is read and compared with what the last reload left.
Plan(r) ==
    /\ Up /\ reload[r].at = "locking" /\ MayLock(r) /\ reloads < MaxReloads
    /\ reloads' = reloads + 1
    /\ \E new \in Files \ {config} :
         reload' = [reload EXCEPT ![r] = [NoReload EXCEPT !.at = "snapshot", !.gen = reloads + 1, !.old = config, !.new = new]]
    /\ Others /\ UNCHANGED <<serverVars, def, told, hasty>>

\* Unreadable, invalid, circular, a changed daemon setting, or nothing new.
Refused(r) ==
    /\ Up /\ reload[r].at = "locking" /\ MayLock(r)
    /\ reload' = [reload EXCEPT ![r] = NoReload]
    /\ Others /\ UNCHANGED <<serverVars, def, reloads, told, hasty>>

Snapshot(r) ==
    /\ Up /\ reload[r].at = "snapshot"
    /\ reload' = [reload EXCEPT ![r].at = "stopping", ![r].previous = desired, ![r].todo = Dropped(r)]
    /\ Others /\ UNCHANGED <<serverVars, def, reloads, told, hasty>>

\* A start that was decided and is still to come.
StartPending(o) == \/ rec.obj = o /\ rec.want = "RUNNING"
                   \/ \E w \in Workers : worker[w] = [at |-> "start", obj |-> o]

\* stopForReload, for one name: setDesired, and a goroutine that waits.
StopNext(r) ==
    /\ Up /\ reload[r].at = "stopping"
    /\ \E n \in reload[r].todo :
         /\ desired' = [desired EXCEPT ![n] = "STOPPED"]
         /\ reload' = [reload EXCEPT ![r].todo = @ \ {n}, ![r].waits = @ \cup {n}]
         /\ hasty' = (hasty \/ StartPending(Current(n)))
    /\ Others /\ UNCHANGED <<config, processes, inflight, def, reloads, told>>

\* awaitState ends: the program is stopped, ...
Awaited(r, n) ==
    /\ Up /\ n \in reload[r].waits /\ st[Current(n)] = "STOPPED"
    /\ reload' = [reload EXCEPT ![r].waits = @ \ {n}]
    /\ Others /\ UNCHANGED <<serverVars, def, reloads, told, hasty>>

\* ... or the deadline has passed, or the daemon is shutting down.
DeadlineForgotten == FALSE
Deadline == TRUE
GivesUp(r, n) ==
    /\ Up /\ n \in reload[r].waits /\ (Deadline \/ phase # "up")
    /\ reload' = [reload EXCEPT ![r].waits = @ \ {n}] /\ hasty' = TRUE
    /\ Others /\ UNCHANGED <<serverVars, def, reloads, told>>

WaitsDoneUnawaited(r) == TRUE
WaitsDone(r) == reload[r].waits = {}
WantedAgainByDefault(r, n) == WantedAtFirst(reload[r].new[n])
WantedAgain(r, n) == reload[r].previous[n]

\* applyPrograms, with processMutex held.
Apply(r) ==
    LET new == reload[r].new
        gone == Removed(reload[r].old, new)
        changed == Changed(reload[r].old, new)
        made == Added(reload[r].old, new) \cup changed IN
    /\ Up /\ reload[r].at = "stopping" /\ reload[r].todo = {} /\ WaitsDone(r)
    /\ processes' = [n \in Names |-> IF n \in gone THEN None ELSE IF n \in made THEN reload[r].gen ELSE processes[n]]
    /\ def' = [o \in Objs |-> IF o[1] \in made /\ o[2] = reload[r].gen THEN new[o[1]] ELSE def[o]]
    /\ desired' = [n \in Names |-> IF n \in gone THEN None ELSE IF n \in changed THEN WantedAgain(r, n)
                                  ELSE IF n \in made THEN WantedAtFirst(new[n]) ELSE desired[n]]
    /\ inflight' = inflight \ gone
    /\ config' = new
    /\ told' = [n \in Names |-> IF n \in gone THEN "no" ELSE told[n]]
    /\ reload' = [reload EXCEPT ![r] = NoReload]
    /\ Others /\ UNCHANGED <<reloads, hasty>>

ReloadStep(r) ==
    \/ Plan(r) \/ Refused(r) \/ Snapshot(r) \/ StopNext(r) \/ Apply(r)
    \/ \E n \in Names : Awaited(r, n) \/ GivesUp(r, n)

-----------------------------------------------------------------------------
(* Operators. Waiting for the outcome only reads, and is left out. *)

Redefining(n) == \E r \in Reloaders : reload[r].at = "stopping" /\ n \in Dropped(r)

\* StopProcess: setDesired(DesiredStopped)
AskStop(n) ==
    /\ Up /\ ops < MaxOps /\ ops' = ops + 1 /\ processes[n] # None
    /\ desired' = [desired EXCEPT ![n] = "STOPPED"]
    /\ told' = [told EXCEPT ![n] = IF Redefining(n) THEN "late" ELSE "stop"]
    /\ UNCHANGED <<config, processes, inflight, st, def, worker, rec, reload, client, phase, stopping, reloads, hasty>>

\* StartProcess: a program at rest is reset, by the pointer, ...
AskStart(c) ==
    /\ Up /\ client[c].at = "idle" /\ ops < MaxOps /\ ops' = ops + 1
    /\ \E n \in Configured :
         /\ client' = [client EXCEPT ![c] = [at |-> "want", obj |-> Current(n)]]
         /\ st' = [st EXCEPT ![Current(n)] = IF @ = "EXITED" THEN "STOPPED" ELSE @]
    /\ UNCHANGED <<serverVars, def, worker, rec, reload, phase, stopping, reloads, told, hasty>>

\* ... and then wanted, by its name, if there still is one.
Want(c) ==
    LET n == client[c].obj[1] IN
    /\ Up /\ client[c].at = "want" /\ client' = [client EXCEPT ![c] = Nothing]
    /\ IF processes[n] = None THEN UNCHANGED <<desired, told, hasty>>
       ELSE /\ desired' = [desired EXCEPT ![n] = "RUNNING"] /\ told' = [told EXCEPT ![n] = "no"]
            /\ hasty' = (hasty \/ Redefining(n))
    /\ UNCHANGED <<config, processes, inflight, st, def, worker, rec, reload, phase, stopping, reloads, ops>>

-----------------------------------------------------------------------------
(* Server.Stop *)

StopStep == UNCHANGED <<serverVars, def, worker, rec, reload, client, histVars>>

\* The signal loop takes a SIGTERM when it is not in a reload.
BeginShutdown ==
    /\ phase = "up" /\ reload[Hup].at = "idle" /\ phase' = "closing" /\ StopStep /\ UNCHANGED <<st, stopping>>

\* The loop has ended and its actions have returned; the graph as it is now.
Quiesced ==
    /\ phase = "closing" /\ rec.at = "done" /\ \A w \in Workers : worker[w].at = "idle"
    /\ phase' = "tiers"
    /\ stopping' = [n \in Names |-> [Nothing EXCEPT !.at = IF config[n] = None THEN "done" ELSE "due"]]
    /\ StopStep /\ UNCHANGED st

StopProgram(n) ==
    /\ phase = "tiers" /\ stopping[n].at = "due"
    /\ IF processes[n] = None THEN stopping' = [stopping EXCEPT ![n].at = "done"] /\ UNCHANGED st
       ELSE stopping' = [stopping EXCEPT ![n] = [at |-> "called", obj |-> Current(n)]] /\ StopCalled(Current(n))
    /\ StopStep /\ UNCHANGED phase

ProgramStopped(n) ==
    /\ phase = "tiers" /\ stopping[n].at = "called" /\ StopDone(stopping[n].obj)
    /\ stopping' = [stopping EXCEPT ![n] = [Nothing EXCEPT !.at = "done"]]
    /\ StopStep /\ UNCHANGED phase

\* The IPC server waits for its requests, nobody for the signal loop.
DaemonExits ==
    /\ phase = "tiers" /\ \A n \in Names : stopping[n].at = "done"
    /\ \A r \in Reloaders \ {Hup} : reload[r].at = "idle"
    /\ \A c \in Clients : client[c].at = "idle"
    /\ phase' = "exited" /\ StopStep /\ UNCHANGED <<st, stopping>>

Shutdown == Quiesced \/ DaemonExits \/ \E n \in Names : StopProgram(n) \/ ProgramStopped(n)

Exited == phase = "exited" /\ UNCHANGED vars

Next ==
    \/ \E o \in Objs : Exits(o) \/ Retries(o)
    \/ Reconcile \/ \E w \in Workers : Action(w)
    \/ \E r \in Reloaders : Ask(r) \/ ReloadStep(r)
    \/ \E n \in Names : AskStop(n)
    \/ \E c \in Clients : AskStart(c) \/ Want(c)
    \/ BeginShutdown \/ Shutdown \/ Exited

Spec == Init /\ [][Next]_vars

\* Goroutines run, select takes a closed stopChan in the end, deadlines pass,
\* and a sync.Mutex starves nobody.
Fairness ==
    /\ WF_vars(Reconcile) /\ SF_vars(LoopEnds)
    /\ \A w \in Workers : WF_vars(Action(w))
    /\ \A r \in Reloaders : WF_vars(ReloadStep(r))
    /\ SF_vars(Plan(Hup) \/ Refused(Hup))
    /\ \A c \in Clients : WF_vars(Want(c))
    /\ WF_vars(Shutdown)

FairSpec == Spec /\ Fairness

-----------------------------------------------------------------------------
(* Properties. *)

\* Under reloadMutex a plan is applied to what it was made against: the
\* Processes, what is wanted and the configuration stay about the same
\* programs, each Process of the present definition (reload.go:24-27, 104-132).
ProgramsAreInStep ==
    \A n \in Names :
        /\ config[n] = None <=> processes[n] = None
        /\ config[n] = None <=> desired[n] = None
        /\ config[n] # None => def[Current(n)] = config[n]

\* "Programs that are unchanged keep running untouched" (reload.go:19): no
\* step of a reload touches the Process, or what is wanted, of one.
UnchangedIsUntouched ==
    [][\A r \in Reloaders : reload'[r] # reload[r] => \A n \in Names :
        (reload[r].at # "idle" /\ reload[r].old[n] = reload[r].new[n] /\ reload[r].new[n] # None) =>
            processes'[n] = processes[n] /\ desired'[n] = desired[n] /\ st'[Current(n)] = st[Current(n)]]_vars

\* "A program that is going away, or is about to be redefined, has to stop
\* before it can be dropped or replaced" (reload.go:66-67).  It does, unless a
\* wait gave up, a start had been decided before the reload asked for the stop,
\* or an operator asked for another; and then a shutdown leaves nothing behind.
DroppedHasNoChild ==
    ~hasty => /\ \A o \in Objs : st[o] # "STOPPED" => processes[o[1]] = o[2]
              /\ phase = "exited" => \A o \in Objs : st[o] \notin {"UP", "STOPPING"}

\* "A program that was deliberately stopped must not come back just because its
\* definition moved" (reload.go:60-61), for a stop that came before the reload
\* took its snapshot, ...
StopSurvives == \A n \in Names : told[n] = "stop" => desired[n] # "RUNNING"

\* ... and for any: "Whatever an operator asked for survives the reload".  A stop
\* that comes while the reload waits for programs to end is undone by it.
OperatorsWordSurvives == \A n \in Names : told[n] # "no" => desired[n] # "RUNNING"

\* What is wanted is started, whichever Process it has by now: no mark in
\* inflight of an earlier one is left in its way (reload.go:20-22, :110).
ReplacedIsStarted ==
    \A n \in Names :
        []<>~(phase = "up" /\ desired[n] = "RUNNING" /\ processes[n] # None /\ st[Current(n)] = "STOPPED")

\* The signal loop, which a reload keeps from its next signal, a SIGTERM maybe,
\* gets back to it, whatever else reloads, starts and stops (server.go:444-451).
ReloadEnds == reload[Hup].at # "idle" ~> reload[Hup].at = "idle" \/ phase = "exited"

\* "marks the program busy so that the next pass does not start a second one"
\* (reconcile.go:126-127).  A Process that was removed and added again loses its
\* mark when the action of the removed one returns.
OneActionAtATime ==
    \A v, w \in Workers : worker[v].at # "idle" /\ worker[v].obj = worker[w].obj => v = w
=============================================================================

---------------------------- MODULE ProcessProofs ---------------------------
(***************************************************************************)
(* What Process guarantees for any number of runs, clients and restarts:   *)
(* first with every overlap of Start, Stop and the goroutines of a run     *)
(* allowed, and then, in the second half, as long as no Stop has           *)
(* overlapped a start (Calm).                                              *)
(***************************************************************************)
EXTENDS Process, FiniteSetTheorems, TLAPS

(* Type correctness *)

\* A new Process is well typed.
LEMMA InitTypeOK == Init => TypeOK
  <1> SUFFICES ASSUME Init PROVE TypeOK
    OBVIOUS
  <1>1. proc \in Proc
    BY DEF Init, Proc, States, Run0
  <1>2. closed \in Closed /\ NoLoc \in Loc /\ runs \in Run0
    BY DEF Init, Closed, NoLoc, Loc, States, Run0
  <1> QED
    BY <1>1, <1>2 DEF Init, TypeOK, StartSteps

\* Start keeps the types, whoever runs it.
LEMMA StartTypeOK ==
    ASSUME TypeOK, NEW t \in {Reconciler} \cup Runs, StartStep(t)
    PROVE  TypeOK'
  <1>1. /\ t \in Threads
        /\ proc \in Proc /\ closed \in Closed
        /\ loc \in [Threads -> Loc] /\ loc[t] \in Loc
    BY DEF TypeOK, Threads, Callers
  <1>2. CASE Enter(t)
    <2> runs < MaxRuns
      BY <1>2, ProcessAssumption DEF TypeOK, Enter, RunLeftFor, Run0, Runs
    <2>1. runs + 1 \in Runs /\ runs + 1 # 0
      BY ProcessAssumption DEF TypeOK, Run0, Runs
    <2>2. proc' \in Proc
      BY <1>2, <1>1, <2>1 DEF Enter, FreshRun, Proc, States, Run0
    <2>3. closed' \in Closed
      BY <1>2, <1>1, <2>1 DEF Enter, FreshRun, Closed, Proc, Run0, Loc
    <2>4. loc' \in [Threads -> Loc]
      BY <1>2, <1>1, <2>1 DEF Enter, FreshRun, Loc, NoLoc, Proc, Run0, States
    <2>5. loc'[t].cmd # 0
      BY <1>2, <1>1, <2>1 DEF Enter, NoLoc
    <2> QED
      BY <1>2, <1>1, <2>1, <2>2, <2>3, <2>4, <2>5
      DEF Enter, FreshRun, TypeOK, At, others, StartSteps, StopSteps, ExitSteps, Run0
  <1>3. CASE EnterRefused(t)
    <2> QED
      BY <1>3, <1>1
      DEF EnterRefused, TypeOK, At, others, StartSteps, StopSteps, ExitSteps
  <1>4. CASE Starting(t)
    <2>1. proc' \in Proc
      BY <1>4, <1>1 DEF Starting, SetState, Proc, States, Run0
    <2> QED
      BY <1>4, <1>1, <2>1
      DEF Starting, SetState, TypeOK, At, others, StartSteps, StopSteps, ExitSteps
  <1>5. CASE StartLogging(t)
    <2>1. loc[t].cmd \in Runs
      BY <1>5, <1>1 DEF TypeOK, StartLogging, At, Loc, Run0, StartSteps
    <2>2. proc' \in Proc
      BY <1>5, <1>1, <2>1 DEF StartLogging, Proc, States, Run0
    <2> QED
      BY <1>5, <1>1, <2>1, <2>2
      DEF StartLogging, TypeOK, At, others, StartSteps, StopSteps, ExitSteps
  <1>6. CASE StartFails(t)
    <2> QED
      BY <1>6, <1>1
      DEF StartFails, TypeOK, At, others, StartSteps, StopSteps, ExitSteps
  <1>7. CASE Spawn(t)
    <2>1. loc[t].cmd \in Runs
      BY <1>7, <1>1 DEF TypeOK, Spawn, At, Loc, Run0, StartSteps
    <2> QED
      BY <1>7, <1>1, <2>1
      DEF Spawn, TypeOK, At, others, StartSteps, StopSteps, ExitSteps
  <1>8. CASE RecordRun(t)
    <2>1. loc[t].cmd \in Runs
      BY <1>8, <1>1 DEF TypeOK, RecordRun, At, Loc, Run0, StartSteps
    <2>2. proc' \in Proc
      BY <1>8, <1>1, <2>1 DEF RecordRun, Proc, States, Run0
    <2> QED
      BY <1>8, <1>1, <2>1, <2>2
      DEF RecordRun, TypeOK, At, others, StartSteps, StopSteps, ExitSteps
  <1>9. CASE StartHealthChecks(t)
    <2>1. loc[t].cmd \in Runs
      BY <1>9, <1>1 DEF TypeOK, StartHealthChecks, At, Loc, Run0, StartSteps
    <2>2. proc' \in Proc
      BY <1>9, <1>1, <2>1 DEF StartHealthChecks, Proc, States, Run0
    <2> QED
      BY <1>9, <1>1, <2>1, <2>2
      DEF StartHealthChecks, TypeOK, At, others, StartSteps, StopSteps, ExitSteps
  <1>10. CASE HealthStarting(t)
    <2>1. loc[t].cmd \in Runs
      BY <1>10, <1>1 DEF TypeOK, HealthStarting, At, Loc, Run0, StartSteps
    <2>2. proc' \in Proc
      BY <1>10, <1>1, <2>1 DEF HealthStarting, Proc, States, Run0
    <2> QED
      BY <1>10, <1>1, <2>1, <2>2
      DEF HealthStarting, TypeOK, At, others, StartSteps, StopSteps, ExitSteps
  <1>11. CASE Launch(t)
    <2>1. loc[t].cmd \in Runs
      BY <1>11, <1>1 DEF TypeOK, Launch, At, Loc, Run0, StartSteps
    <2>2. loc' \in [Threads -> Loc]
      BY <1>11, <1>1, <2>1 DEF Launch, Returned, Loc, NoLoc, Proc, Run0, States
    <2> QED
      BY <1>11, <1>1, <2>1, <2>2
      DEF Launch, Returned, TypeOK, At, others, NoLoc, StartSteps, StopSteps, ExitSteps
  <1>12. CASE Abort(t)
    <2>1. loc[t].cmd \in Runs
      BY <1>12, <1>1 DEF TypeOK, Abort, At, Loc, Run0, StartSteps
    <2>2. proc' \in Proc
      BY <1>12, <1>1, <2>1 DEF Abort, Proc, States, Run0
    <2>3. closed' \in Closed
      BY <1>12, <1>1, <2>1 DEF Abort, Closed, Proc, Run0, Loc
    <2> QED
      BY <1>12, <1>1, <2>1, <2>2, <2>3
      DEF Abort, TypeOK, At, others, StartSteps, StopSteps, ExitSteps
  <1>13. CASE StartFatal(t)
    <2>1. proc' \in Proc
      BY <1>13, <1>1 DEF StartFatal, SetState, Proc, States, Run0
    <2>2. loc' \in [Threads -> Loc]
      BY <1>13, <1>1 DEF StartFatal, SetState, Loc, NoLoc, Proc, Run0, States
    <2> QED
      BY <1>13, <1>1, <2>1, <2>2
      DEF StartFatal, SetState, TypeOK, At, others, NoLoc, StartSteps, StopSteps, ExitSteps
  <1> QED
    BY <1>2, <1>3, <1>4, <1>5, <1>6, <1>7, <1>8, <1>9, <1>10, <1>11, <1>12, <1>13 DEF StartStep

\* So does Stop.
LEMMA StopTypeOK ==
    ASSUME TypeOK, NEW c \in Callers, StopStep(c)
    PROVE  TypeOK'
  <1>1. /\ c \in Threads
        /\ proc \in Proc /\ closed \in Closed
        /\ loc \in [Threads -> Loc] /\ loc[c] \in Loc
    BY DEF TypeOK, Threads, Callers
  <1>2. CASE BeginStop(c)
    <2>1. proc' \in Proc
      BY <1>2, <1>1 DEF BeginStop, MarkStopped, Proc, States, Run0, Loc
    <2>2. closed' \in Closed
      BY <1>2, <1>1 DEF BeginStop, MarkStopped, Closed, Proc, Run0, Loc
    <2>3. loc' \in [Threads -> Loc]
      BY <1>2, <1>1 DEF BeginStop, MarkStopped, Loc, NoLoc, Proc, Run0, States
    <2> QED
      BY <1>2, <1>1, <2>1, <2>2, <2>3
      DEF BeginStop, MarkStopped, TypeOK, At, others, NoLoc, StartSteps, StopSteps, ExitSteps
  <1>3. CASE TakeHealth(c, "deciding")
    <2>1. proc' \in Proc
      BY <1>3, <1>1 DEF TakeHealth, AfterTaking, HealthCanceled, Proc, States, Run0
    <2>2. closed' \in Closed
      BY <1>3, <1>1 DEF TakeHealth, AfterTaking, HealthCanceled, Closed, Proc, Run0, Loc
    <2>3. loc' \in [Threads -> Loc]
      BY <1>3, <1>1 DEF TakeHealth, AfterTaking, HealthCanceled, Loc, NoLoc, Proc, Run0, States
    <2> QED
      BY <1>3, <1>1, <2>1, <2>2, <2>3
     
      DEF TakeHealth, AfterTaking, HealthCanceled, TypeOK, At, others, StartSteps, StopSteps,
          ExitSteps
  <1>4. CASE AwaitProbe(c, "deciding")
    <2>1. proc' \in Proc
      BY <1>4, <1>1 DEF AwaitProbe, Proc, States, Run0
    <2>2. loc' \in [Threads -> Loc]
      BY <1>4, <1>1 DEF AwaitProbe, Loc, NoLoc, Proc, Run0, States
    <2> QED
      BY <1>4, <1>1, <2>1, <2>2
      DEF AwaitProbe, TypeOK, At, others, StartSteps, StopSteps, ExitSteps
  <1>5. CASE NothingRunning(c)
    <2>1. proc' \in Proc
      BY <1>5, <1>1 DEF NothingRunning, Proc, States, Run0
    <2>2. closed' \in Closed
      BY <1>5, <1>1 DEF NothingRunning, Closed, Proc, Run0, Loc
    <2> QED
      BY <1>5, <1>1, <2>1, <2>2
      DEF NothingRunning, TypeOK, At, others, StartSteps, StopSteps, ExitSteps
  <1>6. CASE Resting(c)
    <2>1. proc' \in Proc
      BY <1>6, <1>1 DEF Resting, SetState, Proc, States, Run0
    <2>2. loc' \in [Threads -> Loc]
      BY <1>6, <1>1 DEF Resting, SetState, Loc, NoLoc, Proc, Run0, States
    <2> QED
      BY <1>6, <1>1, <2>1, <2>2
      DEF Resting, SetState, TypeOK, At, others, NoLoc, StartSteps, StopSteps, ExitSteps
  <1>7. CASE Stopping(c)
    <2>1. proc' \in Proc
      BY <1>7, <1>1 DEF Stopping, SetState, Proc, States, Run0
    <2> QED
      BY <1>7, <1>1, <2>1
      DEF Stopping, SetState, TypeOK, At, others, StartSteps, StopSteps, ExitSteps
  <1>8. CASE MonitorReports(c)
    <2>1. loc[c].cmd \in Runs
      BY <1>8, <1>1 DEF TypeOK, MonitorReports, At, Loc, Run0
    <2> QED
      BY <1>8, <1>1, <2>1
      DEF MonitorReports, TypeOK, At, others, StartSteps, StopSteps, ExitSteps
  <1>9. CASE StopTimeout(c)
    <2>1. loc[c].cmd \in Runs
      BY <1>9, <1>1 DEF TypeOK, StopTimeout, At, Loc, Run0
    <2> QED
      BY <1>9, <1>1, <2>1
      DEF StopTimeout, TypeOK, At, others, StartSteps, StopSteps, ExitSteps
  <1>10. CASE GiveUp(c)
    <2> QED
      BY <1>10, <1>1
      DEF GiveUp, TypeOK, At, others, StartSteps, StopSteps, ExitSteps
  <1>11. CASE Finish(c)
    <2>1. proc' \in Proc
      BY <1>11, <1>1 DEF Finish, Proc, States, Run0
    <2>2. closed' \in Closed
      BY <1>11, <1>1 DEF Finish, Closed, Proc, Run0, Loc
    <2>3. loc' \in [Threads -> Loc]
      BY <1>11, <1>1 DEF Finish, Loc, NoLoc, Proc, Run0, States
    <2> QED
      BY <1>11, <1>1, <2>1, <2>2, <2>3
      DEF Finish, TypeOK, At, others, NoLoc, StartSteps, StopSteps, ExitSteps
  <1> QED
    BY <1>2, <1>3, <1>4, <1>5, <1>6, <1>7, <1>8, <1>9, <1>10, <1>11 DEF StopStep

\* So does the monitor.
LEMMA MonitorTypeOK ==
    ASSUME TypeOK, NEW r \in Runs, MonitorStep(r)
    PROVE  TypeOK'
  <1>1. /\ r \in Threads
        /\ proc \in Proc /\ closed \in Closed
        /\ loc \in [Threads -> Loc] /\ loc[r] \in Loc
    BY DEF TypeOK, Threads, Callers
  <1>2. CASE ExitArrives(r)
    <2> QED
      BY <1>2, <1>1
      DEF ExitArrives, TypeOK, At, others, StartSteps, StopSteps, ExitSteps
  <1>3. CASE TakeHealth(r, "unlogging")
    <2>1. proc' \in Proc
      BY <1>3, <1>1 DEF TakeHealth, AfterTaking, HealthCanceled, Proc, States, Run0
    <2>2. closed' \in Closed
      BY <1>3, <1>1 DEF TakeHealth, AfterTaking, HealthCanceled, Closed, Proc, Run0, Loc
    <2>3. loc' \in [Threads -> Loc]
      BY <1>3, <1>1 DEF TakeHealth, AfterTaking, HealthCanceled, Loc, NoLoc, Proc, Run0, States
    <2> QED
      BY <1>3, <1>1, <2>1, <2>2, <2>3
     
      DEF TakeHealth, AfterTaking, HealthCanceled, TypeOK, At, others, StartSteps, StopSteps,
          ExitSteps
  <1>4. CASE AwaitProbe(r, "unlogging")
    <2>1. proc' \in Proc
      BY <1>4, <1>1 DEF AwaitProbe, Proc, States, Run0
    <2>2. loc' \in [Threads -> Loc]
      BY <1>4, <1>1 DEF AwaitProbe, Loc, NoLoc, Proc, Run0, States
    <2> QED
      BY <1>4, <1>1, <2>1, <2>2
      DEF AwaitProbe, TypeOK, At, others, StartSteps, StopSteps, ExitSteps
  <1>5. CASE StopLogging(r)
    <2>1. proc' \in Proc
      BY <1>5, <1>1 DEF StopLogging, Proc, States, Run0
    <2> QED
      BY <1>5, <1>1, <2>1
      DEF StopLogging, TypeOK, At, others, StartSteps, StopSteps, ExitSteps
  <1>6. CASE RecordExit(r)
    <2>1. proc' \in Proc
      BY <1>6, <1>1 DEF RecordExit, Proc, States, Run0
    <2>2. loc' \in [Threads -> Loc]
      BY <1>6, <1>1 DEF RecordExit, Loc, NoLoc, Proc, Run0, States
    <2> QED
      BY <1>6, <1>1, <2>1, <2>2
      DEF RecordExit, TypeOK, At, others, StartSteps, StopSteps, ExitSteps
  <1>7. CASE Settle(r)
    <2>1. loc' \in [Threads -> Loc]
      BY <1>7, <1>1 DEF Settle, Loc, NoLoc, Run0, States
    <2> QED
      BY <1>7, <1>1, <2>1
      DEF Settle, SettledTo, TypeOK, At, others, NoLoc, StartSteps, StopSteps, ExitSteps
  <1>8. CASE PublishStopped(r)
    <2>1. proc' \in Proc
      BY <1>8, <1>1 DEF PublishStopped, SetState, Proc, States, Run0
    <2> QED
      BY <1>8, <1>1, <2>1
      DEF PublishStopped, SetState, TypeOK, At, others, StartSteps, StopSteps, ExitSteps
  <1>9. CASE PublishExited(r)
    <2>1. proc' \in Proc
      BY <1>9, <1>1 DEF PublishExited, SetState, Proc, States, Run0
    <2> QED
      BY <1>9, <1>1, <2>1
      DEF PublishExited, SetState, TypeOK, At, others, StartSteps, StopSteps, ExitSteps
  <1>10. CASE Latch(r)
    <2>1. proc' \in Proc
      BY <1>10, <1>1 DEF Latch, Proc, States, Run0
    <2> QED
      BY <1>10, <1>1, <2>1
      DEF Latch, TypeOK, At, others, StartSteps, StopSteps, ExitSteps
  <1>11. CASE Exiting(r)
    <2>1. proc' \in Proc
      BY <1>11, <1>1 DEF Exiting, SetState, Proc, States, Run0
    <2> QED
      BY <1>11, <1>1, <2>1
      DEF Exiting, SetState, TypeOK, At, others, StartSteps, StopSteps, ExitSteps
  <1>12. CASE Policy(r)
    <2>1. proc' \in Proc
      BY <1>12, <1>1 DEF Policy, Proc, States, Run0
    <2> QED
      BY <1>12, <1>1, <2>1
      DEF Policy, TypeOK, At, others, StartSteps, StopSteps, ExitSteps
  <1>13. CASE PublishFatal(r)
    <2>1. proc' \in Proc
      BY <1>13, <1>1 DEF PublishFatal, SetState, Proc, States, Run0
    <2> QED
      BY <1>13, <1>1, <2>1
      DEF PublishFatal, SetState, TypeOK, At, others, StartSteps, StopSteps, ExitSteps
  <1>14. CASE BackoffCanceled(r)
    <2> QED
      BY <1>14, <1>1
      DEF BackoffCanceled, TypeOK, At, others, StartSteps, StopSteps, ExitSteps
  <1>15. CASE BackoffElapsed(r)
    <2> QED
      BY <1>15, <1>1
      DEF BackoffElapsed, TypeOK, At, others, StartSteps, StopSteps, ExitSteps
  <1>16. CASE CheckCanceled(r)
    <2> QED
      BY <1>16, <1>1
      DEF CheckCanceled, TypeOK, At, others, StartSteps, StopSteps, ExitSteps
  <1>17. CASE Retry(r)
    <2>1. proc' \in Proc
      BY <1>17, <1>1 DEF Retry, SetState, Proc, States, Run0
    <2> QED
      BY <1>17, <1>1, <2>1
      DEF Retry, SetState, TypeOK, At, others, StartSteps, StopSteps, ExitSteps
  <1> QED
    BY <1>2, <1>3, <1>4, <1>5, <1>6, <1>7, <1>8, <1>9, <1>10, <1>11, <1>12, <1>13, <1>14,
       <1>15, <1>16, <1>17
    DEF MonitorStep

\* So do the start waiter and the probe loop.
LEMMA HelperTypeOK ==
    ASSUME TypeOK, NEW r \in Runs, HelperStep(r)
    PROVE  TypeOK'
  <1>1. /\ r \in Threads
        /\ proc \in Proc /\ closed \in Closed
        /\ loc \in [Threads -> Loc] /\ loc[r] \in Loc
    BY DEF TypeOK, Threads, Callers
  <1>2. CASE WaiterQuits(r)
    <2> QED
      BY <1>2, <1>1
      DEF WaiterQuits, TypeOK, At, others, StartSteps, StopSteps, ExitSteps
  <1>3. CASE WaiterElapses(r)
    <2> QED
      BY <1>3, <1>1
      DEF WaiterElapses, TypeOK, At, others, StartSteps, StopSteps, ExitSteps
  <1>4. CASE Promote(r)
    <2>1. proc' \in Proc
      BY <1>4, <1>1 DEF Promote, TypeOK, Proc, States
    <2> QED
      BY <1>4, <1>1, <2>1
      DEF Promote, TypeOK, At, others, StartSteps, StopSteps, ExitSteps
  <1>5. CASE PublishHealth(r)
    <2>1. proc' \in Proc
      BY <1>5, <1>1 DEF PublishHealth, TypeOK, Proc, States
    <2> QED
      BY <1>5, <1>1, <2>1
      DEF PublishHealth, TypeOK, At, others, StartSteps, StopSteps, ExitSteps
  <1>6. CASE ProbeEnds(r)
    <2> QED
      BY <1>6, <1>1
      DEF ProbeEnds, TypeOK, At, others, StartSteps, StopSteps, ExitSteps
  <1> QED
    BY <1>2, <1>3, <1>4, <1>5, <1>6 DEF HelperStep

\* So do the child, and whoever calls Start and Stop.
LEMMA EnvironmentTypeOK == ASSUME TypeOK, Environment PROVE TypeOK'
  <1>1. Reconciler \in Threads /\ Shutdown \in Threads /\ Clients \subseteq Threads
    BY DEF Threads, Callers
  <1> USE <1>1 DEF TypeOK, At, others, StartSteps
  <1>2. CASE ReconcilerStarts
    BY <1>2 DEF ReconcilerStarts
  <1>3. CASE ReconcilerStops
    BY <1>3 DEF ReconcilerStops
  <1>4. CASE BeginShutdown
    BY <1>4 DEF BeginShutdown
  <1>5. CASE DaemonExits
    BY <1>5 DEF DaemonExits
  <1>6. ASSUME NEW c \in Clients, ClientStops(c) PROVE TypeOK'
    BY <1>6 DEF ClientStops
  <1>7. ASSUME NEW r \in Runs, ChildExits(r) PROVE TypeOK'
    BY <1>7 DEF ChildExits
  <1>8. ASSUME NEW r \in Runs, NEW h \in {"HEALTHY", "UNHEALTHY"}, ProbeResult(r, h)
        PROVE  TypeOK'
    BY <1>8 DEF ProbeResult
  <1> QED
    BY <1>2, <1>3, <1>4, <1>5, <1>6, <1>7, <1>8 DEF Environment

LEMMA NextTypeOK == TypeOK /\ [Next]_vars => TypeOK'
  <1> SUFFICES ASSUME TypeOK, [Next]_vars PROVE TypeOK'
    OBVIOUS
  <1>1. CASE Next
    BY <1>1, StartTypeOK, StopTypeOK, MonitorTypeOK, HelperTypeOK, EnvironmentTypeOK
    DEF Next, Exited, vars, TypeOK
  <1>2. CASE UNCHANGED vars
    BY <1>2 DEF vars, TypeOK
  <1> QED
    BY <1>1, <1>2

\* The fields, channels and goroutines of a program keep their types, however
\* many runs there are and however calls of Start and Stop overlap.
THEOREM ProcessTypeOK == Spec => []TypeOK
  BY InitTypeOK, NextTypeOK, PTL DEF Spec

-----------------------------------------------------------------------------
(* stopRequested: closed once, and never offered again *)

Labels == {"idle", "start", "stop", "off", "await", "done"}
              \cup StartSteps \cup StopSteps \cup ExitSteps

\* A start that has its channel but has not published it in Process yet.
Unrecorded == {"starting", "logging", "spawning", "recording"}

\* The channel such a start holds is open, is nobody else's, and no later run
\* will have the same one.
FreshChannels ==
    /\ \A r \in closed.stop : r <= runs
    /\ proc.stopRequested <= runs
    /\ \A t \in Threads : pc[t] \in Unrecorded =>
          /\ loc[t].cmd \notin closed.stop
          /\ loc[t].cmd # proc.stopRequested
          /\ loc[t].cmd <= runs
          /\ \A u \in Threads : pc[u] \in Unrecorded /\ u # t => loc[u].cmd # loc[t].cmd

ChannelInv == TypeOK /\ StopRequestedOpen /\ FreshChannels

\* A step that has nothing to do with those channels.
Quiet ==
    /\ proc'.stopRequested = proc.stopRequested
    /\ closed'.stop = closed.stop
    /\ runs' = runs
    /\ \A t \in Threads : pc'[t] \in Unrecorded => pc[t] \in Unrecorded /\ loc'[t] = loc[t]

LEMMA QuietChannels == ASSUME StopRequestedOpen, FreshChannels, Quiet
                       PROVE  StopRequestedOpen' /\ FreshChannels'
  BY DEF StopRequestedOpen, FreshChannels, Quiet

\* Of Start, only the first section and recordRun have to do with them;
LEMMA StartQuiet ==
    ASSUME TypeOK, NEW t \in {Reconciler} \cup Runs, StartStep(t), ~Enter(t) /\ ~RecordRun(t)
    PROVE  Quiet
  <1>1. /\ t \in Threads /\ Runs \subseteq Threads
        /\ proc \in Proc /\ closed \in Closed
        /\ loc \in [Threads -> Loc] /\ loc[t] \in Loc
        /\ pc \in [Threads -> Labels]
    BY DEF TypeOK, Threads, Callers, Labels
  <1> USE DEF Quiet, Unrecorded, Proc, Closed, Loc
  <1>2. CASE EnterRefused(t)
    BY <1>2, <1>1 DEF EnterRefused, At, others
  <1>3. CASE Starting(t)
    BY <1>3, <1>1 DEF Starting, SetState, At, others
  <1>4. CASE StartLogging(t)
    BY <1>4, <1>1 DEF StartLogging, At, others
  <1>5. CASE StartFails(t)
    BY <1>5, <1>1 DEF StartFails, At, others
  <1>6. CASE Spawn(t)
    BY <1>6, <1>1 DEF Spawn, At, others
  <1>7. CASE StartHealthChecks(t)
    BY <1>7, <1>1 DEF StartHealthChecks, At, others
  <1>8. CASE HealthStarting(t)
    BY <1>8, <1>1 DEF HealthStarting, At, others
  <1>9. CASE Launch(t)
    BY <1>9, <1>1 DEF Launch, Returned, NoLoc, At, others
  <1>10. CASE Abort(t)
    BY <1>10, <1>1 DEF Abort, At, others
  <1>11. CASE StartFatal(t)
    BY <1>11, <1>1 DEF StartFatal, SetState, NoLoc, At, others
  <1> QED
    BY <1>2, <1>3, <1>4, <1>5, <1>6, <1>7, <1>8, <1>9, <1>10, <1>11 DEF StartStep

\* of Stop, only its first section;
LEMMA StopQuiet ==
    ASSUME TypeOK, NEW c \in Callers, StopStep(c), ~BeginStop(c)
    PROVE  Quiet
  <1>1. /\ c \in Threads /\ Runs \subseteq Threads
        /\ proc \in Proc /\ closed \in Closed
        /\ loc \in [Threads -> Loc] /\ loc[c] \in Loc
        /\ pc \in [Threads -> Labels]
    BY DEF TypeOK, Threads, Callers, Labels
  <1> USE DEF Quiet, Unrecorded, Proc, Closed, Loc
  <1>2. CASE TakeHealth(c, "deciding")
    BY <1>2, <1>1 DEF TakeHealth, AfterTaking, HealthCanceled, At, others
  <1>3. CASE AwaitProbe(c, "deciding")
    BY <1>3, <1>1 DEF AwaitProbe, At, others
  <1>4. CASE NothingRunning(c)
    BY <1>4, <1>1 DEF NothingRunning, At, others
  <1>5. CASE Resting(c)
    BY <1>5, <1>1 DEF Resting, SetState, NoLoc, At, others
  <1>6. CASE Stopping(c)
    BY <1>6, <1>1 DEF Stopping, SetState, At, others
  <1>7. CASE MonitorReports(c)
    BY <1>7, <1>1 DEF MonitorReports, At, others
  <1>8. CASE StopTimeout(c)
    BY <1>8, <1>1 DEF StopTimeout, At, others
  <1>9. CASE GiveUp(c)
    BY <1>9, <1>1 DEF GiveUp, At, others
  <1>10. CASE Finish(c)
    BY <1>10, <1>1 DEF Finish, NoLoc, At, others
  <1> QED
    BY <1>2, <1>3, <1>4, <1>5, <1>6, <1>7, <1>8, <1>9, <1>10 DEF StopStep

\* and no step of the monitor,
LEMMA MonitorQuiet ==
    ASSUME TypeOK, NEW r \in Runs, MonitorStep(r)
    PROVE  Quiet
  <1>1. /\ r \in Threads /\ Runs \subseteq Threads
        /\ proc \in Proc /\ closed \in Closed
        /\ loc \in [Threads -> Loc] /\ loc[r] \in Loc
        /\ pc \in [Threads -> Labels]
    BY DEF TypeOK, Threads, Callers, Labels
  <1> USE DEF Quiet, Unrecorded, Proc, Closed, Loc
  <1>2. CASE ExitArrives(r)
    BY <1>2, <1>1 DEF ExitArrives, At, others
  <1>3. CASE TakeHealth(r, "unlogging")
    BY <1>3, <1>1 DEF TakeHealth, AfterTaking, HealthCanceled, At, others
  <1>4. CASE AwaitProbe(r, "unlogging")
    BY <1>4, <1>1 DEF AwaitProbe, At, others
  <1>5. CASE StopLogging(r)
    BY <1>5, <1>1 DEF StopLogging, At, others
  <1>6. CASE RecordExit(r)
    BY <1>6, <1>1 DEF RecordExit, At, others
  <1>7. CASE Settle(r)
    BY <1>7, <1>1 DEF Settle, SettledTo, NoLoc, At, others
  <1>8. CASE PublishStopped(r)
    BY <1>8, <1>1 DEF PublishStopped, SetState, At, others
  <1>9. CASE PublishExited(r)
    BY <1>9, <1>1 DEF PublishExited, SetState, At, others
  <1>10. CASE Latch(r)
    BY <1>10, <1>1 DEF Latch, At, others
  <1>11. CASE Exiting(r)
    BY <1>11, <1>1 DEF Exiting, SetState, At, others
  <1>12. CASE Policy(r)
    BY <1>12, <1>1 DEF Policy, At, others
  <1>13. CASE PublishFatal(r)
    BY <1>13, <1>1 DEF PublishFatal, SetState, At, others
  <1>14. CASE BackoffCanceled(r)
    BY <1>14, <1>1 DEF BackoffCanceled, At, others
  <1>15. CASE BackoffElapsed(r)
    BY <1>15, <1>1 DEF BackoffElapsed, At, others
  <1>16. CASE CheckCanceled(r)
    BY <1>16, <1>1 DEF CheckCanceled, At, others
  <1>17. CASE Retry(r)
    BY <1>17, <1>1 DEF Retry, SetState, At, others
  <1> QED
    BY <1>2, <1>3, <1>4, <1>5, <1>6, <1>7, <1>8, <1>9, <1>10, <1>11, <1>12, <1>13, <1>14,
       <1>15, <1>16, <1>17
    DEF MonitorStep

\* of the start waiter or the probe loop,
LEMMA HelperQuiet ==
    ASSUME TypeOK, NEW r \in Runs, HelperStep(r)
    PROVE  Quiet
  <1>1. /\ r \in Threads /\ Runs \subseteq Threads
        /\ proc \in Proc /\ closed \in Closed
        /\ loc \in [Threads -> Loc] /\ loc[r] \in Loc
        /\ pc \in [Threads -> Labels]
    BY DEF TypeOK, Threads, Callers, Labels
  <1> USE DEF Quiet, Unrecorded, Proc, Closed, Loc
  <1>2. CASE WaiterQuits(r)
    BY <1>2, <1>1 DEF WaiterQuits, At, others
  <1>3. CASE WaiterElapses(r)
    BY <1>3, <1>1 DEF WaiterElapses, At, others
  <1>4. CASE Promote(r)
    BY <1>4, <1>1 DEF Promote, At, others
  <1>5. CASE PublishHealth(r)
    BY <1>5, <1>1 DEF PublishHealth, At, others
  <1>6. CASE ProbeEnds(r)
    BY <1>6, <1>1 DEF ProbeEnds, At, others
  <1> QED
    BY <1>2, <1>3, <1>4, <1>5, <1>6 DEF HelperStep

\* of the child or of those who decide to start and stop.
LEMMA EnvironmentQuiet == ASSUME TypeOK, Environment PROVE Quiet
  <1>1. /\ Reconciler \in Threads /\ Shutdown \in Threads /\ Clients \subseteq Threads
        /\ pc \in [Threads -> Labels]
    BY DEF TypeOK, Threads, Callers, Labels
  <1> USE <1>1 DEF Quiet, Unrecorded, At, others
  <1>2. CASE ReconcilerStarts
    BY <1>2 DEF ReconcilerStarts
  <1>3. CASE ReconcilerStops
    BY <1>3 DEF ReconcilerStops
  <1>4. CASE BeginShutdown
    BY <1>4 DEF BeginShutdown
  <1>5. CASE DaemonExits
    BY <1>5 DEF DaemonExits
  <1>6. ASSUME NEW c \in Clients, ClientStops(c) PROVE Quiet
    BY <1>6 DEF ClientStops
  <1>7. ASSUME NEW r \in Runs, ChildExits(r) PROVE Quiet
    BY <1>7 DEF ChildExits
  <1>8. ASSUME NEW r \in Runs, NEW h \in {"HEALTHY", "UNHEALTHY"}, ProbeResult(r, h)
        PROVE  Quiet
    BY <1>8 DEF ProbeResult
  <1> QED
    BY <1>2, <1>3, <1>4, <1>5, <1>6, <1>7, <1>8 DEF Environment

\* The three steps that do: a run gets a new channel,
LEMMA EnterChannels == ASSUME ChannelInv, NEW t \in {Reconciler} \cup Runs, Enter(t)
                       PROVE  StopRequestedOpen' /\ FreshChannels'
  <1>1. /\ t \in Threads /\ proc \in Proc /\ closed \in Closed /\ runs \in Nat
        /\ loc \in [Threads -> Loc] /\ pc \in [Threads -> Labels]
    BY ProcessAssumption DEF ChannelInv, TypeOK, Threads, Callers, Labels, Run0, Runs
  <1>2. /\ proc'.stopRequested = proc.stopRequested
        /\ closed'.stop = closed.stop
        /\ runs' = runs + 1
    BY <1>1 DEF Enter, FreshRun, Proc, Closed
  <1>3. proc.stopRequested \in Nat /\ closed.stop \subseteq Nat
    BY <1>1, ProcessAssumption DEF Proc, Closed, Run0, Runs
  <1>4. \A u \in Threads : /\ loc[u].cmd \in Nat
                           /\ u # t => loc'[u] = loc[u] /\ pc'[u] = pc[u]
    BY <1>1, ProcessAssumption DEF Enter, At, Loc, Run0, Runs
  <1>5. loc'[t].cmd = runs + 1
    BY <1>1 DEF Enter, NoLoc
  <1>6. StopRequestedOpen'
    BY <1>2 DEF ChannelInv, StopRequestedOpen
  <1>7. \A r \in closed'.stop : r <= runs /\ r \in Nat
    BY <1>2, <1>3 DEF ChannelInv, FreshChannels
  <1>8. \A u \in Threads : u # t /\ pc'[u] \in Unrecorded =>
            /\ loc'[u].cmd = loc[u].cmd /\ loc[u].cmd \in Nat /\ loc[u].cmd <= runs
            /\ loc[u].cmd \notin closed.stop /\ loc[u].cmd # proc.stopRequested
    <2> SUFFICES ASSUME NEW u \in Threads, u # t, pc'[u] \in Unrecorded
                 PROVE  /\ loc'[u].cmd = loc[u].cmd /\ loc[u].cmd \in Nat /\ loc[u].cmd <= runs
                        /\ loc[u].cmd \notin closed.stop /\ loc[u].cmd # proc.stopRequested
      OBVIOUS
    <2>1. pc'[u] = pc[u] /\ loc'[u] = loc[u]
      BY <1>1 DEF Enter, At
    <2>2. loc[u].cmd \in Nat
      BY <1>4
    <2> QED
      BY <2>1, <2>2 DEF ChannelInv, FreshChannels
  <1>9. \A u, v \in Threads :
            u # v /\ pc'[u] \in Unrecorded /\ pc'[v] \in Unrecorded => loc'[u].cmd # loc'[v].cmd
    BY <1>1, <1>4, <1>5, <1>8 DEF ChannelInv, FreshChannels
  <1>10. proc.stopRequested <= runs
    BY DEF ChannelInv, FreshChannels
  <1> QED
    BY <1>1, <1>2, <1>3, <1>5, <1>6, <1>7, <1>8, <1>9, <1>10 DEF FreshChannels

\* recordRun publishes it,
LEMMA RecordRunChannels == ASSUME ChannelInv, NEW t \in {Reconciler} \cup Runs, RecordRun(t)
                           PROVE  StopRequestedOpen' /\ FreshChannels'
  <1>1. /\ t \in Threads /\ proc \in Proc /\ closed \in Closed
        /\ pc \in [Threads -> Labels]
    BY DEF ChannelInv, TypeOK, Threads, Callers, Labels
  <1>2. /\ proc'.stopRequested = loc[t].cmd
        /\ UNCHANGED <<closed, runs, loc>>
    BY <1>1 DEF RecordRun, Proc, others
  <1>3. /\ pc[t] \in Unrecorded
        /\ \A u \in Threads : pc'[u] \in Unrecorded => pc[u] \in Unrecorded /\ u # t
    BY <1>1 DEF RecordRun, At, Unrecorded
  <1> QED
    BY <1>1, <1>2, <1>3 DEF ChannelInv, StopRequestedOpen, FreshChannels

\* and Stop takes it away as it closes it.
LEMMA BeginStopChannels == ASSUME ChannelInv, NEW c \in Callers, BeginStop(c)
                           PROVE  StopRequestedOpen' /\ FreshChannels'
  <1>1. /\ c \in Threads /\ proc \in Proc /\ closed \in Closed /\ runs \in Nat
        /\ loc \in [Threads -> Loc] /\ pc \in [Threads -> Labels]
    BY ProcessAssumption DEF ChannelInv, TypeOK, Threads, Callers, Labels, Run0, Runs
  <1>2. /\ proc'.stopRequested = 0
        /\ closed'.stop = closed.stop \cup ({proc.stopRequested} \ {0})
        /\ runs' = runs
    BY <1>1 DEF BeginStop, MarkStopped, Proc, Closed, others
  <1>3. \A u \in Threads : pc'[u] \in Unrecorded
           => pc[u] \in Unrecorded /\ u # c /\ loc'[u] = loc[u]
    BY <1>1 DEF BeginStop, At, Unrecorded
  <1>4. 0 \notin closed'.stop /\ \A u \in Threads : pc[u] \in Unrecorded => loc[u].cmd # 0
    BY <1>1, <1>2 DEF ChannelInv, TypeOK, Closed, Runs, Unrecorded, StartSteps
  <1> QED
    BY <1>1, <1>2, <1>3, <1>4 DEF ChannelInv, StopRequestedOpen, FreshChannels

\* Stop never closes a stopRequested that is closed already, so it does not
\* panic, however many Stops there are and whatever they overlap.
THEOREM ProcessStopRequestedOpen == Spec => []StopRequestedOpen
  <1>1. Init => ChannelInv
    BY InitTypeOK
    DEF Init, ChannelInv, StopRequestedOpen, FreshChannels, Unrecorded
  <1>2. ChannelInv /\ [Next]_vars => ChannelInv'
    <2> SUFFICES ASSUME ChannelInv, [Next]_vars PROVE ChannelInv'
      OBVIOUS
    <2>1. TypeOK /\ TypeOK' /\ StopRequestedOpen /\ FreshChannels
      BY NextTypeOK DEF ChannelInv
    <2>2. CASE UNCHANGED vars
      BY <2>1, <2>2 DEF vars, ChannelInv, StopRequestedOpen, FreshChannels
    <2>3. ASSUME NEW t \in {Reconciler} \cup Runs, StartStep(t)
          PROVE  StopRequestedOpen' /\ FreshChannels'
      BY <2>1, <2>3, StartQuiet, QuietChannels, EnterChannels, RecordRunChannels
    <2>4. ASSUME NEW c \in Callers, StopStep(c)
          PROVE  StopRequestedOpen' /\ FreshChannels'
      BY <2>1, <2>4, StopQuiet, QuietChannels, BeginStopChannels
    <2>5. ASSUME NEW r \in Runs, MonitorStep(r) \/ HelperStep(r)
          PROVE  StopRequestedOpen' /\ FreshChannels'
      BY <2>1, <2>5, MonitorQuiet, HelperQuiet, QuietChannels
    <2>6. CASE Environment
      BY <2>1, <2>6, EnvironmentQuiet, QuietChannels DEF ChannelInv
    <2> QED
      BY <2>1, <2>2, <2>3, <2>4, <2>5, <2>6 DEF Next, Exited, ChannelInv
  <1>3. ChannelInv => StopRequestedOpen
    BY DEF ChannelInv
  <1> QED
    BY <1>1, <1>2, <1>3, PTL DEF Spec

-----------------------------------------------------------------------------
(* max_restarts *)

\* Start leaves the restart counter alone.
LEMMA StartBounded ==
    ASSUME TypeOK, RestartsBounded, NEW t \in {Reconciler} \cup Runs, StartStep(t)
    PROVE  RestartsBounded'
  <1>1. proc \in Proc /\ MaxRestarts \in Nat
    BY ProcessAssumption DEF TypeOK
  <1> USE DEF RestartsBounded, Proc
  <1>2. CASE Enter(t)
    BY <1>2, <1>1 DEF Enter, FreshRun
  <1>3. CASE Starting(t)
    BY <1>3, <1>1 DEF Starting, SetState
  <1>4. CASE StartLogging(t)
    BY <1>4, <1>1 DEF StartLogging
  <1>5. CASE RecordRun(t)
    BY <1>5, <1>1 DEF RecordRun
  <1>6. CASE StartHealthChecks(t)
    BY <1>6, <1>1 DEF StartHealthChecks
  <1>7. CASE HealthStarting(t)
    BY <1>7, <1>1 DEF HealthStarting
  <1>8. CASE Abort(t)
    BY <1>8, <1>1 DEF Abort
  <1>9. CASE StartFatal(t)
    BY <1>9, <1>1 DEF StartFatal, SetState
  <1>10. CASE EnterRefused(t) \/ StartFails(t) \/ Spawn(t) \/ Launch(t)
    BY <1>10 DEF EnterRefused, StartFails, Spawn, Launch
  <1> QED
    BY <1>2, <1>3, <1>4, <1>5, <1>6, <1>7, <1>8, <1>9, <1>10 DEF StartStep

\* So does Stop.
LEMMA StopBounded ==
    ASSUME TypeOK, RestartsBounded, NEW c \in Callers, StopStep(c)
    PROVE  RestartsBounded'
  <1>1. proc \in Proc /\ MaxRestarts \in Nat
    BY ProcessAssumption DEF TypeOK
  <1> USE DEF RestartsBounded, Proc
  <1>2. CASE BeginStop(c)
    BY <1>2, <1>1 DEF BeginStop, MarkStopped
  <1>3. CASE TakeHealth(c, "deciding")
    BY <1>3, <1>1 DEF TakeHealth, AfterTaking, HealthCanceled
  <1>4. CASE AwaitProbe(c, "deciding")
    BY <1>4, <1>1 DEF AwaitProbe
  <1>5. CASE NothingRunning(c)
    BY <1>5, <1>1 DEF NothingRunning
  <1>6. CASE Resting(c)
    BY <1>6, <1>1 DEF Resting, SetState
  <1>7. CASE Stopping(c)
    BY <1>7, <1>1 DEF Stopping, SetState
  <1>8. CASE Finish(c)
    BY <1>8, <1>1 DEF Finish
  <1>9. CASE MonitorReports(c) \/ StopTimeout(c) \/ GiveUp(c)
    BY <1>9 DEF MonitorReports, StopTimeout, GiveUp
  <1> QED
    BY <1>2, <1>3, <1>4, <1>5, <1>6, <1>7, <1>8, <1>9 DEF StopStep

\* The monitor resets it, or counts once it has compared it with max_restarts.
LEMMA MonitorBounded ==
    ASSUME TypeOK, RestartsBounded, NEW r \in Runs, MonitorStep(r)
    PROVE  RestartsBounded'
  <1>1. proc \in Proc /\ MaxRestarts \in Nat
    BY ProcessAssumption DEF TypeOK
  <1> USE DEF RestartsBounded, Proc
  <1>2. CASE TakeHealth(r, "unlogging")
    BY <1>2, <1>1 DEF TakeHealth, AfterTaking, HealthCanceled
  <1>3. CASE AwaitProbe(r, "unlogging")
    BY <1>3, <1>1 DEF AwaitProbe
  <1>4. CASE StopLogging(r)
    BY <1>4, <1>1 DEF StopLogging
  <1>5. CASE RecordExit(r)
    BY <1>5, <1>1 DEF RecordExit
  <1>6. CASE PublishStopped(r)
    BY <1>6, <1>1 DEF PublishStopped, SetState
  <1>7. CASE PublishExited(r)
    BY <1>7, <1>1 DEF PublishExited, SetState
  <1>8. CASE Latch(r)
    BY <1>8, <1>1 DEF Latch
  <1>9. CASE Exiting(r)
    BY <1>9, <1>1 DEF Exiting, SetState
  <1>10. CASE Policy(r)
    BY <1>10, <1>1 DEF Policy, LimitReached
  <1>11. CASE PublishFatal(r)
    BY <1>11, <1>1 DEF PublishFatal, SetState
  <1>12. CASE Retry(r)
    BY <1>12, <1>1 DEF Retry, SetState
  <1>13. CASE ExitArrives(r) \/ Settle(r) \/ BackoffCanceled(r) \/ BackoffElapsed(r)
              \/ CheckCanceled(r)
    BY <1>13 DEF ExitArrives, Settle, BackoffCanceled, BackoffElapsed, CheckCanceled
  <1> QED
    BY <1>2, <1>3, <1>4, <1>5, <1>6, <1>7, <1>8, <1>9, <1>10, <1>11, <1>12, <1>13
    DEF MonitorStep

\* The start waiter and the probe loop leave it alone.
LEMMA HelperBounded ==
    ASSUME TypeOK, RestartsBounded, NEW r \in Runs, HelperStep(r)
    PROVE  RestartsBounded'
  <1>1. proc \in Proc /\ MaxRestarts \in Nat
    BY ProcessAssumption DEF TypeOK
  <1> USE DEF RestartsBounded, Proc
  <1>2. CASE Promote(r)
    BY <1>2, <1>1 DEF Promote
  <1>3. CASE PublishHealth(r)
    BY <1>3, <1>1 DEF PublishHealth
  <1>4. CASE WaiterQuits(r) \/ WaiterElapses(r) \/ ProbeEnds(r)
    BY <1>4 DEF WaiterQuits, WaiterElapses, ProbeEnds
  <1> QED
    BY <1>2, <1>3, <1>4 DEF HelperStep

\* Nobody gets past max_restarts by racing: the comparison and the increment are
\* one section of maybeRestart.
THEOREM ProcessRestartsBounded == Spec => []RestartsBounded
  <1>1. Init => RestartsBounded
    BY ProcessAssumption DEF Init, RestartsBounded
  <1>2. TypeOK /\ RestartsBounded /\ [Next]_vars => RestartsBounded'
    <2> SUFFICES ASSUME TypeOK, RestartsBounded, [Next]_vars PROVE RestartsBounded'
      OBVIOUS
    <2>1. CASE Environment \/ Exited \/ UNCHANGED vars
      BY <2>1
      DEF RestartsBounded, Environment, ReconcilerStarts, ReconcilerStops, BeginShutdown,
          DaemonExits, ClientStops, ChildExits, ProbeResult, Exited, vars
    <2> QED
      BY <2>1, StartBounded, StopBounded, MonitorBounded, HelperBounded DEF Next
  <1> QED
    BY <1>1, <1>2, ProcessTypeOK, PTL DEF Spec

-----------------------------------------------------------------------------
(* Who moves when, as long as Calm *)

\* From the exit, or before it, to the publication of how the run ended.
Teardown == {"await", "taking", "draining", "unlogging", "noting", "settling", "stopped",
             "exited", "latching", "exiting"}
Ended    == {"off", "backoff", "check", "done"}
Before   == {"taking", "draining", "deciding"}
After    == {"waiting", "killing", "finishing"}

\* A monitor that will not start anything: not launched, over, or cancelled.
AtRest(r) == pc[r] \in {"off", "done"} \/ (pc[r] \in {"backoff", "check"} /\ Canceled(r))

NoStop == \A c \in Callers : ~InStop(c)

\* Runs come one after the other, and each goroutine keeps to its own code.
Places ==
    /\ proc.cancel = runs
    /\ \A r \in Runs : (r < runs => r \in closed.ctx) /\ (r > runs => pc[r] = "off")
    /\ \A c \in Callers :
          \/ pc[c] \in {"idle", "stop"} \cup StopSteps
          \/ c = Reconciler /\ pc[c] \in {"start"} \cup StartSteps
    /\ \A r \in Runs : pc[r] \in {"off", "await", "start", "done"} \cup StartSteps \cup ExitSteps

\* A start is on its own: nothing is left of the runs before, and no Stop is on.
OneStart ==
    \A t \in Threads : InStart(t) =>
        /\ loc[t].cmd = runs /\ pc[runs] = "off"
        /\ \A r \in Runs \ {t} : AtRest(r)
        /\ NoStop
        /\ pc[t] = "starting" => proc.state \in {"STOPPED", "STOPPING", "BACKOFF"}
        /\ pc[t] # "starting" => proc.state \in {"STARTING", "RUNNING"}

Restarting ==
    \A r \in Runs : pc[r] \in {"retry", "start"} =>
        /\ r = runs /\ NoStop
        /\ proc.state = (IF pc[r] = "retry" THEN "EXITED" ELSE "BACKOFF")

\* The monitor whose restart failed.
FailedRestart ==
    \A r \in Runs : pc[r] = "fatal" /\ r < runs =>
        proc.state = "FATAL" /\ NoStop /\ \A q \in Runs \ {r} : AtRest(q)

OldRuns == \A r \in Runs : r < runs => pc[r] \in Ended \cup StartSteps \cup {"fatal"}

Decided ==
    pc[Reconciler] = "start" =>
        proc.state \in {"STOPPED", "STOPPING"} /\ \A r \in Runs : AtRest(r)

StoppedRests == proc.state = "STOPPED" => \A r \in Runs : AtRest(r)

Settling ==
    \A r \in Runs :
        /\ pc[r] \in Teardown => proc.state \in {"STARTING", "RUNNING", "STOPPING"}
        /\ pc[r] \in {"policy", "backoff", "check"} /\ ~AtRest(r)
               => proc.state \in {"EXITED", "STOPPING"}
        /\ pc[r] = "fatal" /\ r = runs => proc.state \in {"EXITED", "STOPPING"}

\* What a Stop went by when it began still holds.
Asked ==
    \A c \in Callers : InStop(c) =>
        /\ proc.stoppedExternally /\ loc[c].cancel = runs
        /\ pc[c] \in Before \cup {"resting"} /\ NothingToStop(loc[c].state)
               => \A r \in Runs : pc[r] \in Ended
        /\ pc[c] = "resting" => NothingToStop(loc[c].state) /\ runs \in closed.ctx \cup {0}

Backing == proc.state = "BACKOFF" => \E r \in Runs : pc[r] \in {"start", "starting"}

Control ==
    /\ OneStart /\ Restarting /\ FailedRestart /\ OldRuns /\ Decided /\ StoppedRests
    /\ Settling /\ Asked /\ Backing

\* A step that changes nothing of that: goroutines move on inside a part of
\* their code, contexts and channels are closed.
Drifts(t) ==
    \/ pc'[t] = pc[t]
    \/ pc[t] \in StartSteps \ {"starting"} /\ pc'[t] \in StartSteps \ {"starting"}
    \/ t \in Runs /\ pc[t] \in Teardown /\ pc'[t] \in Teardown
    \/ t \in Runs /\ pc[t] \in {"backoff", "check"} /\ pc'[t] \in {"backoff", "check", "done"}
    \/ t \in Callers /\ pc[t] \in {"idle", "stop"} /\ pc'[t] \in {"idle", "stop"}
    \/ t \in Callers /\ pc[t] \in Before /\ pc'[t] \in Before
    \/ t \in Callers /\ pc[t] \in After /\ pc'[t] \in After \cup {"idle"}
    \/ /\ t \in Callers /\ pc[t] = "deciding" /\ pc'[t] = "resting"
       /\ NothingToStop(loc[t].state) /\ loc[t].cancel \in closed'.ctx \cup {0}

Drift ==
    /\ runs' = runs /\ proc'.cancel = proc.cancel
    /\ \/ proc'.state = proc.state
       \/ proc.state = "STARTING" /\ proc'.state = "RUNNING"
    /\ proc'.stoppedExternally = proc.stoppedExternally \/ NoStop
    /\ closed.ctx \subseteq closed'.ctx /\ closed.stop \subseteq closed'.stop
    /\ \A t \in Threads : Drifts(t)
    /\ \A t \in Threads : pc'[t] \in StartSteps => loc'[t].cmd = loc[t].cmd
    /\ \A t \in Callers : pc'[t] \in StopSteps
           => loc'[t].cancel = loc[t].cancel /\ loc'[t].state = loc[t].state

\* The two kinds of goroutines, and runs as numbers.
LEMMA Sets ==
    /\ Runs \subseteq Threads /\ Callers \subseteq Threads /\ Reconciler \in Callers
    /\ Runs \cap Callers = {} /\ Runs \subseteq Nat /\ 0 \notin Runs
  BY ProcessAssumption DEF Threads, Callers, Runs

\* What rests stays at rest.
LEMMA RestIsKept ==
    ASSUME TypeOK, Drift, NEW r \in Runs PROVE AtRest(r) => AtRest(r)'
  BY Sets DEF AtRest, Drift, Drifts, Canceled, StartSteps, Teardown, Before, After

\* No Stop and no start begins or ends by drifting.
LEMMA DriftStops ==
    ASSUME TypeOK, Drift
    PROVE  /\ NoStop => NoStop'
           /\ \A c \in Callers : InStop(c)' => InStop(c)
           /\ \A t \in Threads : InStart(t)' <=> InStart(t)
  BY Sets
  DEF NoStop, InStop, InStart, Drift, Drifts, StartSteps, StopSteps, Teardown, Before, After

\* So drifting keeps all of it.
LEMMA DriftKeeps ==
    ASSUME TypeOK, TypeOK', Places, Control, Drift
    PROVE  Places' /\ Control'
  <1>1. \A r \in Runs : AtRest(r) => AtRest(r)'
    BY RestIsKept
  <1>2. Places'
    <2>1. \A r \in Runs :
             pc'[r] \in {"off", "await", "start", "done"} \cup StartSteps \cup ExitSteps
      BY Sets
      DEF Places, Drift, Drifts, StartSteps, StopSteps, ExitSteps, Teardown, Before, After
    <2>2. \A c \in Callers :
          \/ pc'[c] \in {"idle", "stop"} \cup StopSteps
          \/ c = Reconciler /\ pc'[c] \in {"start"} \cup StartSteps
      BY Sets
      DEF Places, Drift, Drifts, StartSteps, StopSteps, ExitSteps, Teardown, Before, After
    <2>3. \A r \in Runs : (r < runs => r \in closed'.ctx) /\ (r > runs => pc'[r] = "off")
      BY Sets DEF Places, Drift, Drifts, StartSteps, Teardown, Before, After
    <2> QED BY <2>1, <2>2, <2>3 DEF Places, Drift
  <1>3. OneStart'
    <2> SUFFICES ASSUME NEW t \in Threads, InStart(t)'
                 PROVE  /\ loc'[t].cmd = runs' /\ pc'[runs'] = "off"
                        /\ \A r \in Runs \ {t} : AtRest(r)'
                        /\ NoStop'
                        /\ pc'[t] = "starting" =>
                             proc'.state \in {"STOPPED", "STOPPING", "BACKOFF"}
                        /\ pc'[t] # "starting" => proc'.state \in {"STARTING", "RUNNING"}
      BY Zenon DEF OneStart
    <2>6. InStart(t) /\ pc'[t] \in StartSteps
      BY DriftStops DEF InStart
    <2>1. InStart(t) /\ NoStop /\ NoStop' /\ loc'[t].cmd = loc[t].cmd
      BY <2>6, DriftStops DEF Control, OneStart, Drift
    <2>2. loc[t].cmd = runs /\ pc[runs] = "off" /\ runs' = runs
      BY <2>1 DEF Control, OneStart, Drift
    <2>5. runs # 0 /\ runs \in Runs
      BY <2>1, <2>2 DEF InStart, TypeOK, Run0
    <2>3. pc'[runs'] = "off"
      BY <2>2, <2>5, Sets DEF Drift, Drifts, StartSteps, Teardown, Before, After
    <2>4. (pc'[t] = "starting") <=> (pc[t] = "starting")
      BY <2>1, Sets DEF Drift, Drifts, StartSteps, Teardown, Before, After, InStart
    <2> QED BY <1>1, <2>1, <2>2, <2>3, <2>4 DEF Control, OneStart, Drift
  <1>4. Restarting'
    BY DriftStops, Sets
    DEF Control, Restarting, Drift, Drifts, StartSteps, Teardown, Before, After
  <1>5. FailedRestart'
    BY DriftStops, <1>1, Sets
    DEF Control, FailedRestart, Drift, Drifts, StartSteps, Teardown, Before, After
  <1>6. OldRuns'
    BY Sets DEF Control, OldRuns, Drift, Drifts, StartSteps, Teardown, Before, After, Ended
  <1>7. Decided'
    BY <1>1, Sets DEF Control, Decided, Drift, Drifts, StartSteps, Teardown, Before, After
  <1>8. StoppedRests'
    BY <1>1, Sets DEF Control, StoppedRests, Drift
  <1>9. Settling'
    BY <1>1, Sets
    DEF Control, Settling, Drift, Drifts, StartSteps, Teardown, Before, After, AtRest
  <1>10. Asked'
    <2> SUFFICES ASSUME NEW c \in Callers, InStop(c)'
                 PROVE  /\ proc'.stoppedExternally /\ loc'[c].cancel = runs'
                        /\ pc'[c] \in Before \cup {"resting"} /\ NothingToStop(loc'[c].state)
                               => \A r \in Runs : pc'[r] \in Ended
                        /\ pc'[c] = "resting" => /\ NothingToStop(loc'[c].state)
                                                /\ runs' \in closed'.ctx \cup {0}
      BY Zenon DEF Asked, NothingToStop
    <2>1. InStop(c) /\ ~NoStop /\ pc'[c] \in StopSteps
      BY DriftStops DEF NoStop, InStop
    <2>2. loc'[c].cancel = loc[c].cancel /\ loc'[c].state = loc[c].state /\ runs' = runs
      BY <2>1 DEF Drift
    <2>3. pc'[c] \in Before \cup {"resting"} => pc[c] \in Before \cup {"resting"}
      BY <2>1, Sets DEF Drift, Drifts, StartSteps, StopSteps, Teardown, Before, After
    <2>4. pc'[c] = "resting" =>
             \/ pc[c] = "resting"
             \/ NothingToStop(loc[c].state) /\ loc[c].cancel \in closed'.ctx \cup {0}
      BY <2>1, Sets DEF Drift, Drifts, StartSteps, StopSteps, Teardown, Before, After
    <2>5. \A r \in Runs : pc[r] \in Ended => pc'[r] \in Ended
      BY Sets DEF Drift, Drifts, StartSteps, Teardown, Before, After, Ended
    <2> QED BY <2>1, <2>2, <2>3, <2>4, <2>5 DEF Control, Asked, Drift
  <1>11. Backing'
    BY Sets DEF Control, Backing, Drift, Drifts, StartSteps, Teardown, Before, After
  <1> QED BY <1>2, <1>3, <1>4, <1>5, <1>6, <1>7, <1>8, <1>9, <1>10, <1>11 DEF Control

\* What TypeOK says of the variables the lemmas below look at.
LEMMA Types ==
    ASSUME TypeOK
    PROVE  /\ pc \in [Threads -> Labels] /\ loc \in [Threads -> Loc]
           /\ proc \in Proc /\ closed \in Closed /\ runs \in Nat
  BY ProcessAssumption DEF TypeOK, Labels, Run0, Runs

\* Start drifts between its second section and its end;
LEMMA StartDrifts ==
    ASSUME TypeOK, Control, NEW t \in {Reconciler} \cup Runs,
           StartLogging(t) \/ StartFails(t) \/ Spawn(t) \/ RecordRun(t)
            \/ StartHealthChecks(t) \/ HealthStarting(t) \/ Abort(t)
    PROVE  Drift
  <1> USE DEF Drift, Drifts, StartSteps, StopSteps, Teardown, Before, After, Proc, Closed,
              Loc, At, others
  <1>1. /\ t \in Threads /\ proc \in Proc /\ closed \in Closed
        /\ pc \in [Threads -> Labels] /\ loc \in [Threads -> Loc]
    BY Types, Sets
  <1>2. CASE StartLogging(t)
    BY <1>2, <1>1, Sets DEF StartLogging
  <1>3. CASE StartFails(t)
    BY <1>3, <1>1, Sets DEF StartFails
  <1>4. CASE Spawn(t)
    BY <1>4, <1>1, Sets DEF Spawn
  <1>5. CASE RecordRun(t)
    BY <1>5, <1>1, Sets DEF RecordRun, Control, OneStart, InStart
  <1>6. CASE StartHealthChecks(t)
    BY <1>6, <1>1, Sets DEF StartHealthChecks
  <1>7. CASE HealthStarting(t)
    BY <1>7, <1>1, Sets DEF HealthStarting
  <1>8. CASE Abort(t)
    BY <1>8, <1>1, Sets DEF Abort
  <1> QED
    BY <1>2, <1>3, <1>4, <1>5, <1>6, <1>7, <1>8

\* Stop wherever it publishes nothing;
LEMMA StopDrifts ==
    ASSUME TypeOK, NEW c \in Callers,
           TakeHealth(c, "deciding") \/ AwaitProbe(c, "deciding") \/ NothingRunning(c)
             \/ MonitorReports(c) \/ StopTimeout(c) \/ GiveUp(c) \/ Finish(c)
    PROVE  Drift
  <1> USE DEF Drift, Drifts, StartSteps, StopSteps, Teardown, Before, After, Proc, Closed,
              Loc, At, others
  <1>1. /\ c \in Threads /\ proc \in Proc /\ closed \in Closed
        /\ pc \in [Threads -> Labels] /\ loc \in [Threads -> Loc]
    BY Types, Sets
  <1>2. CASE TakeHealth(c, "deciding")
    BY <1>2, <1>1, Sets DEF TakeHealth, AfterTaking, HealthCanceled
  <1>3. CASE AwaitProbe(c, "deciding")
    BY <1>3, <1>1, Sets DEF AwaitProbe
  <1>4. CASE MonitorReports(c)
    BY <1>4, <1>1, Sets DEF MonitorReports
  <1>5. CASE StopTimeout(c)
    BY <1>5, <1>1, Sets DEF StopTimeout
  <1>6. CASE GiveUp(c)
    BY <1>6, <1>1, Sets DEF GiveUp
  <1>7. CASE Finish(c)
    BY <1>7, <1>1, Sets DEF Finish, NoLoc
  <1>8. CASE NothingRunning(c)
    BY <1>8, <1>1, Sets DEF NothingRunning
  <1> QED
    BY <1>2, <1>3, <1>4, <1>5, <1>6, <1>7, <1>8

\* the monitor up to where it publishes, and while it waits;
LEMMA MonitorDrifts ==
    ASSUME TypeOK, NEW r \in Runs,
           ExitArrives(r) \/ TakeHealth(r, "unlogging") \/ AwaitProbe(r, "unlogging")
            \/ StopLogging(r) \/ RecordExit(r) \/ Settle(r) \/ Latch(r)
            \/ BackoffCanceled(r) \/ BackoffElapsed(r)
    PROVE  Drift
  <1> USE DEF Drift, Drifts, StartSteps, StopSteps, Teardown, Before, After, Proc, Closed,
              Loc, At, others
  <1>1. /\ r \in Threads /\ proc \in Proc /\ closed \in Closed
        /\ pc \in [Threads -> Labels] /\ loc \in [Threads -> Loc]
    BY Types, Sets
  <1>2. CASE ExitArrives(r)
    BY <1>2, <1>1, Sets DEF ExitArrives
  <1>3. CASE TakeHealth(r, "unlogging")
    BY <1>3, <1>1, Sets DEF TakeHealth, AfterTaking, HealthCanceled
  <1>4. CASE AwaitProbe(r, "unlogging")
    BY <1>4, <1>1, Sets DEF AwaitProbe
  <1>5. CASE StopLogging(r)
    BY <1>5, <1>1, Sets DEF StopLogging
  <1>6. CASE RecordExit(r)
    BY <1>6, <1>1, Sets DEF RecordExit
  <1>7. CASE Settle(r)
    BY <1>7, <1>1, Sets DEF Settle, SettledTo
  <1>8. CASE Latch(r)
    BY <1>8, <1>1, Sets DEF Latch
  <1>9. CASE BackoffCanceled(r)
    BY <1>9, <1>1, Sets DEF BackoffCanceled
  <1>10. CASE BackoffElapsed(r)
    BY <1>10, <1>1, Sets DEF BackoffElapsed
  <1> QED
    BY <1>2, <1>3, <1>4, <1>5, <1>6, <1>7, <1>8, <1>9, <1>10

\* the start waiter and the probe loop always;
LEMMA HelperDrifts ==
    ASSUME TypeOK, NEW r \in Runs,
           WaiterQuits(r) \/ WaiterElapses(r) \/ Promote(r) \/ PublishHealth(r) \/ ProbeEnds(r)
    PROVE  Drift
  <1> USE DEF Drift, Drifts, StartSteps, StopSteps, Teardown, Before, After, Proc, Closed,
              Loc, At, others
  <1>1. /\ r \in Threads /\ proc \in Proc /\ closed \in Closed
        /\ pc \in [Threads -> Labels] /\ loc \in [Threads -> Loc]
    BY Types, Sets
  <1>2. CASE WaiterQuits(r)
    BY <1>2, <1>1, Sets DEF WaiterQuits
  <1>3. CASE WaiterElapses(r)
    BY <1>3, <1>1, Sets DEF WaiterElapses
  <1>4. CASE Promote(r)
    BY <1>4, <1>1, Sets DEF Promote
  <1>5. CASE PublishHealth(r)
    BY <1>5, <1>1, Sets DEF PublishHealth
  <1>6. CASE ProbeEnds(r)
    BY <1>6, <1>1, Sets DEF ProbeEnds
  <1> QED
    BY <1>2, <1>3, <1>4, <1>5, <1>6

\* and so do the child and whoever calls Start and Stop, until a start is decided.
LEMMA EnvironmentDrifts == ASSUME TypeOK, Environment, ~ReconcilerStarts PROVE Drift
  <1> USE DEF Drift, Drifts, StartSteps, StopSteps, Teardown, Before, After, Proc, Closed,
              Loc, At, others
  <1>1. /\ Reconciler \in Threads /\ Shutdown \in Callers /\ Clients \subseteq Callers
        /\ pc \in [Threads -> Labels]
    BY Types, Sets DEF Callers
  <1>2. CASE ReconcilerStops
    BY <1>1, <1>2, Sets DEF ReconcilerStops
  <1>3. CASE BeginShutdown
    BY <1>1, <1>3, Sets DEF BeginShutdown
  <1>4. CASE DaemonExits
    BY <1>1, <1>4, Sets DEF DaemonExits
  <1>5. ASSUME NEW c \in Clients, ClientStops(c) PROVE Drift
    BY <1>1, <1>5, Sets DEF ClientStops
  <1>6. ASSUME NEW r \in Runs, ChildExits(r) PROVE Drift
    BY <1>1, <1>6 DEF ChildExits
  <1>7. ASSUME NEW r \in Runs, NEW h \in {"HEALTHY", "UNHEALTHY"}, ProbeResult(r, h)
        PROVE  Drift
    BY <1>1, <1>7 DEF ProbeResult
  <1> QED
    BY <1>2, <1>3, <1>4, <1>5, <1>6, <1>7 DEF Environment

-----------------------------------------------------------------------------

\* A monitor that is not at rest is the only one, and nobody is starting.
LEMMA Alone ==
    ASSUME TypeOK, Places, Control, NEW r \in Runs, ~AtRest(r), ~InStart(r)
    PROVE  /\ \A t \in Threads : ~InStart(t)
           /\ pc[Reconciler] # "start"
           /\ proc.state # "STOPPED"
           /\ r = runs \/ (pc[r] = "fatal" /\ r < runs)
           /\ \A q \in Runs \ {r} : AtRest(q)
  <1>1. \A t \in Threads : ~InStart(t)
    BY DEF Control, OneStart
  <1>2. pc[Reconciler] # "start" /\ proc.state # "STOPPED"
    BY DEF Control, Decided, StoppedRests
  <1>3. \A q \in Runs : q < runs => AtRest(q) \/ pc[q] = "fatal"
    BY <1>1, Sets DEF Control, OldRuns, Places, Ended, AtRest, Canceled, InStart
  <1>4. \A q \in Runs : q > runs => AtRest(q)
    BY DEF Places, AtRest
  <1>5. runs \in Nat /\ Runs \subseteq Nat
    BY Types, Sets
  <1>6. r = runs \/ (pc[r] = "fatal" /\ r < runs)
    BY <1>3, <1>4, <1>5
  <1>7. \A q \in Runs : pc[q] = "fatal" /\ q < runs => \A s \in Runs \ {q} : AtRest(s)
    BY DEF Control, FailedRestart
  <1>8. ASSUME NEW q \in Runs \ {r} PROVE AtRest(q)
    BY <1>3, <1>4, <1>5, <1>6, <1>7
  <1> QED
    BY <1>1, <1>2, <1>6, <1>8

\* A step of a monitor that changes nothing but where it is, and the state.
Moves(r) ==
    /\ \A t \in Threads \ {r} : pc'[t] = pc[t] /\ loc'[t] = loc[t]
    /\ runs' = runs /\ closed' = closed
    /\ proc'.cancel = proc.cancel /\ proc'.stoppedExternally = proc.stoppedExternally

\* Everybody else is where they were.
LEMMA MovesFacts ==
    ASSUME TypeOK, NEW r \in Runs, Moves(r)
    PROVE  /\ \A q \in Runs \ {r} : AtRest(q) => AtRest(q)'
           /\ NoStop => NoStop'
           /\ \A c \in Callers : c # r /\ pc'[c] = pc[c] /\ loc'[c] = loc[c]
  <1>1. \A c \in Callers : c # r /\ pc'[c] = pc[c] /\ loc'[c] = loc[c]
    BY Sets DEF Moves
  <1>2. \A q \in Runs \ {r} : AtRest(q) => AtRest(q)'
    BY Sets DEF Moves, AtRest, Canceled
  <1>3. NoStop => NoStop'
    BY <1>1 DEF NoStop, InStop
  <1> QED
    BY <1>1, <1>2, <1>3

\* A monitor that moves stays inside its code.
LEMMA MovesPlaces ==
    ASSUME TypeOK, Places, NEW r \in Runs, Moves(r), pc[r] # "off",
           pc'[r] \in {"off", "await", "start", "done"} \cup StartSteps \cup ExitSteps
    PROVE  Places'
  BY MovesFacts, Sets DEF Places, Moves

\* No Stop that found nothing to stop has been overtaken.
LEMMA MovesAsked ==
    ASSUME TypeOK, Control, NEW r \in Runs, Moves(r), pc[r] \in Ended => pc'[r] \in Ended
    PROVE  Asked'
  <1>1. \A c \in Callers : pc'[c] = pc[c] /\ loc'[c] = loc[c]
    BY MovesFacts
  <1>2. \A q \in Runs \ {r} : pc'[q] = pc[q]
    BY Sets DEF Moves
  <1> QED
    BY <1>1, <1>2 DEF Control, Asked, Moves, InStop, NothingToStop

\* With every monitor at rest and nobody starting there is little to say.
LEMMA AllRest ==
    ASSUME TypeOK', Asked', \A r \in Runs : AtRest(r)', \A t \in Threads : ~InStart(t)',
           proc'.state # "BACKOFF",
           pc'[Reconciler] = "start" => proc'.state \in {"STOPPED", "STOPPING"}
    PROVE  Control'
  <1>1. \A r \in Runs : pc'[r] \in Ended
    BY DEF AtRest, Ended
  <1> QED
    BY <1>1, Sets
    DEF Control, OneStart, Restarting, FailedRestart, OldRuns, Decided, StoppedRests, Settling,
        Backing, Ended, Teardown

\* A monitor ends.
LEMMA EndKeeps ==
    ASSUME TypeOK, TypeOK', Places, Control, NEW r \in Runs, Moves(r), ~AtRest(r), ~InStart(r),
           pc'[r] = "done", proc'.state # "BACKOFF"
    PROVE  Places' /\ Control'
  <1>1. /\ \A t \in Threads : ~InStart(t)
        /\ pc[Reconciler] # "start"
        /\ \A q \in Runs \ {r} : AtRest(q)
    BY Alone
  <1>2. pc[r] # "off"
    BY DEF AtRest
  <1>3. Places'
    BY <1>2, MovesPlaces
  <1>4. Asked'
    BY MovesAsked DEF Ended
  <1>5. \A q \in Runs : AtRest(q)'
    BY <1>1, MovesFacts DEF AtRest
  <1>6. \A t \in Threads : ~InStart(t)'
    BY <1>1, Sets DEF InStart, Moves, StartSteps
  <1>7. pc'[Reconciler] # "start"
    BY <1>1, MovesFacts, Sets
  <1> QED
    BY <1>3, <1>4, <1>5, <1>6, <1>7, AllRest

\* A monitor goes on to what may become a restart, ...
LEMMA DecideKeeps ==
    ASSUME TypeOK, TypeOK', Places, Control, NEW r \in Runs, Moves(r), ~AtRest(r), ~InStart(r),
           pc[r] \notin Ended, r = runs, pc'[r] \in {"policy", "fatal", "backoff"},
           proc'.state \in {"EXITED", "STOPPING"}
    PROVE  Places' /\ Control'
  <1>1. /\ \A t \in Threads : ~InStart(t)
        /\ pc[Reconciler] # "start"
        /\ \A q \in Runs \ {r} : AtRest(q)
    BY Alone
  <1>2. Places'
    BY MovesPlaces DEF ExitSteps, Ended
  <1>3. Asked'
    BY MovesAsked
  <1>4. \A q \in Runs \ {r} : AtRest(q)' /\ pc'[q] \in Ended
    BY <1>1, MovesFacts DEF AtRest, Ended
  <1>5. \A t \in Threads : ~InStart(t)'
    BY <1>1, Sets DEF InStart, Moves, StartSteps
  <1>6. pc'[Reconciler] # "start"
    BY <1>1, MovesFacts, Sets
  <1>7. runs' = r /\ r \in Nat
    BY Sets DEF Moves
  <1> QED
    BY <1>2, <1>3, <1>4, <1>5, <1>6, <1>7, Sets
    DEF Control, OneStart, Restarting, FailedRestart, OldRuns, Decided, StoppedRests, Settling,
        Backing, Ended, Teardown

\* ... and then to the restart.
LEMMA RetryKeeps ==
    ASSUME TypeOK, TypeOK', Places, Control, NEW r \in Runs, Moves(r), ~AtRest(r), ~InStart(r),
           r = runs, NoStop,
           \/ pc'[r] = "retry" /\ proc'.state = "EXITED"
           \/ pc'[r] = "start" /\ proc'.state = "BACKOFF"
    PROVE  Places' /\ Control'
  <1>1. /\ \A t \in Threads : ~InStart(t)
        /\ pc[Reconciler] # "start"
        /\ \A q \in Runs \ {r} : AtRest(q)
    BY Alone
  <1>2. Places'
    BY MovesPlaces DEF ExitSteps, AtRest
  <1>3. NoStop' /\ Asked'
    BY MovesFacts DEF Asked, NoStop
  <1>4. \A q \in Runs \ {r} : AtRest(q)' /\ pc'[q] \in Ended
    BY <1>1, MovesFacts DEF AtRest, Ended
  <1>5. \A t \in Threads : ~InStart(t)'
    BY <1>1, Sets DEF InStart, Moves, StartSteps
  <1>6. pc'[Reconciler] # "start"
    BY <1>1, MovesFacts, Sets
  <1>7. runs' = r /\ r \in Nat
    BY Sets DEF Moves
  <1> QED
    BY <1>2, <1>3, <1>4, <1>5, <1>6, <1>7, Sets
    DEF Control, OneStart, Restarting, FailedRestart, OldRuns, Decided, StoppedRests, Settling,
        Backing, Ended, Teardown

\* The steps of a monitor that are not drift.
LEMMA MonitorKeeps ==
    ASSUME TypeOK, TypeOK', Places, Control, Calm', NEW r \in Runs, MonitorStep(r)
    PROVE  Places' /\ Control'
  <1>1. /\ r \in Threads /\ proc \in Proc
        /\ pc \in [Threads -> Labels] /\ loc \in [Threads -> Loc]
    BY Types, Sets
  <1>2. ASSUME PublishStopped(r) \/ PublishExited(r) \/ PublishFatal(r)
        PROVE  Places' /\ Control'
    <2>1. Moves(r) /\ pc'[r] = "done" /\ proc'.state # "BACKOFF"
      BY <1>1, <1>2
      DEF PublishStopped, PublishExited, PublishFatal, SetState, Proc, At, others, Moves
    <2>2. ~AtRest(r) /\ ~InStart(r)
      BY <1>2 DEF PublishStopped, PublishExited, PublishFatal, At, AtRest, InStart, StartSteps
    <2> QED
      BY <2>1, <2>2, EndKeeps
  <1>3. CASE Exiting(r)
    <2>1. Moves(r) /\ pc[r] = "exiting" /\ pc'[r] = "policy" /\ proc'.state = "EXITED"
      BY <1>1, <1>3 DEF Exiting, SetState, Proc, At, others, Moves
    <2>2. ~AtRest(r) /\ ~InStart(r) /\ pc[r] \notin Ended /\ r = runs
      <3>1. ~AtRest(r) /\ ~InStart(r) /\ pc[r] \notin Ended
        BY <2>1 DEF AtRest, InStart, StartSteps, Ended
      <3> QED
        BY <2>1, <3>1, Alone
    <2> QED
      BY <2>1, <2>2, DecideKeeps
  <1>4. CASE Policy(r)
    <2>1. /\ Moves(r) /\ pc[r] = "policy" /\ pc'[r] \in {"done", "fatal", "backoff"}
          /\ proc'.state = proc.state
      BY <1>1, <1>4 DEF Policy, Proc, At, others, Moves
    <2>2. ~AtRest(r) /\ ~InStart(r) /\ pc[r] \notin Ended
      BY <2>1 DEF AtRest, InStart, StartSteps, Ended
    <2>3. r = runs /\ proc.state \in {"EXITED", "STOPPING"}
      BY <2>1, <2>2, Alone DEF Control, Settling
    <2> QED
      BY <2>1, <2>2, <2>3, EndKeeps, DecideKeeps
  <1>5. CASE CheckCanceled(r)
    <2>1. CASE StopWanted
      <3> Drift
        BY <1>1, <1>5, <2>1, Sets
        DEF CheckCanceled, At, others, Drift, Drifts, StartSteps, StopSteps
      <3> QED
        BY DriftKeeps
    <2>2. CASE ~StopWanted
      <3>1. /\ Moves(r) /\ pc[r] = "check" /\ pc'[r] = "retry" /\ proc'.state = proc.state
            /\ ~Canceled(r)
        BY <1>1, <1>5, <2>2 DEF CheckCanceled, At, others, Moves, Calm
      <3>2. ~AtRest(r) /\ ~InStart(r)
        BY <3>1 DEF AtRest, InStart, StartSteps
      <3>3. r = runs
        BY <3>1, <3>2, Alone
      <3>4. proc.state = "EXITED"
        BY <2>2, <3>1, <3>2 DEF Control, Settling, StopWanted
      <3>5. NoStop
        BY <2>2 DEF Control, Asked, NoStop, StopWanted
      <3> QED
        BY <3>1, <3>2, <3>3, <3>4, <3>5, RetryKeeps
    <2> QED
      BY <2>1, <2>2
  <1>6. CASE Retry(r)
    <2>1. Moves(r) /\ pc[r] = "retry" /\ pc'[r] = "start" /\ proc'.state = "BACKOFF"
      BY <1>1, <1>6 DEF Retry, SetState, Proc, At, others, Moves
    <2>2. ~AtRest(r) /\ ~InStart(r)
      BY <2>1 DEF AtRest, InStart, StartSteps
    <2>3. r = runs /\ NoStop
      BY <2>1 DEF Control, Restarting
    <2> QED
      BY <2>1, <2>2, <2>3, RetryKeeps
  <1> QED
    BY <1>2, <1>3, <1>4, <1>5, <1>6, MonitorDrifts, DriftKeeps DEF MonitorStep

\* A start is the only thing under way.
LEMMA Sole ==
    ASSUME TypeOK, Places, Control, NEW t \in Threads, InStart(t)
    PROVE  /\ runs \in Runs /\ t # runs /\ loc[t].cmd = runs /\ pc[runs] = "off"
           /\ \A r \in Runs \ {t} : AtRest(r)
           /\ NoStop
           /\ \A u \in Threads \ {t} : ~InStart(u)
           /\ pc[Reconciler] # "start"
  <1>1. /\ loc[t].cmd = runs /\ pc[runs] = "off" /\ NoStop
        /\ \A r \in Runs \ {t} : AtRest(r)
    BY DEF Control, OneStart
  <1>2. runs \in Runs
    BY <1>1 DEF TypeOK, InStart, Run0
  <1>3. t # runs
    BY <1>1 DEF InStart, StartSteps
  <1>4. t \in Runs => pc[Reconciler] # "start"
    BY DEF Control, Decided, AtRest, InStart, StartSteps
  <1>5. pc[Reconciler] # "start"
    BY <1>4, Sets DEF Places, InStart, StartSteps, StopSteps, Threads
  <1>6. \A u \in Runs \ {t} : ~InStart(u)
    BY <1>1 DEF AtRest, InStart, StartSteps
  <1>7. \A u \in Callers \ {Reconciler} : ~InStart(u)
    BY DEF Places, InStart, StartSteps, StopSteps
  <1>8. InStart(Reconciler) => t \notin Runs
    BY Sets DEF Control, OneStart, AtRest, InStart, StartSteps
  <1> QED
    BY <1>1, <1>2, <1>3, <1>5, <1>6, <1>7, <1>8 DEF Threads

\* Before a start is entered everything else has come to rest.
LEMMA ReadyToEnter ==
    ASSUME TypeOK, Places, Control, NEW t \in {Reconciler} \cup Runs, pc[t] = "start"
    PROVE  /\ Startable /\ proc.state \in {"STOPPED", "STOPPING", "BACKOFF"}
           /\ proc.state = "BACKOFF" => t \in Runs
           /\ t \in Runs => t = runs /\ proc.state = "BACKOFF" /\ pc[Reconciler] # "start"
           /\ \A r \in Runs \ {t} : AtRest(r)
           /\ \A u \in Threads : ~InStart(u)
  <1>1. CASE t \in Runs
    <2>1. ~AtRest(t) /\ ~InStart(t)
      BY <1>1 DEF AtRest, InStart, StartSteps
    <2>2. t = runs /\ proc.state = "BACKOFF"
      BY <1>1 DEF Control, Restarting
    <2> QED
      BY <1>1, <2>1, <2>2, Alone DEF Startable
  <1>2. CASE t = Reconciler
    <2>1. proc.state \in {"STOPPED", "STOPPING"} /\ \A r \in Runs : AtRest(r)
      BY <1>2 DEF Control, Decided
    <2>2. \A r \in Runs : ~InStart(r)
      BY <2>1 DEF AtRest, InStart, StartSteps
    <2>3. \A c \in Callers : ~InStart(c)
      BY <1>2 DEF Places, InStart, StartSteps, StopSteps
    <2> QED
      BY <1>2, <2>1, <2>2, <2>3, Sets DEF Startable, Threads
  <1> QED
    BY <1>1, <1>2

LEMMA EnterKeeps ==
    ASSUME TypeOK, TypeOK', Places, Control, Calm', NEW t \in {Reconciler} \cup Runs, Enter(t)
    PROVE  Places' /\ Control'
  <1>1. /\ t \in Threads /\ proc \in Proc /\ closed \in Closed /\ runs \in Nat
        /\ pc \in [Threads -> Labels] /\ loc \in [Threads -> Loc]
    BY Types, Sets
  <1>2. /\ pc[t] = "start" /\ pc' = [pc EXCEPT ![t] = "starting"]
        /\ runs' = runs + 1 /\ runs + 1 \in Runs
        /\ loc'[t].cmd = runs + 1
    <2>1. runs + 1 \in Run0
      BY DEF TypeOK, Enter
    <2> QED
      BY <1>1, <2>1 DEF Enter, At, Run0, NoLoc
  <1>3. proc'.state = proc.state /\ proc'.cancel = runs + 1
    BY <1>1 DEF Enter, FreshRun, Proc
  <1>4. closed'.ctx = closed.ctx \cup ({runs} \ {0}) /\ closed'.stop = closed.stop
    BY <1>1 DEF Enter, Closed, Places
  <1>5. NoStop
    BY DEF Enter, Calm, NoStop
  <1>6. /\ proc.state \in {"STOPPED", "STOPPING", "BACKOFF"}
        /\ proc.state = "BACKOFF" => t \in Runs
        /\ t \in Runs => t = runs /\ proc.state = "BACKOFF" /\ pc[Reconciler] # "start"
        /\ \A r \in Runs \ {t} : AtRest(r)
        /\ \A u \in Threads : ~InStart(u)
    BY <1>2, ReadyToEnter
  <1>7. \A u \in Threads \ {t} : pc'[u] = pc[u]
    BY <1>1, <1>2
  <1>8. pc'[t] = "starting"
    BY <1>1, <1>2
  <1>9. NoStop'
    BY <1>5, <1>7, <1>8, Sets DEF NoStop, InStop, StopSteps
  <1>10. \A r \in Runs \ {t} : AtRest(r)' /\ pc'[r] \in Ended
    BY <1>4, <1>6, <1>7, Sets DEF AtRest, Canceled, Ended
  <1>11. \A u \in Threads \ {t} : ~InStart(u)'
    BY <1>6, <1>7 DEF InStart
  <1>12. Places'
    <2>1. ASSUME NEW r \in Runs, r < runs' PROVE r \in closed'.ctx
      <3>1. r \in Nat /\ r # 0 /\ (r < runs \/ r = runs)
        BY <1>1, <1>2, <2>1, Sets
      <3> QED
        BY <1>4, <3>1 DEF Places
    <2>2. \A r \in Runs : r > runs' => pc'[r] = "off"
      BY <1>1, <1>2, <1>7, <1>6, Sets DEF Places
    <2>3. \A c \in Callers :
          \/ pc'[c] \in {"idle", "stop"} \cup StopSteps
          \/ c = Reconciler /\ pc'[c] \in {"start"} \cup StartSteps
      BY <1>7, <1>8, Sets DEF Places, StartSteps
    <2>4. \A r \in Runs :
             pc'[r] \in {"off", "await", "start", "done"} \cup StartSteps \cup ExitSteps
      BY <1>7, <1>8, Sets DEF Places, StartSteps
    <2> QED
      BY <1>2, <1>3, <2>1, <2>2, <2>3, <2>4 DEF Places
  <1>13. pc'[runs'] = "off"
    BY <1>1, <1>2, <1>7, <1>6, Sets DEF Places
  <1>14. OneStart'
    BY <1>2, <1>3, <1>6, <1>8, <1>9, <1>10, <1>11, <1>13 DEF OneStart
  <1>15. Asked'
    BY <1>9 DEF Asked, NoStop
  <1>16. Restarting' /\ FailedRestart' /\ OldRuns'
    BY <1>8, <1>10 DEF Restarting, FailedRestart, OldRuns, Ended, StartSteps
  <1>17. Settling'
    BY <1>8, <1>10 DEF Settling, Ended, AtRest, Teardown
  <1>18. Decided' /\ StoppedRests' /\ Backing'
    BY <1>3, <1>6, <1>7, <1>8, <1>10, Sets DEF Decided, StoppedRests, Backing
  <1> QED
    BY <1>12, <1>14, <1>15, <1>16, <1>17, <1>18 DEF Control

\* A step of the one start that is under way, to its end or not.
StartMoves(t) ==
    /\ \A u \in Threads \ {t, runs} : pc'[u] = pc[u] /\ loc'[u] = loc[u]
    /\ runs' = runs /\ closed' = closed /\ proc'.cancel = proc.cancel

\* What a step of the start leaves to everybody else.
LEMMA StartMovesFacts ==
    ASSUME TypeOK, Places, Control, NEW t \in {Reconciler} \cup Runs, InStart(t), StartMoves(t),
           t \in Callers => pc'[t] \in StartSteps \cup {"idle"}
    PROVE  /\ \A r \in Runs \ {t, runs} : AtRest(r)' /\ pc'[r] \in Ended
           /\ NoStop' /\ Asked'
           /\ \A u \in Threads \ {t, runs} : ~InStart(u)'
           /\ pc'[Reconciler] # "start"
  <1>1. t \in Threads
    BY Sets
  <1>2. /\ runs \in Runs /\ t # runs
        /\ \A r \in Runs \ {t} : AtRest(r)
        /\ NoStop
        /\ \A u \in Threads \ {t} : ~InStart(u)
        /\ pc[Reconciler] # "start"
    BY <1>1, Sole
  <1>3. \A r \in Runs \ {t, runs} : AtRest(r)' /\ pc'[r] \in Ended
    BY <1>2, Sets DEF StartMoves, AtRest, Canceled, Ended
  <1>4. \A c \in Callers : c # runs
    BY <1>2, Sets
  <1>5. NoStop'
    BY <1>2, <1>4, Sets DEF StartMoves, NoStop, InStop, StartSteps, StopSteps
  <1>6. pc'[Reconciler] # "start"
    BY <1>2, <1>4, Sets DEF StartMoves, StartSteps
  <1> QED
    BY <1>2, <1>3, <1>5, <1>6, Sets DEF StartMoves, InStart, Asked, NoStop

\* And it stays inside its code.
LEMMA StartPlaces ==
    ASSUME TypeOK, Places, Control, NEW t \in {Reconciler} \cup Runs, InStart(t), StartMoves(t),
           pc'[runs] \in {"off", "await"},
           t \in Callers => pc'[t] \in StartSteps \cup {"idle"},
           t \in Runs => pc'[t] \in {"done"} \cup StartSteps \cup ExitSteps
    PROVE  Places'
  <1>1. /\ runs \in Runs /\ t # runs /\ t \in Threads
        /\ t \in Runs => t < runs
    BY Sole, Types, Sets DEF Places, InStart, StartSteps
  <1>2. runs \in Nat /\ Runs \subseteq Nat
    BY Types, Sets
  <1>3. \A c \in Callers :
          \/ pc'[c] \in {"idle", "stop"} \cup StopSteps
          \/ c = Reconciler /\ pc'[c] \in {"start"} \cup StartSteps
    BY <1>1, Sets DEF Places, StartMoves
  <1>4. \A r \in Runs :
           pc'[r] \in {"off", "await", "start", "done"} \cup StartSteps \cup ExitSteps
    BY <1>1, Sets DEF Places, StartMoves
  <1>5. \A r \in Runs : r > runs => pc'[r] = "off"
    BY <1>1, <1>2, Sets DEF Places, StartMoves
  <1> QED
    BY <1>3, <1>4, <1>5 DEF Places, StartMoves

\* Publishing STARTING, launching the monitor, and FATAL.
LEMMA StartKeeps ==
    ASSUME TypeOK, TypeOK', Places, Control, NEW t \in {Reconciler} \cup Runs,
           Starting(t) \/ Launch(t) \/ StartFatal(t)
    PROVE  Places' /\ Control'
  <1>1. /\ t \in Threads /\ proc \in Proc
        /\ pc \in [Threads -> Labels] /\ loc \in [Threads -> Loc]
    BY Types, Sets
  <1>2. InStart(t)
    BY DEF Starting, Launch, StartFatal, At, InStart, StartSteps
  <1>3. /\ runs \in Runs /\ t # runs /\ loc[t].cmd = runs /\ pc[runs] = "off"
        /\ \A r \in Runs \ {t} : AtRest(r)
        /\ \A u \in Threads \ {t} : ~InStart(u)
    BY <1>1, <1>2, Sole
  <1>4. t \in Runs => t < runs
    BY <1>2, <1>3, Types, Sets DEF Places, InStart, StartSteps
  <1>5. runs \in Nat /\ Runs \subseteq Nat
    BY Types, Sets
  <1>6. CASE Starting(t)
    <2>1. /\ StartMoves(t) /\ pc'[t] = "logging" /\ pc'[runs] = "off" /\ proc'.state = "STARTING"
          /\ loc' = loc
      BY <1>1, <1>3, <1>6, Sets DEF Starting, SetState, Proc, At, others, StartMoves
    <2>2. /\ \A r \in Runs \ {t, runs} : AtRest(r)' /\ pc'[r] \in Ended
          /\ NoStop' /\ Asked'
          /\ \A u \in Threads \ {t, runs} : ~InStart(u)'
          /\ pc'[Reconciler] # "start"
      BY <1>2, <2>1, StartMovesFacts DEF StartSteps
    <2>3. AtRest(runs)' /\ ~InStart(runs)'
      BY <2>1 DEF AtRest, InStart, StartSteps, StartMoves
    <2>4. Places'
      BY <1>2, <1>3, <2>1, StartPlaces DEF StartSteps
    <2>5. OneStart'
      BY <1>3, <2>1, <2>2, <2>3 DEF OneStart, StartMoves
    <2>6. Restarting' /\ FailedRestart' /\ OldRuns'
      BY <2>1, <2>2 DEF Restarting, FailedRestart, OldRuns, Ended, StartSteps
    <2>7. Settling'
      BY <2>1, <2>2 DEF Settling, Ended, AtRest, Teardown
    <2>8. Decided' /\ StoppedRests' /\ Backing'
      BY <2>1, <2>2 DEF Decided, StoppedRests, Backing
    <2> QED
      BY <2>2, <2>4, <2>5, <2>6, <2>7, <2>8 DEF Control
  <1>7. CASE Launch(t)
    <2>1. /\ StartMoves(t) /\ pc'[t] = Returned(t) /\ pc'[runs] = "await"
          /\ proc'.state \in {"STARTING", "RUNNING"}
      BY <1>1, <1>2, <1>3, <1>7, Sets DEF Launch, StartMoves, Control, OneStart
    <2>2. /\ \A r \in Runs \ {t, runs} : AtRest(r)' /\ pc'[r] \in Ended
          /\ NoStop' /\ Asked'
          /\ \A u \in Threads \ {t, runs} : ~InStart(u)'
          /\ pc'[Reconciler] # "start"
      BY <1>2, <2>1, Sets, StartMovesFacts DEF Returned
    <2>3. \A u \in Threads : ~InStart(u)'
      BY <2>1, <2>2 DEF Returned, InStart, StartSteps
    <2>4. t \in Runs => AtRest(t)' /\ pc'[t] \in Ended
      BY <2>1 DEF Returned, AtRest, Ended
    <2>5. Places'
      BY <1>2, <2>1, Sets, StartPlaces DEF Returned
    <2>6. OneStart' /\ Restarting' /\ FailedRestart' /\ OldRuns'
      BY <1>5, <2>1, <2>2, <2>3, <2>4
      DEF OneStart, Restarting, FailedRestart, OldRuns, StartMoves, Ended
    <2>7. Settling'
      BY <2>1, <2>2, <2>4 DEF Settling, Ended, AtRest, Teardown
    <2>8. Decided' /\ StoppedRests' /\ Backing'
      BY <2>1, <2>2 DEF Decided, StoppedRests, Backing
    <2> QED
      BY <2>2, <2>5, <2>6, <2>7, <2>8 DEF Control
  <1>8. CASE StartFatal(t)
    <2>1. /\ StartMoves(t) /\ pc'[t] = (IF t \in Runs THEN "fatal" ELSE "idle")
          /\ pc'[runs] = "off" /\ proc'.state = "FATAL"
      BY <1>1, <1>3, <1>8, Sets DEF StartFatal, SetState, Proc, At, others, StartMoves
    <2>2. /\ \A r \in Runs \ {t, runs} : AtRest(r)' /\ pc'[r] \in Ended
          /\ NoStop' /\ Asked'
          /\ \A u \in Threads \ {t, runs} : ~InStart(u)'
          /\ pc'[Reconciler] # "start"
      BY <1>2, <2>1, Sets, StartMovesFacts
    <2>3. AtRest(runs)' /\ \A u \in Threads : ~InStart(u)'
      BY <2>1, <2>2 DEF AtRest, InStart, StartSteps, StartMoves
    <2>4. Places'
      BY <1>2, <1>3, <2>1, Sets, StartPlaces DEF ExitSteps
    <2>5. OneStart' /\ Restarting'
      BY <2>1, <2>2, <2>3 DEF OneStart, Restarting, Ended
    <2>6. FailedRestart'
      <3>1. \A q \in Runs \ {t} : AtRest(q)'
        BY <2>1, <2>2, <2>3 DEF StartMoves
      <3>2. \A q \in Runs \ {t} : pc'[q] # "fatal"
        BY <2>1, <2>2 DEF Ended
      <3> QED
        BY <2>1, <2>2, <3>1, <3>2 DEF FailedRestart
    <2>9. OldRuns'
      BY <2>1, <2>2 DEF OldRuns, Ended
    <2>7. Settling'
      BY <1>3, <2>1, <2>2, <2>3 DEF Settling, Ended, AtRest, Teardown, StartMoves
    <2>8. Decided' /\ StoppedRests' /\ Backing'
      BY <2>1, <2>2 DEF Decided, StoppedRests, Backing
    <2> QED
      BY <2>2, <2>4, <2>5, <2>6, <2>7, <2>8, <2>9 DEF Control
  <1> QED
    BY <1>6, <1>7, <1>8

\* A Stop begins: under Calm nobody is about to start, or to give up.
LEMMA BeginStopKeeps ==
    ASSUME TypeOK, TypeOK', Places, Control, Calm', NEW c \in Callers, BeginStop(c)
    PROVE  Places' /\ Control'
  <1>1. /\ c \in Threads /\ proc \in Proc /\ closed \in Closed
        /\ pc \in [Threads -> Labels] /\ loc \in [Threads -> Loc]
    BY Types, Sets
  <1>2. \A t \in Threads : ~Committed(t)
    BY DEF BeginStop, Calm
  <1>3. /\ pc[c] = "stop" /\ pc' = [pc EXCEPT ![c] = "taking"] /\ runs' = runs
        /\ loc'[c].cancel = proc.cancel /\ loc'[c].state = proc.state
        /\ \A u \in Threads \ {c} : loc'[u] = loc[u]
    BY <1>1 DEF BeginStop, At, others, NoLoc
  <1>4. /\ proc'.state = proc.state /\ proc'.cancel = proc.cancel /\ proc'.stoppedExternally
        /\ closed'.ctx = closed.ctx /\ closed.stop \subseteq closed'.stop
    BY <1>1 DEF BeginStop, MarkStopped, Proc, Closed
  <1>5. \A u \in Threads \ {c} : pc'[u] = pc[u]
    BY <1>1, <1>3
  <1>6. pc'[c] = "taking"
    BY <1>1, <1>3
  <1>7. \A r \in Runs : pc'[r] = pc[r] /\ (AtRest(r) => AtRest(r)')
    BY <1>4, <1>5, Sets DEF AtRest, Canceled
  <1>8. \A t \in Threads : ~InStart(t) /\ ~InStart(t)'
    BY <1>2, <1>5, <1>6 DEF Committed, InStart, StartSteps
  <1>9. \A r \in Runs : pc[r] \notin {"policy", "fatal", "retry", "start"} \cup StartSteps
    BY <1>2, Sets DEF Committed, InStart
  <1>10. Places'
    <2>1. \A u \in Callers :
          \/ pc'[u] \in {"idle", "stop"} \cup StopSteps
          \/ u = Reconciler /\ pc'[u] \in {"start"} \cup StartSteps
      BY <1>5, <1>6, Sets DEF Places, StopSteps
    <2> QED
      BY <1>3, <1>4, <1>7, <2>1 DEF Places
  <1>11. Asked'
    <2>1. NothingToStop(proc.state) => \A r \in Runs : pc[r] \in Ended
      <3>1. proc.state \notin {"STARTING", "RUNNING", "STOPPING"} =>
                \A r \in Runs : pc[r] \notin Teardown
        BY DEF Control, Settling
      <3>2. NothingToStop(proc.state) => proc.state \notin {"STARTING", "RUNNING", "STOPPING"}
        BY DEF NothingToStop, IsStopped
      <3> QED
        BY <1>9, <3>1, <3>2 DEF Places, Teardown, Ended, ExitSteps
    <2>2. \A u \in Callers \ {c} : pc'[u] = pc[u] /\ loc'[u] = loc[u] /\ InStop(u)' = InStop(u)
      BY <1>3, <1>5, Sets DEF InStop
    <2>3. ASSUME NEW u \in Callers, InStop(u)'
          PROVE  /\ proc'.stoppedExternally /\ loc'[u].cancel = runs'
                 /\ pc'[u] \in Before \cup {"resting"} /\ NothingToStop(loc'[u].state)
                        => \A r \in Runs : pc'[r] \in Ended
                 /\ pc'[u] = "resting" => /\ NothingToStop(loc'[u].state)
                                         /\ runs' \in closed'.ctx \cup {0}
      <3>1. CASE u = c
        BY <1>3, <1>4, <1>6, <1>7, <2>1, <3>1 DEF Places
      <3>2. CASE u # c
        BY <1>3, <1>4, <1>7, <2>2, <2>3, <3>2 DEF Control, Asked
      <3> QED
        BY <3>1, <3>2
    <2> QED
      BY <2>3, Zenon DEF Asked, NothingToStop
  <1>12. OneStart' /\ Restarting' /\ FailedRestart'
    BY <1>7, <1>8, <1>9 DEF OneStart, Restarting, FailedRestart
  <1>13. OldRuns' /\ Settling'
    BY <1>3, <1>4, <1>7, <1>9 DEF Control, OldRuns, Settling
  <1>14. Decided' /\ StoppedRests' /\ Backing'
    BY <1>4, <1>5, <1>6, <1>7, <1>9, Sets
    DEF Control, Decided, StoppedRests, Backing, StartSteps
  <1> QED
    BY <1>10, <1>11, <1>12, <1>13, <1>14 DEF Control

\* The two states Stop itself publishes.
LEMMA StopKeeps ==
    ASSUME TypeOK, TypeOK', Places, Control, NEW c \in Callers, Resting(c) \/ Stopping(c)
    PROVE  Places' /\ Control'
  <1>1. /\ c \in Threads /\ proc \in Proc /\ runs \in Nat /\ Runs \subseteq Nat
        /\ pc \in [Threads -> Labels] /\ loc \in [Threads -> Loc]
    BY Types, Sets
  <1>2. InStop(c) /\ ~NoStop
    BY DEF Resting, Stopping, At, InStop, StopSteps, NoStop
  <1>3. /\ \A t \in Threads : ~InStart(t)
        /\ \A r \in Runs : pc[r] \notin {"retry", "start"} /\ ~(pc[r] = "fatal" /\ r < runs)
    BY <1>2 DEF Control, OneStart, Restarting, FailedRestart
  <1>4. /\ runs' = runs /\ closed' = closed /\ proc'.cancel = proc.cancel
        /\ proc'.stoppedExternally = proc.stoppedExternally
        /\ \A u \in Threads \ {c} : pc'[u] = pc[u] /\ loc'[u] = loc[u]
        /\ pc'[c] \in {"idle", "waiting", "finishing"}
        /\ pc'[c] = "idle" \/ loc' = loc
    BY <1>1 DEF Resting, Stopping, SetState, At, others, Proc
  <1>5. \A r \in Runs : pc'[r] = pc[r] /\ AtRest(r)' = AtRest(r)
    BY <1>4, Sets DEF AtRest, Canceled
  <1>6. \A t \in Threads : ~InStart(t)'
    BY <1>3, <1>4 DEF InStart, StartSteps
  <1>7. Places'
    BY <1>4, <1>5, Sets DEF Places, StopSteps
  <1>8. Asked'
    <2> SUFFICES ASSUME NEW u \in Callers, InStop(u)'
                 PROVE  /\ proc'.stoppedExternally /\ loc'[u].cancel = runs'
                        /\ pc'[u] \in Before \cup {"resting"} /\ NothingToStop(loc'[u].state)
                               => \A r \in Runs : pc'[r] \in Ended
                        /\ pc'[u] = "resting" => /\ NothingToStop(loc'[u].state)
                                                /\ runs' \in closed'.ctx \cup {0}
      BY Zenon DEF Asked, NothingToStop
    <2>1. CASE u = c
      BY <1>2, <1>4, <2>1 DEF Control, Asked, Before, InStop, StopSteps
    <2>2. CASE u # c
      BY <1>4, <1>5, <2>2, Sets DEF Control, Asked, InStop
    <2> QED
      BY <2>1, <2>2
  <1>9. CASE Resting(c)
    <2>1. pc[c] = "resting" /\ proc'.state = "STOPPED"
      BY <1>1, <1>9 DEF Resting, SetState, At, Proc
    <2>2. (\A r \in Runs : pc[r] \in Ended) /\ runs \in closed.ctx \cup {0}
      BY <1>2, <2>1 DEF Control, Asked
    <2>3. ASSUME NEW r \in Runs PROVE AtRest(r)
      <3>1. r > runs \/ r < runs \/ r = runs
        BY <1>1
      <3>2. r > runs => AtRest(r)
        BY DEF Places, AtRest
      <3>3. r \in closed.ctx => AtRest(r)
        BY <2>2 DEF AtRest, Ended, Canceled
      <3>4. r < runs => r \in closed.ctx
        BY DEF Places
      <3> QED
        BY <2>2, <3>1, <3>2, <3>3, <3>4, Sets
    <2>4. \A r \in Runs : AtRest(r)'
      BY <2>3, <1>5
    <2> QED
      BY <1>6, <1>7, <1>8, <2>1, <2>4, AllRest
  <1>10. CASE Stopping(c)
    <2>1. proc'.state = "STOPPING"
      BY <1>1, <1>10 DEF Stopping, SetState, At, Proc
    <2>2. OneStart' /\ Restarting' /\ FailedRestart'
      BY <1>3, <1>4, <1>5, <1>6 DEF OneStart, Restarting, FailedRestart
    <2>3. OldRuns' /\ Settling'
      BY <1>4, <1>5, <2>1 DEF Control, OldRuns, Settling
    <2>4. Decided' /\ StoppedRests' /\ Backing'
      BY <1>4, <1>5, <2>1, Sets DEF Control, Decided, StoppedRests, Backing
    <2> QED
      BY <1>7, <1>8, <2>2, <2>3, <2>4 DEF Control
  <1> QED
    BY <1>9, <1>10

\* The reconciler decides to start a program that is STOPPED.
LEMMA ReconcilerStartsKeeps ==
    ASSUME TypeOK, TypeOK', Places, Control, ReconcilerStarts
    PROVE  Places' /\ Control'
  <1>1. /\ Reconciler \in Threads /\ pc \in [Threads -> Labels]
    BY Types, Sets
  <1>2. /\ pc[Reconciler] = "idle" /\ pc'[Reconciler] = "start" /\ proc.state = "STOPPED"
        /\ proc' = proc /\ closed' = closed /\ loc' = loc /\ runs' = runs
        /\ \A u \in Threads \ {Reconciler} : pc'[u] = pc[u]
    BY <1>1 DEF ReconcilerStarts, ReadyToStart, At, others
  <1>3. \A r \in Runs : AtRest(r)
    BY <1>2 DEF Control, StoppedRests
  <1>4. \A r \in Runs : pc'[r] = pc[r] /\ AtRest(r)'
    BY <1>2, <1>3, Sets DEF AtRest, Canceled
  <1>5. \A t \in Threads : ~InStart(t)'
    <2>1. \A r \in Runs : ~InStart(r)'
      BY <1>4 DEF AtRest, InStart, StartSteps
    <2>2. \A u \in Callers : ~InStart(u)'
      BY <1>2, Sets DEF Places, InStart, StartSteps, StopSteps
    <2> QED
      BY <2>1, <2>2 DEF Threads
  <1>6. Places'
    BY <1>2, <1>4, Sets DEF Places
  <1>7. Asked'
    <2>1. \A u \in Callers \ {Reconciler} : pc'[u] = pc[u]
      BY <1>2, Sets
    <2>2. ~InStop(Reconciler)'
      BY <1>2 DEF InStop, StopSteps
    <2> QED
      BY <1>2, <1>4, <2>1, <2>2 DEF Control, Asked, InStop, NothingToStop
  <1> QED
    BY <1>2, <1>4, <1>5, <1>6, <1>7, AllRest

\* A stuttering step drifts.
LEMMA StutterDrifts == ASSUME UNCHANGED vars PROVE Drift
  BY DEF vars, Drift, Drifts

\* raced is never taken back.
LEMMA CalmBefore == ASSUME TypeOK, [Next]_vars, Calm' PROVE Calm
  <1>1. ASSUME NEW t \in Threads, StartStep(t) PROVE Calm
    BY <1>1
    DEF StartStep, Calm, others, Enter, EnterRefused, Starting, StartLogging, StartFails, Spawn,
        RecordRun, StartHealthChecks, HealthStarting, Launch, Abort, StartFatal
  <1>2. ASSUME NEW c \in Threads, StopStep(c) PROVE Calm
    BY <1>2
    DEF StopStep, Calm, others, BeginStop, TakeHealth, AwaitProbe, NothingRunning, Resting,
        Stopping, MonitorReports, StopTimeout, GiveUp, Finish
  <1>3. ASSUME NEW r \in Runs, MonitorStep(r) PROVE Calm
    BY <1>3
    DEF MonitorStep, Calm, others, ExitArrives, TakeHealth, AwaitProbe, StopLogging, RecordExit,
        Settle, PublishStopped, PublishExited, Latch, Exiting, Policy, PublishFatal,
        BackoffCanceled, BackoffElapsed, CheckCanceled, Retry
  <1>4. ASSUME NEW r \in Runs, HelperStep(r) PROVE Calm
    BY <1>4
    DEF HelperStep, Calm, WaiterQuits, WaiterElapses, Promote, PublishHealth, ProbeEnds
  <1>5. CASE Environment
    BY <1>5
    DEF Environment, Calm, others, ReconcilerStarts, ReconcilerStops, BeginShutdown,
        DaemonExits, ClientStops, ChildExits, ProbeResult
  <1>6. CASE UNCHANGED vars
    BY <1>6 DEF vars, Calm
  <1> QED
    BY <1>1, <1>2, <1>3, <1>4, <1>5, <1>6, Sets DEF Next, Exited

\* Every step that leaves Calm true keeps Places and Control.
LEMMA ControlKept ==
    ASSUME TypeOK, TypeOK', Places, Control, Calm', [Next]_vars
    PROVE  Places' /\ Control'
  <1>1. ASSUME NEW t \in {Reconciler} \cup Runs, StartStep(t) PROVE Places' /\ Control'
    <2>1. ~EnterRefused(t)
      BY ReadyToEnter DEF EnterRefused, At
    <2> QED
      BY <1>1, <2>1, EnterKeeps, StartKeeps, StartDrifts, DriftKeeps DEF StartStep
  <1>2. ASSUME NEW c \in Callers, StopStep(c) PROVE Places' /\ Control'
    BY <1>2, BeginStopKeeps, StopKeeps, StopDrifts, DriftKeeps DEF StopStep
  <1>3. ASSUME NEW r \in Runs, MonitorStep(r) PROVE Places' /\ Control'
    BY <1>3, MonitorKeeps
  <1>4. ASSUME NEW r \in Runs, HelperStep(r) PROVE Places' /\ Control'
    BY <1>4, HelperDrifts, DriftKeeps DEF HelperStep
  <1>5. CASE Environment
    BY <1>5, ReconcilerStartsKeeps, EnvironmentDrifts, DriftKeeps
  <1>6. CASE UNCHANGED vars
    BY <1>6, StutterDrifts, DriftKeeps
  <1> QED
    BY <1>1, <1>2, <1>3, <1>4, <1>5, <1>6 DEF Next, Exited

\* A new Process satisfies them.
LEMMA ControlAtFirst == ASSUME Init PROVE Places /\ Control
  <1>1. /\ \A r \in Runs : pc[r] = "off"
        /\ \A c \in Callers : pc[c] = "idle"
        /\ \A t \in Threads : pc[t] \in {"off", "idle"}
    BY Sets DEF Init
  <1>2. proc.state = "STOPPED" /\ proc.cancel = 0 /\ runs = 0
    BY DEF Init
  <1>3. Places
    BY <1>1, <1>2, Sets DEF Places
  <1>4. Control
    BY <1>1, <1>2, Sets
    DEF Control, OneStart, Restarting, FailedRestart, OldRuns, Decided, StoppedRests, Settling,
        Asked, Backing, InStart, InStop, StartSteps, StopSteps, AtRest, Teardown, Ended
  <1> QED
    BY <1>3, <1>4

-----------------------------------------------------------------------------
(* Given who moves when: who a live child belongs to, whose exit completed   *)
(* stands for, and who holds the means to clear a health.                    *)

Spawned == {"recording", "watching", "readying", "launching"}
Probing(r) == probe[r] \in {"probing", "HEALTHY", "UNHEALTHY"}

\* A live child is waited for, or its Start has not come to the monitor yet.
ChildOwner ==
    \A r \in Runs : child[r] = "alive" =>
        pc[r] = "await" \/ \E t \in Threads : pc[t] \in Spawned /\ loc[t].cmd = r

Completed ==
    /\ \A r \in Runs : pc[r] = "latching" => child[r] = "ok"
    /\ proc.completed => runs > 0 /\ child[runs] = "ok"
    /\ \A t \in Threads : InStart(t) => ~proc.completed

\* The cancel function is there for the latest run's probe loop, which nobody
\* has cancelled; whoever takes it waits for that loop.
HealthOwner ==
    /\ proc.healthCancel # 0 =>
          /\ proc.healthCancel = runs
          /\ \/ pc[runs] \in {"await", "taking"}
             \/ \E t \in Threads : pc[t] \in {"readying", "launching"}
    /\ \A t \in Threads : pc[t] = "readying" => proc.healthCancel = runs
    /\ \A r \in Runs : Probing(r) =>
          \/ proc.healthCancel = r
          \/ \E t \in Threads : pc[t] = "draining" /\ loc[t].health = r
    /\ proc.health # "NONE" =>
          proc.healthCancel # 0 \/ \E t \in Threads : pc[t] = "draining"

Ownership == ChildOwner /\ Completed /\ HealthOwner

\* A step that concerns none of that.
Apart ==
    /\ runs' = runs
    /\ \A t \in Threads :
          /\ pc[t] \in Spawned => pc'[t] \in Spawned /\ loc'[t].cmd = loc[t].cmd
          /\ pc[t] \in {"readying", "launching"} => pc'[t] \in {"readying", "launching"}
          /\ pc'[t] = "readying" => pc[t] = "readying"
          /\ pc[t] = "draining" => pc'[t] = "draining" /\ loc'[t].health = loc[t].health
          /\ pc'[t] \in StartSteps => pc[t] \in StartSteps
    /\ \A r \in Runs :
          /\ pc[r] = "await" => pc'[r] = "await" \/ (pc'[r] = "taking" /\ child[r] # "alive")
          /\ pc[r] = "taking" => pc'[r] = "taking"
          /\ pc'[r] = "latching" => pc[r] = "latching" \/ child[r] = "ok"
          /\ child'[r] = child[r] \/ (child[r] = "alive" /\ child'[r] \in {"ok", "fail"})
          /\ Probing(r)' => Probing(r)
    /\ proc'.completed = proc.completed
    /\ proc'.healthCancel = proc.healthCancel /\ proc'.health = proc.health

\* Such a step keeps every owner.
LEMMA ApartKeeps == ASSUME TypeOK, TypeOK', Ownership, Apart PROVE Ownership'
  <1>1. ChildOwner'
    BY Sets DEF Ownership, ChildOwner, Apart
  <1>2. Completed'
    <2>1. runs > 0 => runs \in Runs
      BY DEF TypeOK, Run0
    <2> QED
      BY <2>1, Sets DEF Ownership, Completed, Apart, InStart
  <1>3. HealthOwner'
    <2>1. proc.healthCancel # 0 /\ proc.healthCancel = runs => runs \in Runs
      BY DEF TypeOK, Run0
    <2>2. proc'.healthCancel # 0 =>
            /\ proc'.healthCancel = runs'
            /\ \/ pc'[runs'] \in {"await", "taking"}
               \/ \E t \in Threads : pc'[t] \in {"readying", "launching"}
      BY <2>1 DEF Ownership, HealthOwner, Apart
    <2>3. \A t \in Threads : pc'[t] = "readying" => proc'.healthCancel = runs'
      BY DEF Ownership, HealthOwner, Apart
    <2>4. \A r \in Runs : Probing(r)' =>
             \/ proc'.healthCancel = r
             \/ \E t \in Threads : pc'[t] = "draining" /\ loc'[t].health = r
      BY DEF Ownership, HealthOwner, Apart
    <2>5. proc'.health # "NONE" =>
             proc'.healthCancel # 0 \/ \E t \in Threads : pc'[t] = "draining"
      BY DEF Ownership, HealthOwner, Apart
    <2> QED
      BY <2>2, <2>3, <2>4, <2>5 DEF HealthOwner
  <1> QED
    BY <1>1, <1>2, <1>3 DEF Ownership

\* What Start does apart from it;
LEMMA StartApart ==
    ASSUME TypeOK, NEW t \in {Reconciler} \cup Runs,
           EnterRefused(t) \/ Starting(t) \/ StartLogging(t) \/ StartFails(t)
             \/ RecordRun(t) \/ Abort(t) \/ StartFatal(t)
    PROVE  Apart
  <1> USE DEF Apart, Probing, Spawned, StartSteps, Proc, Closed, Loc, At, others, SetState
  <1>1. /\ t \in Threads /\ proc \in Proc /\ closed \in Closed
        /\ pc \in [Threads -> Labels] /\ loc \in [Threads -> Loc]
    BY Types, Sets
  <1>2. CASE EnterRefused(t)
    BY <1>2, <1>1, Sets DEF EnterRefused
  <1>3. CASE Starting(t)
    BY <1>3, <1>1, Sets DEF Starting
  <1>4. CASE StartLogging(t)
    BY <1>4, <1>1, Sets DEF StartLogging
  <1>5. CASE StartFails(t)
    BY <1>5, <1>1, Sets DEF StartFails
  <1>6. CASE RecordRun(t)
    BY <1>6, <1>1, Sets DEF RecordRun
  <1>7. CASE Abort(t)
    BY <1>7, <1>1, Sets DEF Abort
  <1>8. CASE StartFatal(t)
    BY <1>8, <1>1, Sets DEF StartFatal
  <1> QED
    BY <1>2, <1>3, <1>4, <1>5, <1>6, <1>7, <1>8

\* What Stop does apart from it;
LEMMA StopApart ==
    ASSUME TypeOK, NEW c \in Callers,
           BeginStop(c) \/ NothingRunning(c) \/ Resting(c) \/ Stopping(c)
             \/ MonitorReports(c) \/ StopTimeout(c) \/ GiveUp(c) \/ Finish(c)
    PROVE  Apart
  <1> USE DEF Apart, Probing, Spawned, StartSteps, Proc, Closed, Loc, At, others, SetState
  <1>1. /\ c \in Threads /\ proc \in Proc /\ closed \in Closed
        /\ pc \in [Threads -> Labels] /\ loc \in [Threads -> Loc]
    BY Types, Sets
  <1>2. CASE BeginStop(c)
    BY <1>2, <1>1, Sets DEF BeginStop, MarkStopped
  <1>3. CASE NothingRunning(c)
    BY <1>3, <1>1, Sets DEF NothingRunning
  <1>4. CASE Resting(c)
    BY <1>4, <1>1, Sets DEF Resting, SetState, NoLoc
  <1>5. CASE Stopping(c)
    BY <1>5, <1>1, Sets DEF Stopping
  <1>6. CASE MonitorReports(c)
    BY <1>6, <1>1, Sets DEF MonitorReports
  <1>7. CASE StopTimeout(c)
    BY <1>7, <1>1, Sets DEF StopTimeout
  <1>8. CASE GiveUp(c)
    BY <1>8, <1>1, Sets DEF GiveUp
  <1>9. CASE Finish(c)
    BY <1>9, <1>1, Sets DEF Finish, NoLoc
  <1> QED
    BY <1>2, <1>3, <1>4, <1>5, <1>6, <1>7, <1>8, <1>9

\* what the monitor does;
LEMMA MonitorApart ==
    ASSUME TypeOK, NEW r \in Runs,
           ExitArrives(r) \/ StopLogging(r) \/ RecordExit(r) \/ Settle(r)
             \/ PublishStopped(r) \/ PublishExited(r) \/ Exiting(r) \/ Policy(r)
             \/ PublishFatal(r) \/ BackoffCanceled(r) \/ BackoffElapsed(r)
             \/ CheckCanceled(r) \/ Retry(r)
    PROVE  Apart
  <1> USE DEF Apart, Probing, Spawned, StartSteps, Proc, Closed, Loc, At, others, SetState
  <1>1. /\ r \in Threads /\ proc \in Proc /\ closed \in Closed
        /\ pc \in [Threads -> Labels] /\ loc \in [Threads -> Loc]
    BY Types, Sets
  <1>2. CASE ExitArrives(r)
    BY <1>2, <1>1, Sets DEF ExitArrives
  <1>3. CASE StopLogging(r)
    BY <1>3, <1>1, Sets DEF StopLogging
  <1>4. CASE RecordExit(r)
    BY <1>4, <1>1, Sets DEF RecordExit
  <1>5. CASE Settle(r)
    BY <1>5, <1>1, Sets DEF Settle, SettledTo
  <1>6. CASE PublishStopped(r)
    BY <1>6, <1>1, Sets DEF PublishStopped
  <1>7. CASE PublishExited(r)
    BY <1>7, <1>1, Sets DEF PublishExited
  <1>8. CASE Exiting(r)
    BY <1>8, <1>1, Sets DEF Exiting
  <1>9. CASE Policy(r)
    BY <1>9, <1>1, Sets DEF Policy
  <1>10. CASE PublishFatal(r)
    BY <1>10, <1>1, Sets DEF PublishFatal
  <1>11. CASE BackoffCanceled(r)
    BY <1>11, <1>1, Sets DEF BackoffCanceled
  <1>12. CASE BackoffElapsed(r)
    BY <1>12, <1>1, Sets DEF BackoffElapsed
  <1>13. CASE CheckCanceled(r)
    BY <1>13, <1>1, Sets DEF CheckCanceled
  <1>14. CASE Retry(r)
    BY <1>14, <1>1, Sets DEF Retry
  <1> QED
    BY <1>2, <1>3, <1>4, <1>5, <1>6, <1>7, <1>8, <1>9, <1>10, <1>11, <1>12, <1>13, <1>14

\* what the start waiter and the probe loop do;
LEMMA HelperApart ==
    ASSUME TypeOK, NEW r \in Runs,
           WaiterQuits(r) \/ WaiterElapses(r) \/ Promote(r) \/ ProbeEnds(r)
    PROVE  Apart
  <1> USE DEF Apart, Probing, Spawned, StartSteps, Proc, Closed, Loc, At, others, SetState
  <1>1. /\ r \in Threads /\ proc \in Proc /\ closed \in Closed
        /\ pc \in [Threads -> Labels] /\ loc \in [Threads -> Loc]
    BY Types, Sets
  <1>2. CASE WaiterQuits(r)
    BY <1>2, <1>1, Sets DEF WaiterQuits
  <1>3. CASE WaiterElapses(r)
    BY <1>3, <1>1, Sets DEF WaiterElapses
  <1>4. CASE Promote(r)
    BY <1>4, <1>1, Sets DEF Promote
  <1>5. CASE ProbeEnds(r)
    BY <1>5, <1>1, Sets DEF ProbeEnds
  <1> QED
    BY <1>2, <1>3, <1>4, <1>5

\* and whatever the child, the callers and the daemon do.
LEMMA EnvironmentApart == ASSUME TypeOK, Environment PROVE Apart
  <1> USE DEF Apart, Probing, Spawned, StartSteps, At, others
  <1>1. /\ Reconciler \in Threads /\ Shutdown \in Callers /\ Clients \subseteq Callers
        /\ pc \in [Threads -> Labels]
    BY Types, Sets DEF Callers
  <1>2. CASE ReconcilerStarts \/ ReconcilerStops
    BY <1>1, <1>2, Sets DEF ReconcilerStarts, ReconcilerStops
  <1>3. CASE BeginShutdown
    BY <1>1, <1>3, Sets DEF BeginShutdown
  <1>4. CASE DaemonExits
    BY <1>4 DEF DaemonExits
  <1>5. ASSUME NEW c \in Clients, ClientStops(c) PROVE Apart
    BY <1>1, <1>5, Sets DEF ClientStops
  <1>6. ASSUME NEW r \in Runs, ChildExits(r) PROVE Apart
    BY <1>6 DEF ChildExits, TypeOK
  <1>7. ASSUME NEW r \in Runs, NEW h \in {"HEALTHY", "UNHEALTHY"}, ProbeResult(r, h)
        PROVE  Apart
    BY <1>7 DEF ProbeResult, TypeOK
  <1> QED
    BY <1>2, <1>3, <1>4, <1>5, <1>6, <1>7 DEF Environment

\* A run begins: nothing of the run before is left to own anything.
LEMMA EnterOwns ==
    ASSUME TypeOK, TypeOK', Places, Control, Ownership, NEW t \in {Reconciler} \cup Runs, Enter(t)
    PROVE  Ownership'
  <1>1. /\ t \in Threads /\ proc \in Proc /\ runs \in Nat
        /\ pc \in [Threads -> Labels] /\ loc \in [Threads -> Loc]
    BY Types, Sets
  <1>2. /\ pc[t] = "start" /\ runs' = runs + 1
        /\ child' = child /\ probe' = probe
        /\ ~proc'.completed /\ proc'.health = proc.health
        /\ proc'.healthCancel = proc.healthCancel
    BY <1>1 DEF Enter, At, FreshRun, Proc
  <1>3. pc'[t] = "starting" /\ \A u \in Threads \ {t} : pc'[u] = pc[u] /\ loc'[u] = loc[u]
    BY <1>1 DEF Enter, At
  <1>4. /\ \A r \in Runs \ {t} : AtRest(r)
        /\ \A u \in Threads : ~InStart(u)
    BY <1>2, ReadyToEnter
  <1>5. proc.healthCancel = 0
    <2>1. \A u \in Threads : pc[u] \notin {"readying", "launching"}
      BY <1>4 DEF InStart, StartSteps
    <2>2. ASSUME proc.healthCancel # 0 PROVE FALSE
      <3>1. runs \in Runs /\ pc[runs] \in {"await", "taking"}
        BY <2>1, <2>2 DEF Ownership, HealthOwner, TypeOK, Run0
      <3> QED
        BY <3>1, <1>2, <1>4 DEF AtRest
    <2> QED
      BY <2>2
  <1>6. ChildOwner'
    <2>1. \A r \in Runs : child[r] = "alive" => pc[r] = "await"
      BY <1>4 DEF Ownership, ChildOwner, Spawned, InStart, StartSteps
    <2>2. \A r \in Runs : child[r] # "alive"
      BY <1>2, <1>4, <2>1 DEF AtRest
    <2> QED
      BY <1>2, <2>2 DEF ChildOwner
  <1>7. Completed'
    BY <1>2, <1>3, Sets DEF Ownership, Completed
  <1>8. HealthOwner'
    <2>1. \A u \in Threads : pc[u] = "draining" => pc'[u] = "draining" /\ loc'[u] = loc[u]
      BY <1>2, <1>3
    <2>2. \A u \in Threads : pc'[u] # "readying"
      BY <1>3, <1>4 DEF InStart, StartSteps
    <2> QED
      BY <1>2, <1>5, <2>1, <2>2 DEF Ownership, HealthOwner, Probing
  <1> QED
    BY <1>6, <1>7, <1>8 DEF Ownership

\* The child is spawned, watched and handed over to its monitor.
LEMMA StartOwns ==
    ASSUME TypeOK, TypeOK', Places, Control, Ownership, NEW t \in {Reconciler} \cup Runs,
           Spawn(t) \/ StartHealthChecks(t) \/ HealthStarting(t) \/ Launch(t)
    PROVE  Ownership'
  <1>1. /\ t \in Threads /\ proc \in Proc
        /\ pc \in [Threads -> Labels] /\ loc \in [Threads -> Loc]
        /\ child \in [Runs -> {"none", "alive", "ok", "fail"}]
        /\ probe \in [Runs -> {"off", "probing", "HEALTHY", "UNHEALTHY", "done"}]
    BY Types, Sets DEF TypeOK
  <1>2. InStart(t)
    BY DEF Spawn, StartHealthChecks, HealthStarting, Launch, At, InStart, StartSteps
  <1>3. /\ runs \in Runs /\ runs \in Threads /\ t # runs /\ loc[t].cmd = runs /\ pc[runs] = "off"
        /\ \A u \in Threads \ {t} : ~InStart(u)
    BY <1>1, <1>2, Sole, Sets
  <1>4. ~proc.completed
    BY <1>2, <1>1 DEF Ownership, Completed
  <1>5. CASE Spawn(t)
    <2>1. /\ pc[t] = "spawning" /\ pc'[t] = "recording"
          /\ \A u \in Threads \ {t} : pc'[u] = pc[u]
          /\ child'[runs] = "alive" /\ \A r \in Runs \ {runs} : child'[r] = child[r]
          /\ proc' = proc /\ loc' = loc /\ probe' = probe /\ runs' = runs
      BY <1>1, <1>3, <1>5 DEF Spawn, At
    <2>2. ChildOwner'
      BY <1>1, <1>3, <2>1, Sets DEF Ownership, ChildOwner, Spawned
    <2>3. Completed'
      BY <1>1, <1>2, <1>3, <1>4, <2>1, Sets DEF Ownership, Completed, InStart
    <2>4. HealthOwner'
      BY <1>3, <2>1 DEF Ownership, HealthOwner, Probing
    <2> QED
      BY <2>2, <2>3, <2>4 DEF Ownership
  <1>6. CASE StartHealthChecks(t)
    <2>1. /\ pc[t] = "watching" /\ pc'[t] = "readying"
          /\ \A u \in Threads \ {t} : pc'[u] = pc[u]
          /\ proc'.healthCancel = runs /\ proc'.health = proc.health
          /\ proc'.completed = proc.completed
          /\ child' = child /\ loc' = loc /\ probe' = probe /\ runs' = runs
      BY <1>1, <1>3, <1>6 DEF StartHealthChecks, At, others, Proc
    <2>2. ChildOwner'
      BY <1>1, <2>1, Sets DEF Ownership, ChildOwner, Spawned
    <2>3. Completed'
      BY <1>1, <1>2, <1>3, <1>4, <2>1, Sets DEF Ownership, Completed, InStart
    <2>4. proc.healthCancel \in {0, runs}
      BY DEF Ownership, HealthOwner
    <2>5. \A u \in Threads : pc[u] = "draining" => pc'[u] = "draining"
      BY <2>1
    <2>6. \A r \in Runs : Probing(r)' =>
             \/ proc'.healthCancel = r
             \/ \E u \in Threads : pc'[u] = "draining" /\ loc'[u].health = r
      BY <2>1, <2>4, <2>5, Sets DEF Ownership, HealthOwner, Probing
    <2>7. HealthOwner'
      BY <1>1, <1>3, <2>1, <2>6, Sets DEF HealthOwner
    <2> QED
      BY <2>2, <2>3, <2>7 DEF Ownership
  <1>7. CASE HealthStarting(t)
    <2>1. /\ pc[t] = "readying" /\ pc'[t] = "launching"
          /\ \A u \in Threads \ {t} : pc'[u] = pc[u]
          /\ proc'.healthCancel = proc.healthCancel /\ proc'.completed = proc.completed
          /\ \A r \in Runs \ {runs} : probe'[r] = probe[r]
          /\ child' = child /\ loc' = loc /\ runs' = runs
      BY <1>1, <1>3, <1>7 DEF HealthStarting, At, Proc
    <2>2. ChildOwner'
      BY <1>1, <2>1, Sets DEF Ownership, ChildOwner, Spawned
    <2>3. Completed'
      BY <1>1, <1>2, <1>3, <1>4, <2>1, Sets DEF Ownership, Completed, InStart
    <2>4. proc'.healthCancel = runs /\ runs # 0
      BY <1>1, <1>3, <2>1, Sets DEF Ownership, HealthOwner
    <2>5. \A r \in Runs : Probing(r)' =>
             \/ proc'.healthCancel = r
             \/ \E u \in Threads : pc'[u] = "draining" /\ loc'[u].health = r
      BY <2>1, <2>4 DEF Ownership, HealthOwner, Probing
    <2>6. \A u \in Threads : pc'[u] # "readying"
      BY <1>3, <2>1 DEF InStart, StartSteps
    <2>7. HealthOwner'
      BY <1>1, <2>1, <2>4, <2>5, <2>6 DEF HealthOwner
    <2> QED
      BY <2>2, <2>3, <2>7 DEF Ownership
  <1>8. CASE Launch(t)
    <2>1. /\ pc[t] = "launching" /\ pc'[t] = Returned(t) /\ pc'[runs] = "await"
          /\ \A u \in Threads \ {t, runs} : pc'[u] = pc[u] /\ loc'[u] = loc[u]
          /\ proc' = proc /\ child' = child /\ probe' = probe /\ runs' = runs
          /\ loc'[runs] = loc[runs]
      BY <1>1, <1>3, <1>8 DEF Launch
    <2>2. ASSUME NEW r \in Runs, child'[r] = "alive"
          PROVE  pc'[r] = "await" \/ \E u \in Threads : pc'[u] \in Spawned /\ loc'[u].cmd = r
      <3>1. CASE r = runs
        BY <2>1, <3>1
      <3>2. CASE r # runs
        <4>1. pc[r] = "await"
          BY <1>3, <2>1, <2>2, <3>2 DEF Ownership, ChildOwner, Spawned, InStart, StartSteps
        <4> QED
          BY <2>1, <3>2, <4>1, Sets
      <3> QED
        BY <3>1, <3>2
    <2>3. Completed'
      BY <1>1, <1>3, <1>4, <2>1, Sets DEF Ownership, Completed, Returned
    <2>4. \A u \in Threads : pc[u] = "draining" => pc'[u] = "draining" /\ loc'[u] = loc[u]
      BY <1>3, <2>1
    <2>5. \A u \in Threads : pc'[u] # "readying"
      BY <1>3, <2>1 DEF Returned, InStart, StartSteps
    <2>6. HealthOwner'
      BY <2>1, <2>4, <2>5 DEF Ownership, HealthOwner, Probing
    <2> QED
      BY <2>2, <2>3, <2>6 DEF Ownership, ChildOwner
  <1> QED
    BY <1>5, <1>6, <1>7, <1>8

\* A child keeps its owner if the owners stay where they are.
LEMMA OwnersStay ==
    ASSUME ChildOwner, child' = child,
           \A u \in Threads : pc[u] \in Spawned \cup {"await"} =>
              pc'[u] = pc[u] /\ loc'[u] = loc[u]
    PROVE  ChildOwner'
  <1> SUFFICES ASSUME NEW r \in Runs, child[r] = "alive"
               PROVE  pc'[r] = "await" \/ \E u \in Threads : pc'[u] \in Spawned /\ loc'[u].cmd = r
    BY DEF ChildOwner
  <1>1. CASE pc[r] = "await"
    BY <1>1, Sets
  <1>2. ASSUME NEW u \in Threads, pc[u] \in Spawned, loc[u].cmd = r
        PROVE  \E w \in Threads : pc'[w] \in Spawned /\ loc'[w].cmd = r
    BY <1>2
  <1> QED
    BY <1>1, <1>2 DEF ChildOwner

\* stopHealthChecks, by Stop or by the monitor, which no start runs beside.
LEMMA HealthOwns ==
    ASSUME TypeOK, TypeOK', Places, Control, Ownership, NEW t \in Threads,
           NEW next \in {"deciding", "unlogging"},
           TakeHealth(t, next) \/ AwaitProbe(t, next)
    PROVE  Ownership'
  <1>1. /\ proc \in Proc /\ pc \in [Threads -> Labels] /\ loc \in [Threads -> Loc]
    BY Types
  <1>2. \A u \in Threads : pc[u] # "readying"
    <2>1. pc[t] \in {"taking", "draining"}
      BY DEF TakeHealth, AwaitProbe, At
    <2>2. ~NoStop \/ (t \in Runs /\ ~AtRest(t) /\ ~InStart(t))
      BY <2>1 DEF NoStop, InStop, AtRest, InStart, StartSteps, StopSteps, Threads
    <2>3. \A u \in Threads : ~InStart(u)
      BY <2>2, Sole
    <2> QED
      BY <2>3 DEF InStart, StartSteps
  <1>3. CASE TakeHealth(t, next)
    <2>1. /\ pc[t] = "taking" /\ pc'[t] = AfterTaking(next)
          /\ \A u \in Threads \ {t} : pc'[u] = pc[u] /\ loc'[u] = loc[u]
          /\ loc'[t].health = proc.healthCancel
          /\ proc'.healthCancel = 0 /\ proc'.completed = proc.completed
          /\ proc'.health = proc.health
          /\ child' = child /\ probe' = probe /\ runs' = runs
      BY <1>1, <1>3 DEF TakeHealth, At, others, Proc, Loc
    <2>2. pc'[t] \in {"draining", "deciding", "unlogging"}
      BY <2>1 DEF AfterTaking
    <2>10. \A u \in Threads : pc[u] \in Spawned \cup {"await"} =>
              pc'[u] = pc[u] /\ loc'[u] = loc[u]
      BY <2>1 DEF Spawned
    <2>3. ChildOwner'
      BY <2>1, <2>10, OwnersStay DEF Ownership
    <2>4. Completed'
      BY <2>1, <2>2, Sets DEF Ownership, Completed, InStart, StartSteps
    <2>5. \A u \in Threads : pc[u] = "draining" => pc'[u] = "draining" /\ loc'[u] = loc[u]
      BY <2>1
    <2>6. proc.healthCancel # 0 => pc'[t] = "draining"
      BY <2>1 DEF AfterTaking
    <2>7. \A r \in Runs : Probing(r)' =>
             \E u \in Threads : pc'[u] = "draining" /\ loc'[u].health = r
      BY <2>1, <2>5, <2>6, Sets DEF Ownership, HealthOwner, Probing
    <2>8. proc'.health # "NONE" => \E u \in Threads : pc'[u] = "draining"
      BY <2>1, <2>5, <2>6 DEF Ownership, HealthOwner
    <2>9. \A u \in Threads : pc'[u] # "readying"
      BY <1>2, <2>1, <2>2
    <2> QED
      BY <2>1, <2>3, <2>4, <2>7, <2>8, <2>9 DEF Ownership, HealthOwner
  <1>4. CASE AwaitProbe(t, next)
    <2>1. /\ pc[t] = "draining" /\ pc'[t] = next /\ probe[loc[t].health] = "done"
          /\ \A u \in Threads \ {t} : pc'[u] = pc[u] /\ loc'[u] = loc[u]
          /\ proc'.healthCancel = proc.healthCancel /\ proc'.completed = proc.completed
          /\ proc'.health = "NONE"
          /\ child' = child /\ probe' = probe /\ runs' = runs
      BY <1>1, <1>4 DEF AwaitProbe, ProbeEnded, At, others, Proc
    <2>7. \A u \in Threads : pc[u] \in Spawned \cup {"await", "taking"} =>
             pc'[u] = pc[u] /\ loc'[u] = loc[u]
      BY <2>1 DEF Spawned
    <2>2. ChildOwner'
      BY <2>1, <2>7, OwnersStay DEF Ownership
    <2>3. Completed'
      BY <2>1, Sets DEF Ownership, Completed, InStart, StartSteps
    <2>8. proc'.healthCancel # 0 =>
             /\ proc'.healthCancel = runs'
             /\ \/ pc'[runs'] \in {"await", "taking"}
                \/ \E u \in Threads : pc'[u] \in {"readying", "launching"}
      <3>1. proc.healthCancel # 0 => runs \in Threads /\ proc.healthCancel = runs
        BY Sets DEF Ownership, HealthOwner, TypeOK, Run0
      <3> QED
        BY <2>1, <2>7, <3>1 DEF Ownership, HealthOwner, Spawned
    <2>4. \A r \in Runs : Probing(r)' =>
             \/ proc'.healthCancel = r
             \/ \E u \in Threads : pc'[u] = "draining" /\ loc'[u].health = r
      BY <2>1 DEF Ownership, HealthOwner, Probing
    <2>5. \A u \in Threads : pc'[u] # "readying"
      BY <1>2, <2>1
    <2>6. HealthOwner'
      BY <2>1, <2>4, <2>5, <2>8 DEF HealthOwner
    <2> QED
      BY <2>2, <2>3, <2>6 DEF Ownership
  <1> QED
    BY <1>3, <1>4

\* The exit is latched as a completion, and a result of a probe is published.
LEMMA LatchOwns ==
    ASSUME TypeOK, TypeOK', Places, Control, Ownership, NEW r \in Runs,
           Latch(r) \/ PublishHealth(r)
    PROVE  Ownership'
  <1>1. /\ r \in Threads /\ proc \in Proc /\ pc \in [Threads -> Labels]
        /\ probe \in [Runs -> {"off", "probing", "HEALTHY", "UNHEALTHY", "done"}]
    BY Types, Sets DEF TypeOK
  <1>2. CASE Latch(r)
    <2>1. /\ pc[r] = "latching" /\ pc'[r] = "exiting"
          /\ \A u \in Threads \ {r} : pc'[u] = pc[u]
          /\ proc'.healthCancel = proc.healthCancel /\ proc'.health = proc.health
          /\ loc' = loc /\ child' = child /\ probe' = probe /\ runs' = runs
      BY <1>1, <1>2 DEF Latch, At, others, Proc
    <2>2. ~AtRest(r) /\ ~InStart(r)
      BY <2>1 DEF AtRest, InStart, StartSteps
    <2>3. r = runs /\ \A u \in Threads : ~InStart(u)
      BY <2>1, <2>2, Alone
    <2>4. ChildOwner'
      BY <2>1, Sets DEF Ownership, ChildOwner, Spawned
    <2>5. child[r] = "ok"
      BY <2>1 DEF Ownership, Completed
    <2>6. Completed'
      BY <2>1, <2>3, <2>5, Sets DEF Ownership, Completed, InStart, StartSteps, Runs
    <2>7. HealthOwner'
      BY <2>1, <2>3 DEF Ownership, HealthOwner, Probing
    <2> QED
      BY <2>4, <2>6, <2>7 DEF Ownership
  <1>3. CASE PublishHealth(r)
    <2>1. /\ Probing(r) /\ pc' = pc /\ loc' = loc /\ child' = child /\ runs' = runs
          /\ \A q \in Runs : Probing(q)' => Probing(q)
          /\ proc'.healthCancel = proc.healthCancel /\ proc'.completed = proc.completed
      BY <1>1, <1>3 DEF PublishHealth, Probing, Proc
    <2>2. ChildOwner' /\ Completed'
      BY <2>1 DEF Ownership, ChildOwner, Completed, InStart
    <2>3. proc.healthCancel = r \/ \E u \in Threads : pc[u] = "draining"
      BY <2>1 DEF Ownership, HealthOwner
    <2>4. HealthOwner'
      BY <2>1, <2>3, Sets DEF Ownership, HealthOwner
    <2> QED
      BY <2>2, <2>4 DEF Ownership
  <1> QED
    BY <1>2, <1>3

\* Every step keeps Ownership, given Places and Control.
LEMMA OwnershipKept ==
    ASSUME TypeOK, TypeOK', Places, Control, Ownership, [Next]_vars
    PROVE  Ownership'
  <1>1. ASSUME NEW t \in {Reconciler} \cup Runs, StartStep(t) PROVE Ownership'
    BY <1>1, EnterOwns, StartOwns, StartApart, ApartKeeps DEF StartStep
  <1>2. ASSUME NEW c \in Callers, StopStep(c) PROVE Ownership'
    BY <1>2, Sets, HealthOwns, StopApart, ApartKeeps DEF StopStep
  <1>3. ASSUME NEW r \in Runs, MonitorStep(r) PROVE Ownership'
    BY <1>3, Sets, HealthOwns, LatchOwns, MonitorApart, ApartKeeps DEF MonitorStep
  <1>4. ASSUME NEW r \in Runs, HelperStep(r) PROVE Ownership'
    BY <1>4, LatchOwns, HelperApart, ApartKeeps DEF HelperStep
  <1>5. CASE Environment
    BY <1>5, EnvironmentApart, ApartKeeps
  <1>6. CASE UNCHANGED vars
    <2> Apart
      BY <1>6 DEF vars, Apart, Probing
    <2> QED
      BY ApartKeeps
  <1> QED
    BY <1>1, <1>2, <1>3, <1>4, <1>5, <1>6 DEF Next, Exited

\* Nothing is owned at first.
LEMMA OwnershipAtFirst == ASSUME Init PROVE Ownership
  <1>1. /\ \A r \in Runs : pc[r] = "off" /\ child[r] = "none" /\ probe[r] = "off"
        /\ \A t \in Threads : pc[t] \in {"off", "idle"}
        /\ ~proc.completed /\ proc.healthCancel = 0 /\ proc.health = "NONE"
    BY Sets DEF Init
  <1> QED
    BY <1>1
    DEF Ownership, ChildOwner, Completed, HealthOwner, Probing, InStart, StartSteps

-----------------------------------------------------------------------------
(* The inductive invariant, and what follows from it *)

CalmInv == TypeOK /\ (Calm => Places /\ Control /\ Ownership)

\* It holds at first, ...
LEMMA CalmAtFirst == Init => CalmInv
  BY InitTypeOK, ControlAtFirst, OwnershipAtFirst DEF CalmInv

\* ... every step keeps it, raced never being taken back, ...
LEMMA CalmKept == CalmInv /\ [Next]_vars => CalmInv'
  <1> SUFFICES ASSUME CalmInv, [Next]_vars PROVE CalmInv'
    OBVIOUS
  <1>1. TypeOK /\ TypeOK'
    BY NextTypeOK DEF CalmInv
  <1>2. ASSUME Calm' PROVE Places' /\ Control' /\ Ownership'
    <2>1. Calm
      BY <1>1, <1>2, CalmBefore
    <2>2. Places /\ Control /\ Ownership
      BY <2>1 DEF CalmInv
    <2> QED
      BY <1>1, <1>2, <2>2, ControlKept, OwnershipKept
  <1> QED
    BY <1>1, <1>2 DEF CalmInv

\* ... and so it always holds.
LEMMA CalmAlways == Spec => []CalmInv
  BY CalmAtFirst, CalmKept, PTL DEF Spec

\* Only the latest run can have a live child, ...
LEMMA LiveIsLatest ==
    ASSUME TypeOK, Places, Control, Ownership, NEW r \in Live
    PROVE  r = runs /\ ~IsStopped(proc.state)
  <1>1. r \in Runs /\ child[r] = "alive"
    BY DEF Live
  <1>2. CASE pc[r] = "await"
    <2>1. ~AtRest(r) /\ ~InStart(r)
      BY <1>2 DEF AtRest, InStart, StartSteps
    <2>2. r = runs
      BY <1>1, <1>2, <2>1, Alone
    <2> QED
      BY <1>1, <1>2, <2>2 DEF Control, Settling, Teardown, IsStopped
  <1>3. ASSUME NEW t \in Threads, pc[t] \in Spawned, loc[t].cmd = r
        PROVE  r = runs /\ ~IsStopped(proc.state)
    BY <1>3 DEF Control, OneStart, InStart, StartSteps, Spawned, IsStopped
  <1> QED
    BY <1>1, <1>2, <1>3 DEF Ownership, ChildOwner

\* One program, one process, for any number of clients and restarts, as long as
\* no Stop overlaps a start: the monitor of a run, the reconciler and a restart
\* never have two children at once between them.
THEOREM ProcessOneLiveChild == Spec => []OneLiveChild
  <1>1. CalmInv => OneLiveChild
    <2> SUFFICES ASSUME CalmInv, Calm PROVE Cardinality(Live) <= 1
      BY DEF OneLiveChild
    <2>1. \A r \in Live : r = runs
      BY LiveIsLatest DEF CalmInv
    <2>2. CASE Live = {}
      BY <2>2, FS_EmptySet
    <2>3. CASE Live # {}
      <3>1. Live = {runs}
        BY <2>1, <2>3
      <3> QED
        BY <3>1, FS_Singleton
    <2> QED
      BY <2>2, <2>3
  <1> QED
    BY <1>1, CalmAlways, PTL

\* ... and what is shown as STOPPED, EXITED or FATAL has no process.
THEOREM ProcessStoppedMeansNoChild == Spec => []StoppedMeansNoChild
  <1>1. CalmInv => StoppedMeansNoChild
    BY LiveIsLatest DEF CalmInv, StoppedMeansNoChild
  <1> QED
    BY <1>1, CalmAlways, PTL

\* HasCompleted answers for the most recent run: a start resets the latch in the
\* section that begins the run, and a monitor that latches is that run's.
THEOREM ProcessCompletedIsLatestRun == Spec => []CompletedIsLatestRun
  <1>1. CalmInv => CompletedIsLatestRun
    BY DEF CalmInv, CompletedIsLatestRun, Ownership, Completed
  <1> QED
    BY <1>1, CalmAlways, PTL

\* A health that is shown has somebody to clear it: stopHealthChecks takes the
\* cancel function once, and waits for the loop that could still publish.
THEOREM ProcessHealthHasOwner == Spec => []HealthHasOwner
  <1>1. CalmInv => HealthHasOwner
    BY DEF CalmInv, HealthHasOwner, Ownership, HealthOwner
  <1> QED
    BY <1>1, CalmAlways, PTL

\* A program that exited or gave up is never started from there: every start
\* that is entered finds STOPPED, STOPPING or BACKOFF and keeps it to itself.
THEOREM ProcessReleasedBeforeStart == Spec => ReleasedBeforeStart
  <1>1. CalmInv /\ [Next]_vars =>
            [Calm' /\ proc.state \in {"EXITED", "FATAL"}
                 => proc'.state \notin {"STARTING", "RUNNING"}]_vars
    <2> SUFFICES ASSUME CalmInv, [Next]_vars, Calm', proc.state \in {"EXITED", "FATAL"}
                 PROVE  proc'.state \notin {"STARTING", "RUNNING"}
      OBVIOUS
    <2>1. TypeOK /\ Control /\ proc \in Proc
      BY CalmBefore DEF CalmInv, TypeOK
    <2> USE DEF Proc, SetState
    <2>2. ASSUME NEW t \in Threads, StartStep(t) PROVE proc'.state \notin {"STARTING", "RUNNING"}
      <3>1. ~Starting(t)
        BY <2>1 DEF Starting, At, InStart, StartSteps, Control, OneStart
      <3> QED
        BY <2>1, <2>2, <3>1
        DEF StartStep, others, Enter, FreshRun, EnterRefused, StartLogging, StartFails,
            Spawn, RecordRun, StartHealthChecks, HealthStarting, Launch, Abort, StartFatal
    <2>3. ASSUME NEW c \in Threads, StopStep(c) PROVE proc'.state \notin {"STARTING", "RUNNING"}
      BY <2>1, <2>3
      DEF StopStep, others, BeginStop, MarkStopped, TakeHealth, AwaitProbe, NothingRunning,
          Resting, Stopping, MonitorReports, StopTimeout, GiveUp, Finish
    <2>4. ASSUME NEW r \in Runs, MonitorStep(r) PROVE proc'.state \notin {"STARTING", "RUNNING"}
      BY <2>1, <2>4
      DEF MonitorStep, others, ExitArrives, TakeHealth, AwaitProbe, StopLogging, RecordExit,
          Settle, PublishStopped, PublishExited, Latch, Exiting, Policy, PublishFatal,
          BackoffCanceled, BackoffElapsed, CheckCanceled, Retry
    <2>5. ASSUME NEW r \in Runs, HelperStep(r) PROVE proc'.state \notin {"STARTING", "RUNNING"}
      BY <2>1, <2>5
      DEF HelperStep, WaiterQuits, WaiterElapses, Promote, PublishHealth, ProbeEnds
    <2>6. CASE Environment \/ UNCHANGED vars
      BY <2>6
      DEF Environment, others, ReconcilerStarts, ReconcilerStops, BeginShutdown,
          DaemonExits, ClientStops, ChildExits, ProbeResult, vars
    <2> QED
      BY <2>2, <2>3, <2>4, <2>5, <2>6, Sets DEF Next, Exited
  <1> QED
    BY <1>1, CalmAlways, PTL DEF Spec, ReleasedBeforeStart

-----------------------------------------------------------------------------
(* What a live child writes is captured, as long as a killed child dies.  A  *)
(* Stop that gives up on one closes its streams, so this needs ~CanWedge.    *)

\* A child is spawned with its streams in p.streams, and whoever closes what it
\* finds there comes when no child is alive: a Stop waits for the monitor of the
\* run whose command it read, which is that of the live child.
Logged ==
    /\ Live \subseteq proc.streams
    /\ \A t \in Threads : pc[t] = "spawning" => loc[t].cmd \in proc.streams
    /\ \A r \in Live : proc.cmd = r \/ \E t \in Threads : pc[t] = "recording" /\ loc[t].cmd = r
    /\ \A c \in Callers : InStop(c) => loc[c].cmd = proc.cmd
    /\ \A c \in Callers : pc[c] = "finishing" => Live = {}

\* A step that concerns none of that.
LogApart ==
    /\ Live' \subseteq Live /\ proc'.streams = proc.streams /\ proc'.cmd = proc.cmd
    /\ \A t \in Threads :
          /\ pc'[t] = "spawning" => pc[t] = "spawning" /\ loc'[t].cmd = loc[t].cmd
          /\ pc[t] = "recording" => pc'[t] = "recording" /\ loc'[t].cmd = loc[t].cmd
    /\ \A c \in Callers :
          /\ InStop(c)' => InStop(c) /\ loc'[c].cmd = loc[c].cmd
          /\ pc'[c] = "finishing" => pc[c] = "finishing"

LEMMA LogApartKeeps == ASSUME Logged, LogApart PROVE Logged'
  <1>1. Live' \subseteq proc'.streams
    BY DEF Logged, LogApart
  <1>2. \A t \in Threads : pc'[t] = "spawning" => loc'[t].cmd \in proc'.streams
    BY DEF Logged, LogApart
  <1>3. \A r \in Live' :
           proc'.cmd = r \/ \E t \in Threads : pc'[t] = "recording" /\ loc'[t].cmd = r
    BY DEF Logged, LogApart
  <1>4. \A c \in Callers : InStop(c)' => loc'[c].cmd = proc'.cmd
    BY DEF Logged, LogApart
  <1>5. \A c \in Callers : pc'[c] = "finishing" => Live' = {}
    BY DEF Logged, LogApart
  <1> QED
    BY <1>1, <1>2, <1>3, <1>4, <1>5 DEF Logged

\* A child that is alive has its monitor waiting, or a Start that is past the spawn.
LEMMA LiveOwner ==
    ASSUME Ownership, NEW r \in Live
    PROVE  /\ r \in Runs
           /\ pc[r] = "await" \/ \E t \in Threads : InStart(t) /\ pc[t] \in Spawned /\ loc[t].cmd = r
  BY DEF Ownership, ChildOwner, Live, Spawned, InStart, StartSteps

LEMMA NoneBeforeSpawn ==
    ASSUME TypeOK, Places, Control, Ownership, NEW t \in Threads, InStart(t), pc[t] \notin Spawned
    PROVE  Live = {}
  <1> SUFFICES ASSUME NEW r \in Live PROVE FALSE
    OBVIOUS
  <1>1. r \in Runs /\ (pc[r] = "await" \/ \E u \in Threads : InStart(u) /\ pc[u] \in Spawned)
    BY LiveOwner
  <1>2. /\ \A q \in Runs \ {t} : AtRest(q)
        /\ \A u \in Threads \ {t} : ~InStart(u)
    BY Sole
  <1>3. pc[r] = "await" => r # t /\ ~AtRest(r)
    BY DEF AtRest, InStart, StartSteps
  <1> QED
    BY <1>1, <1>2, <1>3

LEMMA NoneInStop ==
    ASSUME Control, Ownership, NEW c \in Callers, InStop(c), NEW r \in Live
    PROVE  r \in Runs /\ pc[r] = "await"
  <1>1. \A t \in Threads : ~InStart(t)
    BY DEF Control, OneStart, NoStop
  <1> QED
    BY <1>1, LiveOwner

\* Start's steps: the streams come before the spawn, and the command after it.
LEMMA StartLogs ==
    ASSUME TypeOK, Places, Control, Ownership, Logged, NEW t \in {Reconciler} \cup Runs, StartStep(t)
    PROVE  Logged'
  <1> USE DEF At, others, SetState
  <1>1. /\ t \in Threads /\ proc \in Proc
        /\ pc \in [Threads -> Labels] /\ loc \in [Threads -> Loc]
        /\ child \in [Runs -> {"none", "alive", "ok", "fail"}]
    BY Types, Sets DEF TypeOK
  <1>2. ASSUME InStart(t)
        PROVE  /\ runs \in Runs /\ t # runs /\ loc[t].cmd = runs /\ NoStop
               /\ \A u \in Threads \ {t} : ~InStart(u)
    BY <1>1, <1>2, Sole
  <1>3. CASE Enter(t)
    <2>1. /\ child' = child /\ proc'.streams = proc.streams /\ proc'.cmd = proc.cmd
          /\ pc[t] = "start" /\ pc'[t] = "starting"
          /\ \A u \in Threads \ {t} : pc'[u] = pc[u] /\ loc'[u] = loc[u]
      BY <1>1, <1>3 DEF Enter, FreshRun, Proc
    <2> LogApart
      BY <2>1, Sets DEF LogApart, Live, InStop, StopSteps
    <2> QED
      BY LogApartKeeps
  <1>4. CASE EnterRefused(t) \/ Starting(t) \/ StartFatal(t)
    <2>1. /\ child' = child /\ proc'.streams = proc.streams /\ proc'.cmd = proc.cmd
          /\ pc[t] \in {"start", "starting", "failing"} /\ pc'[t] \in {"fatal", "idle", "logging"}
          /\ \A u \in Threads \ {t} : pc'[u] = pc[u] /\ loc'[u] = loc[u]
      BY <1>1, <1>4 DEF EnterRefused, Starting, StartFatal, Proc
    <2> LogApart
      BY <2>1, Sets DEF LogApart, Live, InStop, StopSteps
    <2> QED
      BY LogApartKeeps
  <1>5. CASE StartFails(t)
    <2>1. /\ child' = child /\ proc' = proc /\ loc' = loc
          /\ pc[t] \in {"logging", "spawning"} /\ pc'[t] = "aborting"
          /\ \A u \in Threads \ {t} : pc'[u] = pc[u]
      BY <1>1, <1>5 DEF StartFails
    <2> LogApart
      BY <2>1, Sets DEF LogApart, Live, InStop, StopSteps
    <2> QED
      BY LogApartKeeps
  <1>6. CASE StartHealthChecks(t) \/ HealthStarting(t)
    <2>1. /\ child' = child /\ loc' = loc
          /\ proc'.streams = proc.streams /\ proc'.cmd = proc.cmd
          /\ pc[t] \in {"watching", "readying"} /\ pc'[t] \in {"readying", "launching"}
          /\ \A u \in Threads \ {t} : pc'[u] = pc[u]
      BY <1>1, <1>6 DEF StartHealthChecks, HealthStarting, Proc
    <2> LogApart
      BY <2>1, Sets DEF LogApart, Live, InStop, StopSteps
    <2> QED
      BY LogApartKeeps
  <1>7. CASE Launch(t)
    <2>1. InStart(t) /\ pc[t] = "launching"
      BY <1>7 DEF Launch, InStart, StartSteps
    <2>2. /\ child' = child /\ proc' = proc
          /\ pc'[t] \in {"done", "idle"} /\ pc'[runs] = "await"
          /\ \A u \in Threads \ {t, runs} : pc'[u] = pc[u] /\ loc'[u] = loc[u]
          /\ pc[runs] = "off"
      BY <1>1, <1>2, <1>7, <2>1, Sole, Sets DEF Launch, Returned
    <2> LogApart
      BY <1>2, <2>1, <2>2, Sets DEF LogApart, Live, InStop, StopSteps
    <2> QED
      BY LogApartKeeps
  <1>8. CASE Abort(t)
    <2>1. InStart(t) /\ pc[t] = "aborting"
      BY <1>8 DEF Abort, InStart, StartSteps
    <2>2. Live = {}
      BY <1>1, <2>1, NoneBeforeSpawn DEF Spawned
    <2>3. /\ child' = child /\ loc' = loc /\ proc'.cmd = proc.cmd
          /\ pc'[t] = "failing" /\ \A u \in Threads \ {t} : pc'[u] = pc[u]
      BY <1>1, <1>8 DEF Abort, Proc
    <2>4. Live' = {} /\ \A u \in Threads : pc'[u] # "spawning"
      BY <1>2, <2>1, <2>2, <2>3 DEF Live, InStart, StartSteps
    <2>5. \A c \in Callers : InStop(c)' => InStop(c)
      BY <2>3, Sets DEF InStop, StopSteps
    <2> QED
      BY <2>3, <2>4, <2>5 DEF Logged
  <1>9. CASE StartLogging(t)
    <2>1. /\ child' = child /\ loc' = loc /\ proc'.cmd = proc.cmd
          /\ proc'.streams = proc.streams \cup {loc[t].cmd}
          /\ pc[t] = "logging" /\ pc'[t] = "spawning"
          /\ \A u \in Threads \ {t} : pc'[u] = pc[u]
      BY <1>1, <1>9 DEF StartLogging, Proc
    <2>2. Live' = Live
      BY <2>1 DEF Live
    <2>3. \A c \in Callers : InStop(c)' => InStop(c) /\ pc'[c] = pc[c]
      BY <2>1, Sets DEF InStop, StopSteps
    <2>4. \A u \in Threads : pc[u] = "recording" => pc'[u] = "recording"
      BY <2>1
    <2>5. \A u \in Threads : pc'[u] = "spawning" => loc'[u].cmd \in proc'.streams
      BY <2>1 DEF Logged
    <2>6. \A c \in Callers : pc'[c] = "finishing" => Live' = {}
      BY <2>1, <2>2, Sets DEF Logged
    <2> QED
      BY <2>1, <2>2, <2>3, <2>4, <2>5, <2>6 DEF Logged
  <1>10. CASE Spawn(t)
    <2>1. InStart(t) /\ pc[t] = "spawning"
      BY <1>10 DEF Spawn, InStart, StartSteps
    <2>2. /\ child' = [child EXCEPT ![runs] = "alive"] /\ loc' = loc /\ proc' = proc
          /\ pc'[t] = "recording" /\ \A u \in Threads \ {t} : pc'[u] = pc[u]
      BY <1>1, <1>2, <1>10, <2>1 DEF Spawn
    <2>3. Live = {}
      BY <1>1, <2>1, NoneBeforeSpawn DEF Spawned
    <2>4. Live' \subseteq {runs}
      BY <1>1, <2>2, <2>3 DEF Live
    <2>5. runs \in proc.streams
      BY <1>1, <1>2, <2>1 DEF Logged
    <2>6. \A c \in Callers : ~InStop(c)' /\ pc'[c] # "finishing"
      BY <1>2, <2>1, <2>2, Sets DEF NoStop, InStop, StopSteps
    <2>7. \A u \in Threads : pc'[u] # "spawning"
      BY <1>2, <2>1, <2>2 DEF InStart, StartSteps
    <2> QED
      BY <1>1, <1>2, <2>1, <2>2, <2>4, <2>5, <2>6, <2>7 DEF Logged
  <1>11. CASE RecordRun(t)
    <2>1. InStart(t) /\ pc[t] = "recording"
      BY <1>11 DEF RecordRun, InStart, StartSteps
    <2>2. /\ child' = child /\ loc' = loc /\ proc'.streams = proc.streams /\ proc'.cmd = runs
          /\ pc'[t] \in {"watching", "launching"} /\ \A u \in Threads \ {t} : pc'[u] = pc[u]
      BY <1>1, <1>2, <1>11, <2>1 DEF RecordRun, Proc
    <2>3. Live' = Live /\ \A r \in Live : r = runs
      BY <2>2, LiveIsLatest DEF Live
    <2>4. \A c \in Callers : ~InStop(c)' /\ pc'[c] # "finishing"
      BY <1>2, <2>1, <2>2, Sets DEF NoStop, InStop, StopSteps
    <2>5. \A u \in Threads : pc'[u] # "spawning"
      BY <1>2, <2>1, <2>2 DEF InStart, StartSteps
    <2> QED
      BY <2>2, <2>3, <2>4, <2>5 DEF Logged
  <1> QED
    BY <1>3, <1>4, <1>5, <1>6, <1>7, <1>8, <1>9, <1>10, <1>11 DEF StartStep

\* Stop's steps: it goes by the command it read, and closes the streams when the
\* monitor of that run is done, or when there was nothing to stop.
LEMMA StopLogs ==
    ASSUME TypeOK, Places, Control, Ownership, Logged, ~CanWedge, NEW c \in Callers, StopStep(c)
    PROVE  Logged'
  <1> USE DEF At, others, SetState
  <1>1. /\ c \in Threads /\ proc \in Proc
        /\ pc \in [Threads -> Labels] /\ loc \in [Threads -> Loc]
    BY Types, Sets
  <1>2. ASSUME InStop(c)
        PROVE  /\ \A t \in Threads : ~InStart(t)
               /\ loc[c].cmd = proc.cmd
               /\ \A r \in Live : r \in Runs /\ pc[r] = "await" /\ r = proc.cmd
    <2>1. \A t \in Threads : ~InStart(t)
      BY <1>2 DEF Control, OneStart, NoStop
    <2>2. \A t \in Threads : pc[t] # "recording"
      BY <2>1 DEF InStart, StartSteps
    <2> QED
      BY <1>2, <2>1, <2>2, NoneInStop DEF Logged
  <1>3. CASE TakeHealth(c, "deciding") \/ AwaitProbe(c, "deciding")
    <2>1. /\ child' = child /\ proc'.streams = proc.streams /\ proc'.cmd = proc.cmd
          /\ pc[c] \in {"taking", "draining"} /\ pc'[c] \in {"draining", "deciding"}
          /\ loc'[c].cmd = loc[c].cmd
          /\ \A u \in Threads \ {c} : pc'[u] = pc[u] /\ loc'[u] = loc[u]
      BY <1>1, <1>3 DEF TakeHealth, AwaitProbe, AfterTaking, Proc, Loc
    <2> LogApart
      BY <2>1, Sets DEF LogApart, Live, InStop, StopSteps
    <2> QED
      BY LogApartKeeps
  <1>4. CASE Resting(c)
    <2>1. /\ child' = child /\ proc'.streams = proc.streams /\ proc'.cmd = proc.cmd
          /\ pc[c] = "resting" /\ pc'[c] = "idle"
          /\ \A u \in Threads \ {c} : pc'[u] = pc[u] /\ loc'[u] = loc[u]
      BY <1>1, <1>4 DEF Resting, Proc
    <2> LogApart
      BY <2>1, Sets DEF LogApart, Live, InStop, StopSteps
    <2> QED
      BY LogApartKeeps
  <1>5. CASE StopTimeout(c)
    <2>1. /\ child' = child /\ proc' = proc /\ loc' = loc
          /\ pc[c] = "waiting" /\ pc'[c] = "killing"
          /\ \A u \in Threads \ {c} : pc'[u] = pc[u]
      BY <1>1, <1>5 DEF StopTimeout
    <2> LogApart
      BY <2>1, Sets DEF LogApart, Live, InStop, StopSteps
    <2> QED
      BY LogApartKeeps
  <1>6. CASE BeginStop(c)
    <2>1. /\ child' = child /\ proc'.streams = proc.streams /\ proc'.cmd = proc.cmd
          /\ pc[c] = "stop" /\ pc'[c] = "taking" /\ loc'[c].cmd = proc.cmd
          /\ \A u \in Threads \ {c} : pc'[u] = pc[u] /\ loc'[u] = loc[u]
      BY <1>1, <1>6 DEF BeginStop, MarkStopped, Proc, Loc, NoLoc
    <2>2. Live' = Live
      BY <2>1 DEF Live
    <2>3. \A u \in Threads : /\ pc'[u] = "spawning" => pc[u] = "spawning" /\ loc'[u] = loc[u]
                             /\ pc[u] = "recording" => pc'[u] = "recording" /\ loc'[u] = loc[u]
                             /\ pc'[u] = "finishing" => pc[u] = "finishing"
      BY <2>1
    <2>4. \A d \in Callers : InStop(d)' => loc'[d].cmd = proc'.cmd
      BY <2>1, Sets DEF Logged, InStop
    <2> QED
      BY <2>1, <2>2, <2>3, <2>4, Sets DEF Logged
  <1>7. CASE Stopping(c) \/ MonitorReports(c)
    <2>1. /\ child' = child /\ loc' = loc
          /\ proc'.streams = proc.streams /\ proc'.cmd = proc.cmd
          /\ pc[c] \in {"deciding", "waiting", "killing"} /\ pc'[c] \in {"waiting", "finishing"}
          /\ \A u \in Threads \ {c} : pc'[u] = pc[u]
      BY <1>1, <1>7 DEF Stopping, MonitorReports, Proc
    <2>2. InStop(c)
      BY <2>1 DEF InStop, StopSteps
    <2>3. pc'[c] = "finishing" => loc[c].cmd = 0 \/ pc[loc[c].cmd] = "done"
      BY <1>7, <1>1 DEF Stopping, MonitorReports, MonitorDone
    <2>4. pc'[c] = "finishing" => Live = {}
      BY <1>2, <2>2, <2>3, Sets
    <2>5. Live' = Live
      BY <2>1 DEF Live
    <2>6. \A d \in Callers : /\ InStop(d)' => InStop(d)
                             /\ pc'[d] = "finishing" => pc[d] = "finishing" \/ d = c
      BY <2>1, <2>2, Sets DEF InStop
    <2>7. \A u \in Threads : /\ pc'[u] = "spawning" => pc[u] = "spawning"
                             /\ pc[u] = "recording" => pc'[u] = "recording"
      BY <2>1
    <2> QED
      BY <2>1, <2>4, <2>5, <2>6, <2>7 DEF Logged
  <1>8. CASE NothingRunning(c) \/ Finish(c)
    <2>1. /\ child' = child /\ proc'.cmd = proc.cmd
          /\ \/ pc[c] = "deciding" /\ NothingToStop(loc[c].state) /\ pc'[c] = "resting"
                /\ loc'[c] = loc[c]
             \/ pc[c] = "finishing" /\ pc'[c] = "idle"
          /\ \A u \in Threads \ {c} : pc'[u] = pc[u] /\ loc'[u] = loc[u]
      BY <1>1, <1>8 DEF NothingRunning, Finish, Proc
    <2>2. InStop(c)
      BY <2>1 DEF InStop, StopSteps
    <2>3. Live = {}
      <3>1. pc[c] = "deciding" /\ NothingToStop(loc[c].state) => \A r \in Runs : pc[r] # "await"
        BY <2>2 DEF Control, Asked, Before, Ended
      <3> QED
        BY <1>2, <2>1, <2>2, <3>1 DEF Logged
    <2>4. Live' = {}
      BY <2>1, <2>3 DEF Live
    <2>5. \A u \in Threads : pc'[u] # "spawning"
      BY <1>2, <2>1, <2>2 DEF InStart, StartSteps
    <2>6. \A d \in Callers : InStop(d)' => InStop(d) /\ loc'[d].cmd = loc[d].cmd
      BY <2>1, Sets DEF InStop, StopSteps
    <2> QED
      BY <2>1, <2>4, <2>5, <2>6 DEF Logged
  <1>9. ~GiveUp(c)
    BY DEF GiveUp, GraceIsOver
  <1> QED
    BY <1>3, <1>4, <1>5, <1>6, <1>7, <1>8, <1>9 DEF StopStep

\* The monitor's steps: it closes the streams after the exit of its child.
LEMMA MonitorLogs ==
    ASSUME TypeOK, Places, Control, Ownership, Logged, NEW r \in Runs, MonitorStep(r)
    PROVE  Logged'
  <1> USE DEF At, others, SetState
  <1>1. /\ r \in Threads /\ r \notin Callers /\ proc \in Proc
        /\ pc \in [Threads -> Labels] /\ loc \in [Threads -> Loc]
    BY Types, Sets
  <1>2. /\ child' = child /\ proc'.cmd = proc.cmd
        /\ pc[r] \notin {"spawning", "recording"} /\ pc'[r] \notin {"spawning", "recording"}
        /\ \A u \in Threads \ {r} : pc'[u] = pc[u] /\ loc'[u] = loc[u]
    <2>1. CASE ExitArrives(r) \/ StopLogging(r) \/ RecordExit(r) \/ Settle(r)
      BY <1>1, <2>1 DEF ExitArrives, StopLogging, RecordExit, Settle, SettledTo, Proc
    <2>2. CASE TakeHealth(r, "unlogging") \/ AwaitProbe(r, "unlogging")
      BY <1>1, <2>2 DEF TakeHealth, AwaitProbe, AfterTaking, Proc
    <2>3. CASE PublishStopped(r) \/ PublishExited(r) \/ Latch(r) \/ Exiting(r) \/ PublishFatal(r)
      BY <1>1, <2>3 DEF PublishStopped, PublishExited, Latch, Exiting, PublishFatal, Proc
    <2>4. CASE Policy(r)
      BY <1>1, <2>4 DEF Policy, Proc
    <2>5. CASE BackoffCanceled(r) \/ BackoffElapsed(r) \/ CheckCanceled(r) \/ Retry(r)
      BY <1>1, <2>5 DEF BackoffCanceled, BackoffElapsed, CheckCanceled, Retry, Proc
    <2> QED
      BY <2>1, <2>2, <2>3, <2>4, <2>5 DEF MonitorStep
  <1>3. \A c \in Callers : c # r
    BY <1>1
  <1>4. CASE proc'.streams = proc.streams
    <2>1. Live' = Live
      BY <1>2 DEF Live
    <2> LogApart
      BY <1>2, <1>3, <1>4, <2>1, Sets DEF LogApart, InStop
    <2> QED
      BY LogApartKeeps
  <1>5. CASE StopLogging(r)
    <2>1. pc[r] = "unlogging"
      BY <1>5 DEF StopLogging
    <2>2. ~AtRest(r) /\ ~InStart(r)
      BY <2>1 DEF AtRest, InStart, StartSteps
    <2>3. /\ \A u \in Threads : ~InStart(u)
          /\ \A q \in Runs \ {r} : AtRest(q)
      BY <2>2, Alone
    <2>4. Live = {}
      BY <2>1, <2>3, LiveOwner DEF AtRest
    <2>5. Live' = {}
      BY <1>2, <2>4 DEF Live
    <2>6. \A u \in Threads : pc'[u] # "spawning"
      BY <1>2, <2>3 DEF InStart, StartSteps
    <2>7. \A c \in Callers : InStop(c)' => InStop(c) /\ loc'[c].cmd = loc[c].cmd
      BY <1>2, <1>3, Sets DEF InStop
    <2> QED
      BY <1>2, <2>5, <2>6, <2>7 DEF Logged
  <1>6. StopLogging(r) \/ proc'.streams = proc.streams
    <2>1. CASE ExitArrives(r) \/ RecordExit(r) \/ Settle(r)
      BY <1>1, <2>1 DEF ExitArrives, RecordExit, Settle, Proc
    <2>2. CASE TakeHealth(r, "unlogging") \/ AwaitProbe(r, "unlogging")
      BY <1>1, <2>2 DEF TakeHealth, AwaitProbe, Proc
    <2>3. CASE PublishStopped(r) \/ PublishExited(r) \/ Latch(r) \/ Exiting(r) \/ PublishFatal(r)
      BY <1>1, <2>3 DEF PublishStopped, PublishExited, Latch, Exiting, PublishFatal, Proc
    <2>4. CASE Policy(r)
      BY <1>1, <2>4 DEF Policy, Proc
    <2>5. CASE BackoffCanceled(r) \/ BackoffElapsed(r) \/ CheckCanceled(r) \/ Retry(r)
      BY <1>1, <2>5 DEF BackoffCanceled, BackoffElapsed, CheckCanceled, Retry, Proc
    <2> QED
      BY <2>1, <2>2, <2>3, <2>4, <2>5 DEF MonitorStep
  <1> QED
    BY <1>4, <1>5, <1>6

\* Nobody else has anything to do with the streams.
LEMMA OthersLog ==
    ASSUME TypeOK, Logged,
           (\E r \in Runs : HelperStep(r)) \/ Environment \/ UNCHANGED vars
    PROVE  Logged'
  <1> USE DEF At, others
  <1>1. /\ proc \in Proc /\ pc \in [Threads -> Labels]
        /\ Reconciler \in Callers /\ Shutdown \in Callers /\ Clients \subseteq Callers
        /\ child \in [Runs -> {"none", "alive", "ok", "fail"}]
    BY Types, Sets DEF Callers, TypeOK
  <1>2. proc'.streams = proc.streams /\ proc'.cmd = proc.cmd /\ loc' = loc
    <2>1. ASSUME NEW r \in Runs, HelperStep(r)
          PROVE  proc'.streams = proc.streams /\ proc'.cmd = proc.cmd /\ loc' = loc
      BY <1>1, <2>1 DEF HelperStep, WaiterQuits, WaiterElapses, Promote, PublishHealth, ProbeEnds, Proc
    <2>2. CASE Environment \/ UNCHANGED vars
      BY <2>2 DEF Environment, ReconcilerStarts, ReconcilerStops, BeginShutdown, DaemonExits, ClientStops,
                  ChildExits, ProbeResult, vars
    <2> QED
      BY <2>1, <2>2
  <1>3. Live' \subseteq Live
    <2>1. ASSUME NEW r \in Runs, HelperStep(r) PROVE child' = child
      BY <2>1 DEF HelperStep, WaiterQuits, WaiterElapses, Promote, PublishHealth, ProbeEnds
    <2>2. ASSUME NEW r \in Runs, ChildExits(r) PROVE Live' \subseteq Live
      BY <1>1, <2>2 DEF ChildExits, Live
    <2>3. CASE (Environment /\ ~\E r \in Runs : ChildExits(r)) \/ UNCHANGED vars
      BY <2>3 DEF Environment, ReconcilerStarts, ReconcilerStops, BeginShutdown, DaemonExits, ClientStops,
                  ProbeResult, vars, Live
    <2> QED
      BY <2>1, <2>2, <2>3 DEF Live
  <1>4. \A t \in Threads : pc'[t] = pc[t] \/ (pc[t] = "idle" /\ pc'[t] \in {"start", "stop"})
    <2>1. ASSUME NEW r \in Runs, HelperStep(r) PROVE pc' = pc
      BY <2>1 DEF HelperStep, WaiterQuits, WaiterElapses, Promote, PublishHealth, ProbeEnds
    <2>2. CASE Environment \/ UNCHANGED vars
      BY <1>1, <2>2 DEF Environment, ReconcilerStarts, ReconcilerStops, BeginShutdown, DaemonExits,
                        ClientStops, ChildExits, ProbeResult, vars
    <2> QED
      BY <2>1, <2>2
  <1> LogApart
    BY <1>2, <1>3, <1>4, Sets DEF LogApart, InStop, StopSteps
  <1> QED
    BY LogApartKeeps

\* What a live child writes is captured until its exit has been seen, by the
\* streams of its run, which Stop, the monitor and a failing Start leave alone
\* until then; where a killed child dies.
THEOREM ProcessLiveRunIsLogged == ~CanWedge => (Spec => []LiveRunIsLogged)
  <1> DEFINE LoggedInv == CalmInv /\ (Calm => Logged)
  <1> SUFFICES ASSUME ~CanWedge PROVE Spec => []LiveRunIsLogged
    OBVIOUS
  <1>1. Init => LoggedInv
    <2> SUFFICES ASSUME Init PROVE CalmInv /\ Logged
      OBVIOUS
    <2>1. /\ Live = {} /\ \A t \in Threads : pc[t] \in {"off", "idle"}
      BY Sets DEF Init, Live
    <2> QED
      BY <2>1, Sets, CalmAtFirst DEF Logged, InStop, StopSteps
  <1>2. LoggedInv /\ [Next]_vars => LoggedInv'
    <2> SUFFICES ASSUME LoggedInv, [Next]_vars PROVE LoggedInv'
      OBVIOUS
    <2>1. CalmInv'
      BY CalmKept
    <2>2. ASSUME Calm' PROVE Logged'
      <3>1. TypeOK /\ Places /\ Control /\ Ownership /\ Logged
        BY <2>2, CalmBefore DEF CalmInv
      <3>2. ASSUME NEW t \in {Reconciler} \cup Runs, StartStep(t) PROVE Logged'
        BY <3>1, <3>2, StartLogs
      <3>3. ASSUME NEW c \in Callers, StopStep(c) PROVE Logged'
        BY <3>1, <3>3, StopLogs
      <3>4. ASSUME NEW r \in Runs, MonitorStep(r) PROVE Logged'
        BY <3>1, <3>4, MonitorLogs
      <3>5. CASE (\E r \in Runs : HelperStep(r)) \/ Environment \/ UNCHANGED vars
        BY <3>1, <3>5, OthersLog
      <3> QED
        BY <3>2, <3>3, <3>4, <3>5 DEF Next, Exited
    <2> QED
      BY <2>1, <2>2
  <1>3. LoggedInv => LiveRunIsLogged
    BY DEF Logged, LiveRunIsLogged
  <1> QED
    BY <1>1, <1>2, <1>3, PTL DEF Spec

-----------------------------------------------------------------------------
(* What the rest of the daemon sees of a Process is what ProcessLife promises *)

\* What is seen, and that it stays as it is.
Seen == <<proc.state, Live # {}, proc.completed>>
Unseen == proc'.state = proc.state /\ child' = child /\ proc'.completed = proc.completed

LEMMA UnseenStays == ASSUME Unseen PROVE UNCHANGED Seen
  BY DEF Unseen, Seen, Live

\* Nothing is alive when a monitor is past its wait, or is about to start a run.
LEMMA NoneAfterExit ==
    ASSUME TypeOK, Places, Control, Ownership,
           NEW r \in Runs, ~AtRest(r), ~InStart(r), pc[r] # "await"
    PROVE  Live = {}
  <1> SUFFICES ASSUME NEW q \in Live PROVE FALSE
    OBVIOUS
  <1>1. q \in Runs /\ (pc[q] = "await" \/ \E t \in Threads : InStart(t))
    BY LiveOwner
  <1>2. /\ \A t \in Threads : ~InStart(t)
        /\ \A s \in Runs \ {r} : AtRest(s)
    BY Alone
  <1> QED
    BY <1>1, <1>2 DEF AtRest

LEMMA NoneAtEntry ==
    ASSUME TypeOK, Places, Control, Ownership, NEW t \in {Reconciler} \cup Runs, pc[t] = "start"
    PROVE  Live = {}
  <1> SUFFICES ASSUME NEW r \in Live PROVE FALSE
    OBVIOUS
  <1>1. r \in Runs /\ (pc[r] = "await" \/ \E u \in Threads : InStart(u))
    BY LiveOwner
  <1>2. /\ \A q \in Runs \ {t} : AtRest(q)
        /\ \A u \in Threads : ~InStart(u)
    BY ReadyToEnter
  <1> QED
    BY <1>1, <1>2 DEF AtRest

\* A Stop does not meet a restart that has been published.
LEMMA StopMeetsNoRestart ==
    ASSUME TypeOK, Control, NEW c \in Callers, InStop(c)
    PROVE  proc.state # "BACKOFF"
  <1> SUFFICES ASSUME proc.state = "BACKOFF" PROVE FALSE
    OBVIOUS
  <1>1. PICK r \in Runs : pc[r] \in {"start", "starting"}
    BY DEF Control, Backing
  <1>2. CASE pc[r] = "start"
    BY <1>2 DEF Control, Restarting, NoStop
  <1>3. CASE pc[r] = "starting"
    BY <1>3, Sets DEF Control, OneStart, NoStop, InStart, StartSteps
  <1> QED
    BY <1>1, <1>2, <1>3

\* Start: the first section resets the latch, then come the state and the child.
LEMMA StartLives ==
    ASSUME TypeOK, Places, Control, Ownership, NEW t \in {Reconciler} \cup Runs, StartStep(t)
    PROVE  [Life!Next]_Seen
  <1> USE DEF At, others, SetState
  <1>1. /\ t \in Threads /\ proc \in Proc
        /\ child \in [Runs -> {"none", "alive", "ok", "fail"}]
    BY Types, Sets DEF TypeOK
  <1>2. CASE Enter(t)
    <2>1. Live = {} /\ proc.state \in {"STOPPED", "STOPPING", "BACKOFF"}
      BY <1>2, NoneAtEntry, ReadyToEnter DEF Enter
    <2>2. child' = child /\ proc'.state = proc.state /\ proc'.completed = FALSE
      BY <1>1, <1>2 DEF Enter, FreshRun, Proc
    <2> QED
      BY <2>1, <2>2 DEF Life!Next, Life!Resets, Life!Resting, Live
  <1>3. CASE Starting(t)
    <2>1. InStart(t) /\ pc[t] = "starting"
      BY <1>3 DEF Starting, InStart, StartSteps
    <2>2. Live = {}
      BY <1>1, <2>1, NoneBeforeSpawn DEF Spawned
    <2>3. proc.state \in {"STOPPED", "STOPPING", "BACKOFF"} /\ ~proc.completed
      BY <1>1, <2>1 DEF Control, OneStart, Ownership, Completed
    <2>4. child' = child /\ proc'.state = "STARTING" /\ proc'.completed = proc.completed
      BY <1>1, <1>3 DEF Starting, Proc
    <2> QED
      BY <2>2, <2>3, <2>4 DEF Life!Next, Life!Starts, Life!Resting, Live
  <1>4. CASE Spawn(t)
    <2>1. InStart(t) /\ pc[t] = "spawning"
      BY <1>4 DEF Spawn, InStart, StartSteps
    <2>2. Live = {} /\ runs \in Runs /\ loc[t].cmd = runs
      BY <1>1, <2>1, NoneBeforeSpawn, Sole DEF Spawned
    <2>3. proc.state \in {"STARTING", "RUNNING"} /\ ~proc.completed
      BY <1>1, <2>1 DEF Control, OneStart, Ownership, Completed
    <2>4. child' = [child EXCEPT ![runs] = "alive"] /\ proc' = proc
      BY <1>4, <2>2 DEF Spawn
    <2>5. runs \in Live'
      BY <1>1, <2>2, <2>4 DEF Live
    <2> QED
      BY <2>2, <2>3, <2>4, <2>5 DEF Life!Next, Life!Forks, Life!Starting
  <1>5. CASE StartFatal(t)
    <2>1. InStart(t) /\ pc[t] = "failing"
      BY <1>5 DEF StartFatal, InStart, StartSteps
    <2>2. Live = {}
      BY <1>1, <2>1, NoneBeforeSpawn DEF Spawned
    <2>3. proc.state \in {"STARTING", "RUNNING"} /\ ~proc.completed
      BY <1>1, <2>1 DEF Control, OneStart, Ownership, Completed
    <2>4. child' = child /\ proc'.state = "FATAL" /\ proc'.completed = proc.completed
      BY <1>1, <1>5 DEF StartFatal, Proc
    <2> QED
      BY <2>2, <2>3, <2>4 DEF Life!Next, Life!Fails, Life!Starting, Live
  <1>6. CASE EnterRefused(t) \/ StartFails(t) \/ Launch(t)
    <2> Unseen
      BY <1>6 DEF EnterRefused, StartFails, Launch, Unseen
    <2> QED
      BY UnseenStays
  <1>7. CASE StartLogging(t) \/ RecordRun(t) \/ StartHealthChecks(t) \/ HealthStarting(t) \/ Abort(t)
    <2> Unseen
      BY <1>1, <1>7
      DEF StartLogging, RecordRun, StartHealthChecks, HealthStarting, Abort, Proc, Unseen
    <2> QED
      BY UnseenStays
  <1> QED
    BY <1>2, <1>3, <1>4, <1>5, <1>6, <1>7 DEF StartStep

\* Stop: it publishes STOPPING, or STOPPED if nothing was running.
LEMMA StopLives ==
    ASSUME TypeOK, Places, Control, Ownership, NEW c \in Callers, StopStep(c)
    PROVE  [Life!Next]_Seen
  <1> USE DEF At, others, SetState
  <1>1. c \in Threads /\ proc \in Proc
    BY Types, Sets
  <1>2. CASE Resting(c)
    <2>1. InStop(c) /\ pc[c] = "resting"
      BY <1>2 DEF Resting, InStop, StopSteps
    <2>2. \A r \in Runs : pc[r] # "await"
      BY <2>1 DEF Control, Asked, Ended
    <2>3. Live = {}
      BY <2>1, <2>2, NoneInStop
    <2>4. proc.state # "BACKOFF"
      BY <2>1, StopMeetsNoRestart
    <2>5. child' = child /\ proc'.state = "STOPPED" /\ proc'.completed = proc.completed
      BY <1>1, <1>2 DEF Resting, Proc
    <2> QED
      BY <2>3, <2>4, <2>5 DEF Life!Next, Life!Stopped, Live
  <1>3. CASE Stopping(c)
    <2>1. InStop(c)
      BY <1>3 DEF Stopping, InStop, StopSteps
    <2>2. proc.state # "BACKOFF"
      BY <2>1, StopMeetsNoRestart
    <2>3. child' = child /\ proc'.state = "STOPPING" /\ proc'.completed = proc.completed
      BY <1>1, <1>3 DEF Stopping, Proc
    <2> QED
      BY <2>2, <2>3 DEF Life!Next, Life!Stopping, Live
  <1>4. CASE BeginStop(c) \/ TakeHealth(c, "deciding") \/ AwaitProbe(c, "deciding")
    <2> Unseen
      BY <1>1, <1>4 DEF BeginStop, MarkStopped, TakeHealth, AwaitProbe, Proc, Unseen
    <2> QED
      BY UnseenStays
  <1>5. CASE \/ NothingRunning(c) \/ MonitorReports(c) \/ StopTimeout(c) \/ GiveUp(c)
             \/ Finish(c)
    <2> Unseen
      BY <1>1, <1>5 DEF NothingRunning, MonitorReports, StopTimeout, GiveUp, Finish, Proc, Unseen
    <2> QED
      BY UnseenStays
  <1> QED
    BY <1>2, <1>3, <1>4, <1>5 DEF StopStep

\* The monitor publishes how a run ended after its exit, and nothing else is up.
LEMMA MonitorLives ==
    ASSUME TypeOK, Places, Control, Ownership, NEW r \in Runs, MonitorStep(r)
    PROVE  [Life!Next]_Seen
  <1> USE DEF At, others, SetState
  <1>1. r \in Threads /\ proc \in Proc
    BY Types, Sets
  <1>2. ASSUME pc[r] \in {"latching", "stopped", "exited", "exiting", "fatal", "retry"}
        PROVE  Live = {} /\ (r = runs \/ (pc[r] = "fatal" /\ r < runs))
    <2>1. ~AtRest(r) /\ ~InStart(r) /\ pc[r] # "await"
      BY <1>2 DEF AtRest, InStart, StartSteps
    <2> QED
      BY <2>1, NoneAfterExit, Alone
  <1>3. pc[r] \in {"latching", "stopped", "exited", "exiting"} =>
            proc.state \in {"STARTING", "RUNNING", "STOPPING"}
    BY DEF Control, Settling, Teardown
  <1>4. CASE Latch(r)
    <2>1. pc[r] = "latching" /\ child' = child /\ proc'.state = proc.state /\ proc'.completed = TRUE
      BY <1>1, <1>4 DEF Latch, Proc
    <2> QED
      BY <1>2, <1>3, <2>1 DEF Life!Next, Life!Completes, Life!Over, Life!Starting, Live
  <1>5. CASE PublishStopped(r)
    <2>1. /\ pc[r] = "stopped" /\ child' = child
          /\ proc'.state = "STOPPED" /\ proc'.completed = proc.completed
      BY <1>1, <1>5 DEF PublishStopped, Proc
    <2> QED
      BY <1>2, <1>3, <2>1 DEF Life!Next, Life!Stopped, Live
  <1>6. CASE PublishExited(r) \/ Exiting(r)
    <2>1. /\ pc[r] \in {"exited", "exiting"} /\ child' = child
          /\ proc'.state = "EXITED" /\ proc'.completed = proc.completed
      BY <1>1, <1>6 DEF PublishExited, Exiting, Proc
    <2> QED
      BY <1>2, <1>3, <2>1 DEF Life!Next, Life!Exits, Life!Over, Life!Starting, Live
  <1>7. CASE PublishFatal(r)
    <2>1. /\ pc[r] = "fatal" /\ child' = child
          /\ proc'.state = "FATAL" /\ proc'.completed = proc.completed
      BY <1>1, <1>7 DEF PublishFatal, Proc
    <2>2. CASE r = runs
      <3>1. proc.state \in {"EXITED", "STOPPING"}
        BY <2>1, <2>2 DEF Control, Settling
      <3> QED
        BY <1>2, <2>1, <3>1 DEF Life!Next, Life!GivesUp, Live
    <2>3. CASE r < runs
      <3>1. proc.state = "FATAL"
        BY <2>1, <2>3 DEF Control, FailedRestart
      <3> QED
        BY <2>1, <3>1, UnseenStays DEF Unseen
    <2> QED
      BY <1>2, <2>1, <2>2, <2>3
  <1>8. CASE Retry(r)
    <2>1. /\ pc[r] = "retry" /\ child' = child
          /\ proc'.state = "BACKOFF" /\ proc'.completed = proc.completed
      BY <1>1, <1>8 DEF Retry, Proc
    <2>2. proc.state = "EXITED"
      BY <2>1 DEF Control, Restarting
    <2> QED
      BY <1>2, <2>1, <2>2 DEF Life!Next, Life!Retries, Live
  <1>9. CASE \/ ExitArrives(r) \/ TakeHealth(r, "unlogging") \/ AwaitProbe(r, "unlogging")
             \/ StopLogging(r) \/ RecordExit(r) \/ Settle(r)
    <2> Unseen
      BY <1>1, <1>9
      DEF ExitArrives, TakeHealth, AwaitProbe, StopLogging, RecordExit, Settle, Proc, Unseen
    <2> QED
      BY UnseenStays
  <1>10. CASE \/ Policy(r) \/ BackoffCanceled(r) \/ BackoffElapsed(r) \/ CheckCanceled(r)
    <2> Unseen
      BY <1>1, <1>10 DEF Policy, BackoffCanceled, BackoffElapsed, CheckCanceled, Proc, Unseen
    <2> QED
      BY UnseenStays
  <1> QED
    BY <1>4, <1>5, <1>6, <1>7, <1>8, <1>9, <1>10 DEF MonitorStep

\* The start waiter promotes, the child exits, and nobody else is seen.
LEMMA OthersLive ==
    ASSUME TypeOK, Places, Control, Ownership,
           (\E r \in Runs : HelperStep(r)) \/ Environment \/ UNCHANGED vars
    PROVE  [Life!Next]_Seen
  <1> USE DEF At, others
  <1>1. proc \in Proc /\ child \in [Runs -> {"none", "alive", "ok", "fail"}]
    BY Types DEF TypeOK
  <1>2. ASSUME NEW r \in Runs, HelperStep(r) PROVE [Life!Next]_Seen
    <2>1. /\ child' = child /\ proc'.completed = proc.completed
          /\ \/ proc'.state = proc.state
             \/ proc.state = "STARTING" /\ proc'.state = "RUNNING"
      BY <1>1, <1>2
      DEF HelperStep, WaiterQuits, WaiterElapses, Promote, PublishHealth, ProbeEnds, Proc
    <2>2. CASE proc'.state = proc.state
      BY <2>1, <2>2, UnseenStays DEF Unseen
    <2>3. CASE proc.state = "STARTING" /\ proc'.state = "RUNNING"
      BY <2>1, <2>3 DEF Life!Next, Life!ComesUp, Live
    <2> QED
      BY <2>1, <2>2, <2>3
  <1>3. ASSUME NEW r \in Runs, ChildExits(r) PROVE [Life!Next]_Seen
    <2>1. r \in Live /\ child'[r] # "alive" /\ \A q \in Runs \ {r} : child'[q] = child[q]
      BY <1>1, <1>3 DEF ChildExits, Live
    <2>2. \A q \in Live : q = r
      BY <2>1, LiveIsLatest
    <2>3. Live # {} /\ Live' = {}
      BY <2>1, <2>2 DEF Live
    <2>4. proc' = proc
      BY <1>3 DEF ChildExits
    <2> QED
      BY <2>3, <2>4 DEF Life!Next, Life!Dies
  <1>4. CASE (Environment /\ ~\E r \in Runs : ChildExits(r)) \/ UNCHANGED vars
    <2> Unseen
      BY <1>4
      DEF Environment, ReconcilerStarts, ReconcilerStops, BeginShutdown, DaemonExits, ClientStops,
          ProbeResult, vars, Unseen
    <2> QED
      BY UnseenStays
  <1> QED
    BY <1>2, <1>3, <1>4

\* Up to the first Stop that overlaps a start, every step of a Process is one of
\* the life that the reconciler, a reload and the dependents rely on, or is not
\* seen by them, for any number of runs, restarts and callers.
THEOREM ProcessKeepsLife == Spec => KeepsLife
  <1>1. Init => Life!Init
    BY Sets DEF Init, Life!Init, Live
  <1>2. CalmInv /\ [Next]_vars => [Calm' => [Life!Next]_(Life!vars)]_vars
    <2> SUFFICES ASSUME CalmInv, [Next]_vars, Calm' PROVE [Life!Next]_Seen
      BY DEF Life!vars, Seen
    <2>1. TypeOK /\ Places /\ Control /\ Ownership
      BY CalmBefore DEF CalmInv
    <2>2. ASSUME NEW t \in {Reconciler} \cup Runs, StartStep(t) PROVE [Life!Next]_Seen
      BY <2>1, <2>2, StartLives
    <2>3. ASSUME NEW c \in Callers, StopStep(c) PROVE [Life!Next]_Seen
      BY <2>1, <2>3, StopLives
    <2>4. ASSUME NEW r \in Runs, MonitorStep(r) PROVE [Life!Next]_Seen
      BY <2>1, <2>4, MonitorLives
    <2>5. CASE (\E r \in Runs : HelperStep(r)) \/ Environment \/ UNCHANGED vars
      BY <2>1, <2>5, OthersLive
    <2> QED
      BY <2>2, <2>3, <2>4, <2>5 DEF Next, Exited
  <1> QED
    BY <1>1, <1>2, CalmAlways, PTL DEF Spec, KeepsLife

\* A Process no Stop of which ever overlaps a start implements ProcessLife.
THEOREM ProcessImplementsLife == Spec /\ []Calm => Life!Spec
  <1>1. Calm' /\ [Calm' => [Life!Next]_(Life!vars)]_vars => [Life!Next]_(Life!vars)
    BY DEF vars, Life!vars, Live
  <1> QED
    BY <1>1, ProcessKeepsLife, PTL DEF KeepsLife, Life!Spec
=============================================================================

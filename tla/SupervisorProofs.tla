-------------------------- MODULE SupervisorProofs --------------------------
(* Theorems about Supervisor, for any programs, dependencies and requests. *)
EXTENDS Supervisor, TLAPS

RecType == [pc : {"select", "look", "judge", "dep", "health", "blocked", "ready", "run", "done"},
            i : 1 .. Len(Order), want : {"RUNNING", "STOPPED"}, d : Nat]

LEMMA CurrentIsProgram == rec \in RecType => Current \in Programs
  BY SupervisorAssumption DEF RecType, Current

LEMMA NextProgramType ==
    ASSUME rec \in RecType
    PROVE  NextProgram \in RecType /\ NextProgram.pc \in {"select", "look"}
<1>1. Len(Order) \in Nat
  BY SupervisorAssumption
<1>2. CASE rec.i = Len(Order)
  <2>1. 1 \in 1 .. Len(Order)
    BY <1>1 DEF RecType
  <2>2. NextProgram = [pc |-> "select", i |-> 1, want |-> rec.want, d |-> rec.d]
    BY <1>2 DEF NextProgram, RecType
  <2> QED
    BY <2>1, <2>2 DEF RecType
<1>3. CASE rec.i # Len(Order)
  <2>1. rec.i + 1 \in 1 .. Len(Order)
    BY <1>1, <1>3 DEF RecType
  <2>2. NextProgram = [pc |-> "look", i |-> rec.i + 1, want |-> rec.want, d |-> rec.d]
    BY <1>3 DEF NextProgram, RecType
  <2> QED
    BY <2>1, <2>2 DEF RecType
<1> QED
  BY <1>2, <1>3

\* What a program does by itself.
Moves(p) == ComesUp(p) \/ HealthChanges(p) \/ Exits(p) \/ Retries(p) \/ GivesUp(p)

-----------------------------------------------------------------------------
(* Types. *)

\* The dependency that is being looked at is one of the list.
InRange ==
    /\ rec.pc \in {"dep", "health", "blocked"} => rec.d >= 1
    /\ rec.pc \in {"health", "blocked"} => rec.d <= Len(DependsOn[Current])

TypeInv == TypeOK /\ InRange

LEMMA TypeInit == Init => TypeInv
<1> SUFFICES ASSUME Init PROVE TypeInv
  OBVIOUS
<1>1. 1 \in 1 .. Len(Order)
  BY SupervisorAssumption
<1>2. rec \in RecType
  BY <1>1 DEF Init, RecType
<1>3. NoRequest \in [pc : {"idle", "check", "recheck", "reset", "resetting", "want",
                           "unwant", "startwait", "stopwait"},
                     prog : Programs \cup {None}, again : BOOLEAN]
  BY DEF NoRequest
<1>4. TypeOK
  BY <1>2, <1>3, SupervisorAssumption DEF Init, TypeOK, RecType, States
<1>5. InRange
  BY DEF Init, InRange
<1> QED
  BY <1>4, <1>5 DEF TypeInv

LEMMA ElementType == ASSUME NEW S, NEW s \in Seq(S), NEW i \in 1 .. Len(s) PROVE s[i] \in S
  OBVIOUS

\* The dependency that NoteBlocked and the checks name.
LEMMA DepInList ==
    ASSUME rec \in RecType, rec.d >= 1, rec.d <= Len(DependsOn[Current])
    PROVE  /\ Dep \in Dependency(Current) /\ Dep.on \in Programs
           /\ Dep.cond \in {"started", "healthy", "completed"}
<1>1. DependsOn[Current] \in Seq([on : Programs, cond : {"started", "healthy", "completed"}])
  BY CurrentIsProgram, SupervisorAssumption
<1>2. rec.d \in 1 .. Len(DependsOn[Current]) /\ DOMAIN DependsOn[Current] = 1 .. Len(DependsOn[Current])
  BY <1>1 DEF RecType
<1>3. DependsOn[Current][rec.d] \in [on : Programs, cond : {"started", "healthy", "completed"}]
  BY <1>1, <1>2, ElementType
<1> QED
  BY <1>2, <1>3 DEF Dep, Dependency

\* The three ways on from Judge.
LEMMA JudgeSets ==
    ASSUME Judge
    PROVE  \/ rec.want = "RUNNING" /\ rec' = [rec EXCEPT !.pc = "dep", !.d = 1]
           \/ rec.want = "STOPPED" /\ rec' = [rec EXCEPT !.pc = "run"]
           \/ rec' = NextProgram
<1>1. CASE rec.want = "RUNNING" /\ MayStart(state[Current])
  BY <1>1 DEF Judge
<1>2. CASE rec.want = "STOPPED" /\ MustStop(state[Current])
  BY <1>2 DEF Judge
<1> QED
  BY <1>1, <1>2 DEF Judge

LEMMA ReconcileType == TypeInv /\ Reconcile => TypeInv'
<1> SUFFICES ASSUME TypeInv, Reconcile PROVE TypeInv'
  OBVIOUS
<1>1. rec \in RecType
  BY DEF TypeInv, TypeOK, RecType
<1>2. Current \in Programs /\ NextProgram \in RecType /\ NextProgram.pc \in {"select", "look"}
  BY <1>1, CurrentIsProgram, NextProgramType
<1>3. Len(DependsOn[Current]) \in Nat
  BY <1>2, SupervisorAssumption
<1>4. rec' \in RecType /\ InRange'
  <2>1. CASE Look
    BY <1>1, <1>2, <2>1 DEF Look, TypeInv, TypeOK, RecType, InRange
  <2>2. CASE Judge
    <3>1. \/ rec' = [rec EXCEPT !.pc = "dep", !.d = 1]
          \/ rec' = [rec EXCEPT !.pc = "run"]
          \/ rec' = NextProgram
      BY <2>2, JudgeSets
    <3>2. CASE rec' = [rec EXCEPT !.pc = "dep", !.d = 1]
      <4>1. rec' = [pc |-> "dep", i |-> rec.i, want |-> rec.want, d |-> 1]
        BY <1>1, <3>2 DEF RecType
      <4> QED
        BY <1>1, <4>1 DEF RecType, InRange
    <3>3. CASE rec' = [rec EXCEPT !.pc = "run"]
      BY <1>1, <3>3 DEF RecType, InRange
    <3> QED
      BY <1>2, <3>1, <3>2, <3>3 DEF InRange
  <2>3. CASE CheckDependency
    <3>1. \/ rec' \in {[rec EXCEPT !.pc = "ready"], [rec EXCEPT !.pc = "blocked"], [rec EXCEPT !.pc = "health"]}
             /\ (rec'.pc \in {"blocked", "health"} => rec.d <= Len(DependsOn[Current]))
          \/ rec' = [rec EXCEPT !.d = rec.d + 1] /\ rec.pc = "dep"
      BY <1>1, <1>3, <2>3 DEF CheckDependency, RecStep, RecType
    <3>2. rec.pc = "dep" /\ rec.d >= 1 /\ rec.d \in Nat
      BY <1>1, <2>3 DEF CheckDependency, RecStep, TypeInv, InRange, RecType
    <3>3. CASE rec' = [rec EXCEPT !.d = rec.d + 1] /\ rec.pc = "dep"
      BY <1>1, <3>2, <3>3 DEF RecType, InRange, Current
    <3>4. CASE /\ rec' \in {[rec EXCEPT !.pc = "ready"], [rec EXCEPT !.pc = "blocked"], [rec EXCEPT !.pc = "health"]}
               /\ rec'.pc \in {"blocked", "health"} => rec.d <= Len(DependsOn[Current])
      BY <1>1, <3>2, <3>4 DEF RecType, InRange, Current
    <3> QED
      BY <3>1, <3>3, <3>4
  <2>4. CASE CheckHealth
    <3>1. CASE rec' = [rec EXCEPT !.pc = "dep", !.d = @ + 1]
      <4>1. rec' = [pc |-> "dep", i |-> rec.i, want |-> rec.want, d |-> rec.d + 1]
        BY <1>1, <3>1 DEF RecType
      <4> QED
        BY <1>1, <4>1 DEF RecType, InRange
    <3>2. CASE rec' = [rec EXCEPT !.pc = "blocked"]
      <4>1. rec.d >= 1 /\ rec.d <= Len(DependsOn[Current])
        BY <2>4 DEF CheckHealth, RecStep, TypeInv, InRange
      <4> QED
        BY <1>1, <3>2, <4>1 DEF RecType, InRange, Current
    <3> QED
      BY <2>4, <3>1, <3>2 DEF CheckHealth
  <2>5. CASE NoteBlocked
    BY <1>1, <1>2, <2>5 DEF NoteBlocked, RecType, InRange
  <2>6. CASE NoteReady
    BY <1>1, <1>2, <2>6 DEF NoteReady, RecType, InRange
  <2>7. CASE RunAction
    BY <1>1, <1>2, <2>7 DEF RunAction, RecType, InRange
  <2>8. CASE BeginPass \/ LoopEnds
    BY <1>1, <2>8 DEF BeginPass, LoopEnds, RecType, InRange
  <2> QED
    BY <2>1, <2>2, <2>3, <2>4, <2>5, <2>6, <2>7, <2>8 DEF Reconcile
<1>5. blockedReason' \in [Programs -> Programs \cup {None}]
  <2>1. CASE NoteBlocked
    <3>1. Dep.on \in Programs
      BY <1>1, <2>1, DepInList DEF NoteBlocked, RecStep, TypeInv, InRange
    <3> QED
      BY <1>2, <2>1, <3>1 DEF NoteBlocked, TypeInv, TypeOK
  <2>2. CASE NoteReady
    BY <1>2, <2>2 DEF NoteReady, Forget, TypeInv, TypeOK
  <2>3. CASE ~NoteBlocked /\ ~NoteReady
    BY <2>3 DEF Reconcile, Look, Judge, CheckDependency, CheckHealth, RunAction, BeginPass,
                LoopEnds, TypeInv, TypeOK
  <2> QED
    BY <2>1, <2>2, <2>3
<1>6. /\ inflight' \in [Programs -> BOOLEAN]
      /\ action' \in [Programs -> {"none", "start", "stop", "stopping", "returning"}]
  <2>1. CASE RunAction
    BY <1>2, <2>1 DEF RunAction, TypeInv, TypeOK
  <2>2. CASE ~RunAction
    BY <2>2 DEF Reconcile, Look, Judge, CheckDependency, CheckHealth, NoteBlocked, NoteReady,
                BeginPass, LoopEnds, TypeInv, TypeOK
  <2> QED
    BY <2>1, <2>2
<1>7. UNCHANGED <<procs, desired, client, phase, stopping, ops, reached, stopped, writtenOff>>
  BY DEF Reconcile, RecStep, Look, Judge, CheckDependency, CheckHealth, NoteBlocked, NoteReady,
         RunAction, BeginPass, LoopEnds
<1> QED
  BY <1>4, <1>5, <1>6, <1>7 DEF TypeInv, TypeOK, RecType, procs

LEMMA ProgramType == ASSUME TypeInv, NEW p \in Programs, Moves(p) \/ Action(p) PROVE TypeInv'
<1>1. UNCHANGED <<desired, blockedReason, rec, client, phase, stopping, ops, stopped, writtenOff>>
  BY DEF Moves, ComesUp, HealthChanges, Exits, Retries, GivesUp, ProcStep, Action, ActionStarts,
         ActionStops, ActionStopped, ActionReturns
<1>2. /\ inflight' \in [Programs -> BOOLEAN]
      /\ action' \in [Programs -> {"none", "start", "stop", "stopping", "returning"}]
  BY DEF Moves, ComesUp, HealthChanges, Exits, Retries, GivesUp, ProcStep, Action, ActionStarts,
         ActionStops, ActionStopped, ActionReturns, Landed, TypeInv, TypeOK
<1>3. /\ state' \in [Programs -> States]
      /\ healthy' \in [Programs -> BOOLEAN] /\ completed' \in [Programs -> BOOLEAN]
  <2>1. CASE Moves(p)
    <3>1. CASE ComesUp(p) \/ GivesUp(p)
      BY <3>1 DEF ComesUp, GivesUp, TypeInv, TypeOK, States
    <3>2. CASE HealthChanges(p)
      BY <3>2 DEF HealthChanges, TypeInv, TypeOK
    <3>3. CASE Exits(p)
      BY <3>3 DEF Exits, TypeInv, TypeOK, States
    <3>4. CASE Retries(p)
      BY <3>4 DEF Retries, TypeInv, TypeOK, States
    <3> QED
      BY <2>1, <3>1, <3>2, <3>3, <3>4 DEF Moves
  <2>2. CASE ActionStarts(p)
    <3>1. CASE state[p] \in {"STARTING", "RUNNING"}
      <4>1. UNCHANGED <<state, healthy, completed>>
        BY <2>2, <3>1 DEF ActionStarts, procs
      <4> QED
        BY <4>1 DEF TypeInv, TypeOK
    <3>2. CASE state[p] \notin {"STARTING", "RUNNING"}
      <4>1. PICK s \in {"STARTING", "FATAL"} : state' = [state EXCEPT ![p] = s]
        BY <2>2, <3>2 DEF ActionStarts
      <4>2. /\ completed' = [completed EXCEPT ![p] = FALSE]
            /\ healthy' = [healthy EXCEPT ![p] = FALSE]
        BY <2>2, <3>2 DEF ActionStarts
      <4>3. /\ state \in [Programs -> States]
            /\ healthy \in [Programs -> BOOLEAN] /\ completed \in [Programs -> BOOLEAN]
        BY DEF TypeInv, TypeOK
      <4>4. state' \in [Programs -> States]
        BY <4>1, <4>3 DEF States
      <4> QED
        BY <4>2, <4>3, <4>4
    <3> QED
      BY <3>1, <3>2
  <2>3. CASE ActionStops(p)
    BY <2>3 DEF ActionStops, StopCalled, TypeInv, TypeOK, States
  <2>4. CASE ActionStopped(p)
    BY <2>4 DEF ActionStopped, StopReturns, TypeInv, TypeOK, States
  <2>5. CASE ActionReturns(p)
    BY <2>5 DEF ActionReturns, procs, TypeInv, TypeOK
  <2> QED
    BY <2>1, <2>2, <2>3, <2>4, <2>5 DEF Action
<1>4. reached' \subseteq Programs \X {"started", "healthy", "completed"}
  <2>1. CASE Moves(p)
    <3>1. Reached(p)
      BY <2>1 DEF Moves, ComesUp, HealthChanges, Exits, Retries, GivesUp, ProcStep
    <3> QED
      BY <3>1 DEF Reached, TypeInv, TypeOK
  <2>2. CASE Action(p)
    BY <2>2 DEF Action, ActionStarts, ActionStops, ActionStopped, ActionReturns, StopCalled,
                StopReturns, TypeInv, TypeOK
  <2> QED
    BY <2>1, <2>2
<1> QED
  BY <1>1, <1>2, <1>3, <1>4 DEF TypeInv, TypeOK, InRange, Current

RequestRecord == [pc : {"idle", "check", "recheck", "reset", "resetting", "want", "unwant",
                        "startwait", "stopwait"},
                  prog : Programs \cup {None}, again : BOOLEAN]
ClientType == [Clients -> [pc : {"idle", "check", "recheck", "reset", "resetting", "want",
                                 "unwant", "startwait", "stopwait"},
                           prog : Programs \cup {None}, again : BOOLEAN]]

\* A goroutine that serves a request has a program.
Serves == \A c \in Clients : client[c].pc # "idle" => client[c].prog \in Programs

LEMMA ClientGoes ==
    ASSUME client \in ClientType, Serves, NEW c \in Clients, client[c].pc # "idle",
           NEW at \in {"idle", "check", "recheck", "reset", "resetting", "want", "unwant",
                       "startwait", "stopwait"},
           Goes(c, at)
    PROVE  client' \in ClientType /\ Serves'
  BY DEF ClientType, Serves, Goes

LEMMA ClientAnswers ==
    ASSUME client \in ClientType, Serves, NEW c \in Clients, Answers(c)
    PROVE  client' \in ClientType /\ Serves'
<1>1. NoRequest \in [pc : {"idle", "check", "recheck", "reset", "resetting", "want",
                           "unwant", "startwait", "stopwait"},
                     prog : Programs \cup {None}, again : BOOLEAN] /\ NoRequest.pc = "idle"
  BY DEF NoRequest
<1> QED
  BY <1>1 DEF ClientType, Serves, Answers

\* What a call of Stop leaves of the types.
LEMMA StopType ==
    ASSUME TypeOK, NEW p \in Programs, StopCalled(p) \/ StopReturns(p)
    PROVE  /\ state' \in [Programs -> States]
           /\ healthy' \in [Programs -> BOOLEAN] /\ completed' \in [Programs -> BOOLEAN]
           /\ reached' = reached
<1>1. CASE StopCalled(p)
  BY <1>1 DEF StopCalled, TypeOK, States
<1>2. CASE StopReturns(p)
  <2>1. PICK s \in {"STOPPED"} \cup ({state[p]} \ {"STOPPING"}) : state' = [state EXCEPT ![p] = s]
    BY <1>2 DEF StopReturns
  <2>2. s \in States
    BY <2>1 DEF TypeOK, States
  <2> QED
    BY <1>2, <2>1, <2>2 DEF StopReturns, TypeOK
<1> QED
  BY <1>1, <1>2

LEMMA RequestType ==
    ASSUME TypeInv, Serves, NEW c \in Clients, Request(c) PROVE TypeInv' /\ Serves'
<1>1. client \in ClientType
  BY DEF TypeInv, TypeOK, ClientType
<1>2. PICK p \in Programs, r \in {"start", "stop", "restart"} :
         client' = [client EXCEPT ![c] = [pc |-> IF r = "start" THEN "check" ELSE "unwant",
                                          prog |-> p, again |-> r = "restart"]]
  BY DEF Request
<1>3. client' \in ClientType /\ Serves'
  BY <1>1, <1>2 DEF ClientType, Serves
<1>4. ops' \in 0 .. MaxOps
  BY SupervisorAssumption DEF Request, TypeInv, TypeOK
<1> QED
  BY <1>3, <1>4 DEF Request, procs, TypeInv, TypeOK, InRange, ClientType, Current

\* StopProcess done, a restart goes on as a start.
LEMMA AgainRecord ==
    ASSUME NEW r \in RequestRecord
    PROVE  LET n == [r EXCEPT !.pc = "check", !.again = FALSE]
           IN  n \in RequestRecord /\ n.prog = r.prog
  BY DEF RequestRecord

LEMMA ClientStepType ==
    ASSUME TypeInv, Serves, NEW c \in Clients, Client(c) PROVE TypeInv' /\ Serves'
<1> DEFINE p == client[c].prog
<1>1. client \in ClientType
  BY DEF TypeInv, TypeOK, ClientType
<1>2. client[c].pc # "idle" /\ p \in Programs
  BY DEF Client, AlreadyRunning, NotRunning, CheckAtRest, ResetProgram, ResetReturns, Want, Unwant,
         Started, CannotStart, Stopped, WaitEnds, Serving, Serves
<1>3. client' \in ClientType /\ Serves'
  <2>1. CASE Answers(c)
    BY <1>1, <2>1, ClientAnswers
  <2>2. CASE \E at \in {"recheck", "reset", "resetting", "want", "startwait", "stopwait"} : Goes(c, at)
    BY <1>1, <1>2, <2>2, ClientGoes
  <2>3. CASE client' = [client EXCEPT ![c].pc = "check", ![c].again = FALSE]
    <3>1. client' = [client EXCEPT ![c] = [client[c] EXCEPT !.pc = "check", !.again = FALSE]]
      BY <1>1, <2>3 DEF ClientType
    <3>2. client[c] \in RequestRecord
      BY <1>1 DEF ClientType, RequestRecord
    <3>3. PICK r \in RequestRecord : /\ r = [client[c] EXCEPT !.pc = "check", !.again = FALSE]
                                    /\ r.prog = client[c].prog
      BY <3>2, AgainRecord
    <3>4. client' = [client EXCEPT ![c] = r]
      BY <3>1, <3>3
    <3>5. client' \in ClientType
      BY <1>1, <3>3, <3>4 DEF ClientType, RequestRecord
    <3>6. \A b \in Clients : client'[b].prog = client[b].prog
      BY <1>1, <3>3, <3>4 DEF ClientType
    <3>7. \A b \in Clients : b # c => client'[b] = client[b]
      BY <1>1, <3>4 DEF ClientType
    <3> QED
      BY <1>2, <3>5, <3>6, <3>7 DEF Serves
  <2>4. CASE AlreadyRunning(c) \/ Started(c) \/ CannotStart(c) \/ WaitEnds(c)
    BY <2>1, <2>4 DEF AlreadyRunning, Started, CannotStart, WaitEnds
  <2>5. CASE NotRunning(c) \/ ResetReturns(c) \/ Want(c) \/ Unwant(c)
    BY <2>2, <2>5 DEF NotRunning, ResetReturns, Want, Unwant
  <2>6. CASE CheckAtRest(c) \/ ResetProgram(c)
    BY <2>2, <2>6 DEF CheckAtRest, ResetProgram
  <2>7. CASE Stopped(c)
    BY <2>1, <2>3, <2>7 DEF Stopped
  <2> QED
    BY <2>4, <2>5, <2>6, <2>7 DEF Client
<1>4. /\ state' \in [Programs -> States]
      /\ healthy' \in [Programs -> BOOLEAN] /\ completed' \in [Programs -> BOOLEAN]
      /\ reached' = reached
  <2>1. CASE StopCalled(p) \/ StopReturns(p)
    BY <1>2, <2>1, StopType DEF TypeInv
  <2>2. CASE UNCHANGED <<procs, reached>>
    BY <2>2 DEF procs, TypeInv, TypeOK
  <2> QED
    BY <2>1, <2>2
    DEF Client, AlreadyRunning, NotRunning, CheckAtRest, ResetProgram, ResetReturns, Want, Unwant,
        Started, CannotStart, Stopped, WaitEnds
<1>5. /\ desired' \in [Programs -> {"RUNNING", "STOPPED"}]
      /\ blockedReason' \in [Programs -> Programs \cup {None}]
      /\ stopped' \subseteq Programs /\ writtenOff' \subseteq Programs
  <2>1. CASE Want(c)
    BY <1>2, <2>1 DEF Want, TypeInv, TypeOK
  <2>2. CASE Unwant(c)
    BY <1>2, <2>2 DEF Unwant, Forget, TypeInv, TypeOK
  <2>3. CASE Stopped(c)
    BY <1>2, <2>3 DEF Stopped, TypeInv, TypeOK
  <2>4. CASE CannotStart(c)
    BY <1>2, <2>4 DEF CannotStart, TypeInv, TypeOK
  <2>5. CASE AlreadyRunning(c) \/ NotRunning(c) \/ CheckAtRest(c) \/ ResetProgram(c) \/ ResetReturns(c)
             \/ Started(c) \/ WaitEnds(c)
    BY <2>5 DEF AlreadyRunning, NotRunning, CheckAtRest, ResetProgram, ResetReturns, Started,
                WaitEnds, TypeInv, TypeOK
  <2> QED
    BY <2>1, <2>2, <2>3, <2>4, <2>5 DEF Client
<1>6. UNCHANGED <<inflight, action, rec, phase, stopping, ops>>
  BY DEF Client, AlreadyRunning, NotRunning, CheckAtRest, ResetProgram, ResetReturns, Want, Unwant,
         Started, CannotStart, Stopped, WaitEnds, ClientStep
<1> QED
  BY <1>3, <1>4, <1>5, <1>6 DEF TypeInv, TypeOK, InRange, ClientType, Current

LEMMA ShutdownType ==
    ASSUME TypeInv, BeginShutdown \/ Shutdown PROVE TypeInv'
<1>1. UNCHANGED <<desired, inflight, blockedReason, action, rec, client, ops, stopped, writtenOff>>
  BY DEF BeginShutdown, Shutdown, Quiesced, DaemonExits, StopProgram, ProgramStopped, ShutdownStep
<1>2. phase' \in {"up", "closing", "tiers", "exited"}
  BY DEF BeginShutdown, Shutdown, Quiesced, DaemonExits, StopProgram, ProgramStopped, TypeInv, TypeOK
<1>3. /\ state' \in [Programs -> States]
      /\ healthy' \in [Programs -> BOOLEAN] /\ completed' \in [Programs -> BOOLEAN]
      /\ reached' = reached
      /\ stopping' \in [Programs -> {"no", "stop", "stopping", "done"}]
  <2>1. CASE \E p \in Programs : StopProgram(p) \/ ProgramStopped(p)
    <3>1. PICK p \in Programs : StopProgram(p) \/ ProgramStopped(p)
      BY <2>1
    <3>2. StopCalled(p) \/ StopReturns(p)
      BY <3>1 DEF StopProgram, ProgramStopped
    <3>3. stopping' \in [Programs -> {"no", "stop", "stopping", "done"}]
      BY <3>1 DEF StopProgram, ProgramStopped, TypeInv, TypeOK
    <3> QED
      BY <3>2, <3>3, StopType DEF TypeInv
  <2>2. CASE BeginShutdown \/ Quiesced \/ DaemonExits
    BY <2>2 DEF BeginShutdown, Quiesced, DaemonExits, procs, TypeInv, TypeOK
  <2> QED
    BY <2>1, <2>2 DEF Shutdown
<1> QED
  BY <1>1, <1>2, <1>3 DEF TypeInv, TypeOK, InRange, Current

\* Everything that may happen, in the groups the proofs go by.
LEMMA NextCases ==
    ASSUME Next
    PROVE  \/ \E p \in Programs : Moves(p) \/ Action(p)
           \/ Reconcile
           \/ \E c \in Clients : Request(c) \/ Client(c)
           \/ BeginShutdown \/ Shutdown
           \/ UNCHANGED vars
  BY DEF Next, Moves, Exited

Types == TypeInv /\ Serves

LEMMA TypesInit == Init => Types
<1>1. Init => Serves
  BY DEF Init, Serves, NoRequest
<1> QED
  BY <1>1, TypeInit DEF Types

LEMMA TypesStep == Types /\ [Next]_vars => Types'
<1> SUFFICES ASSUME Types, [Next]_vars PROVE Types'
  OBVIOUS
<1>1. ASSUME NEW p \in Programs, Moves(p) \/ Action(p) PROVE Types'
  <2>1. client' = client
    BY <1>1 DEF Moves, ComesUp, HealthChanges, Exits, Retries, GivesUp, ProcStep, Action,
                ActionStarts, ActionStops, ActionStopped, ActionReturns
  <2> QED
    BY <1>1, <2>1, ProgramType DEF Types, Serves
<1>2. CASE Reconcile
  <2>1. client' = client
    BY <1>2 DEF Reconcile, RecStep, Look, Judge, CheckDependency, CheckHealth, NoteBlocked,
                NoteReady, RunAction, BeginPass, LoopEnds
  <2> QED
    BY <1>2, <2>1, ReconcileType DEF Types, Serves
<1>3. ASSUME NEW c \in Clients, Request(c) \/ Client(c) PROVE Types'
  BY <1>3, RequestType, ClientStepType DEF Types
<1>4. CASE BeginShutdown \/ Shutdown
  <2>1. client' = client
    BY <1>4 DEF BeginShutdown, Shutdown, Quiesced, DaemonExits, StopProgram, ProgramStopped,
                ShutdownStep
  <2> QED
    BY <1>4, <2>1, ShutdownType DEF Types, Serves
<1>5. CASE UNCHANGED vars
  BY <1>5 DEF vars, Types, TypeInv, TypeOK, InRange, Serves, Current
<1> QED
  BY <1>1, <1>2, <1>3, <1>4, <1>5, NextCases

\* What every variable of the server holds, whatever programs, clients and a
\* shutdown do.
THEOREM SupervisorTypeOK == Spec => []TypeOK
<1>1. Types => TypeOK
  BY DEF Types, TypeInv
<1> QED
  BY <1>1, TypesInit, TypesStep, PTL DEF Spec

-----------------------------------------------------------------------------
(* inflight: one action for each program. *)

\* The programs a pass has found not in flight and has not let go of.
Working == rec.pc \in {"judge", "dep", "health", "blocked", "ready", "run"}

\* An action goroutine has its mark, and the reconciler, which alone sets marks,
\* deals with a program that had none when it looked.
Quiet ==
    /\ \A p \in Programs : action[p] # "none" => inflight[p]
    /\ Working => ~inflight[Current]

LEMMA ReconcileKeeps ==
    ASSUME Reconcile
    PROVE  /\ UNCHANGED <<procs, desired, client, phase, stopping, ops, reached, stopped, writtenOff>>
           /\ ~RunAction => UNCHANGED <<inflight, action>>
  BY DEF Reconcile, RecStep, Look, Judge, CheckDependency, CheckHealth, NoteBlocked, NoteReady,
         RunAction, BeginPass, LoopEnds

LEMMA ActionKeeps ==
    ASSUME TypeInv, NEW p \in Programs, Moves(p) \/ Action(p)
    PROVE  /\ UNCHANGED <<rec, client, phase, stopping>>
           /\ \/ UNCHANGED <<action, inflight>>
              \/ /\ action[p] \in {"start", "stop", "stopping"} /\ inflight' = inflight
                 /\ \E a \in {"stopping", "returning"} : action' = [action EXCEPT ![p] = a]
              \/ /\ action[p] = "returning" /\ action' = [action EXCEPT ![p] = "none"]
                 /\ inflight' = [inflight EXCEPT ![p] = FALSE]
<1>1. CASE Moves(p)
  BY <1>1 DEF Moves, ComesUp, HealthChanges, Exits, Retries, GivesUp, ProcStep
<1>2. CASE ActionStarts(p) \/ ActionStops(p) \/ ActionStopped(p)
  BY <1>2 DEF ActionStarts, ActionStops, ActionStopped
<1>3. CASE ActionReturns(p)
  BY <1>3 DEF ActionReturns, Landed
<1> QED
  BY <1>1, <1>2, <1>3 DEF Action

LEMMA OthersKeep ==
    ASSUME \/ \E c \in Clients : Request(c) \/ Client(c)
           \/ BeginShutdown \/ Shutdown
           \/ UNCHANGED vars
    PROVE  UNCHANGED <<action, inflight, rec>>
<1>1. ASSUME NEW c \in Clients, Request(c) \/ Client(c) PROVE UNCHANGED <<action, inflight, rec>>
  BY <1>1 DEF Request, Client, AlreadyRunning, NotRunning, CheckAtRest, ResetProgram, ResetReturns,
              Want, Unwant, Started, CannotStart, Stopped, WaitEnds, ClientStep
<1>2. ASSUME BeginShutdown \/ Shutdown PROVE UNCHANGED <<action, inflight, rec>>
  BY <1>2 DEF BeginShutdown, Shutdown, Quiesced, DaemonExits, StopProgram, ProgramStopped,
              ShutdownStep
<1> QED
  BY <1>1, <1>2 DEF vars

LEMMA QuietStep == Types /\ Quiet /\ [Next]_vars => Quiet'
<1> SUFFICES ASSUME Types, Quiet, [Next]_vars PROVE Quiet'
  OBVIOUS
<1> USE DEF Types
<1>1. ASSUME NEW p \in Programs, Moves(p) \/ Action(p) PROVE Quiet'
  <2>1. rec' = rec
    BY <1>1, ActionKeeps
  <2>2. rec \in RecType
    BY DEF TypeInv, TypeOK, RecType
  <2>3. Current \in Programs /\ Current' = Current
    BY <2>1, <2>2, CurrentIsProgram DEF Current
  <2>4. CASE UNCHANGED <<action, inflight>>
    BY <2>1, <2>3, <2>4 DEF Quiet, Working
  <2>5. CASE /\ action[p] \in {"start", "stop", "stopping"} /\ inflight' = inflight
             /\ \E a \in {"stopping", "returning"} : action' = [action EXCEPT ![p] = a]
    BY <2>1, <2>3, <2>5 DEF Quiet, Working, TypeInv, TypeOK
  <2>6. CASE /\ action[p] = "returning" /\ action' = [action EXCEPT ![p] = "none"]
             /\ inflight' = [inflight EXCEPT ![p] = FALSE]
    BY <2>1, <2>3, <2>6 DEF Quiet, Working, TypeInv, TypeOK
  <2> QED
    BY <1>1, <2>4, <2>5, <2>6, ActionKeeps
<1>2. CASE Reconcile
  <2>1. rec \in RecType
    BY DEF TypeInv, TypeOK, RecType
  <2>2. Current \in Programs /\ NextProgram.pc \in {"select", "look"}
    BY <2>1, CurrentIsProgram, NextProgramType
  <2>3. CASE RunAction
    <3>1. ~Working'
      BY <2>2, <2>3 DEF RunAction, Working
    <3>2. \A p \in Programs : action'[p] # "none" => inflight'[p]
      BY <2>2, <2>3 DEF RunAction, Quiet, TypeInv, TypeOK
    <3> QED
      BY <3>1, <3>2 DEF Quiet
  <2>4. CASE ~RunAction
    <3>1. UNCHANGED <<action, inflight>>
      BY <1>2, <2>4, ReconcileKeeps
    <3>2. CASE Look
      BY <2>1, <2>2, <3>1, <3>2 DEF Look, Skips, Quiet, Working, Current, RecType
    <3>3. CASE NoteBlocked
      BY <2>2, <3>1, <3>3 DEF NoteBlocked, Quiet, Working
    <3>4. CASE BeginPass \/ LoopEnds
      BY <2>1, <3>1, <3>4 DEF BeginPass, LoopEnds, Quiet, Working, RecType
    <3>5. CASE Judge \/ CheckDependency \/ CheckHealth \/ NoteReady
      <4>1. Working
        BY <3>5 DEF Judge, CheckDependency, CheckHealth, NoteReady, RecStep, Working
      <4>2. rec'.i = rec.i \/ rec' = NextProgram
        <5>1. CASE Judge
          <6>1. \/ rec' = [rec EXCEPT !.pc = "dep", !.d = 1]
                \/ rec' = [rec EXCEPT !.pc = "run"]
                \/ rec' = NextProgram
            BY <5>1, JudgeSets
          <6> QED
            BY <2>1, <6>1 DEF RecType
        <5>2. CASE CheckDependency \/ CheckHealth \/ NoteReady
          BY <2>1, <5>2 DEF CheckDependency, CheckHealth, NoteReady, RecType
        <5> QED
          BY <3>5, <5>1, <5>2
      <4> QED
        BY <2>2, <3>1, <4>1, <4>2 DEF Quiet, Working, Current
    <3> QED
      BY <1>2, <2>4, <3>2, <3>3, <3>4, <3>5 DEF Reconcile
  <2> QED
    BY <2>3, <2>4
<1>3. CASE ~Reconcile /\ \A p \in Programs : ~(Moves(p) \/ Action(p))
  <2>1. UNCHANGED <<action, inflight, rec>>
    BY <1>3, NextCases, OthersKeep DEF vars
  <2> QED
    BY <2>1 DEF Quiet, Working, Current
<1> QED
  BY <1>1, <1>2, <1>3

LEMMA QuietHolds == Spec => []Quiet
<1>1. Init => Quiet
  BY DEF Init, Quiet, Working
<1> QED
  BY <1>1, QuietStep, TypesInit, TypesStep, PTL DEF Spec

\* The reconciler never launches an action of a program whose last one has not
\* returned: reconcile and runAction, for any programs and interleaving.
THEOREM SupervisorActionsDoNotOverlap == Spec => ActionsDoNotOverlap
<1> DEFINE A == \A p \in Programs :
                    action[p] # "none" => action'[p] \notin {"start", "stop"} \ {action[p]}
<1>1. Types /\ Quiet /\ [Next]_vars => A
  <2> SUFFICES ASSUME Types, Quiet, [Next]_vars, NEW p \in Programs, action[p] # "none"
               PROVE  action'[p] \notin {"start", "stop"} \ {action[p]}
    OBVIOUS
  <2> USE DEF Types
  <2>1. ASSUME NEW q \in Programs, Moves(q) \/ Action(q)
        PROVE  action'[p] \notin {"start", "stop"} \ {action[p]}
    BY <2>1, ActionKeeps DEF TypeInv, TypeOK
  <2>2. CASE RunAction
    <3>1. rec \in RecType /\ Working
      BY <2>2 DEF RunAction, RecStep, Working, TypeInv, TypeOK, RecType
    <3>2. Current \in Programs /\ p # Current
      BY <3>1, CurrentIsProgram DEF Quiet
    <3> QED
      BY <2>2, <3>2 DEF RunAction, TypeInv, TypeOK
  <2>3. CASE Reconcile /\ ~RunAction
    BY <2>3, ReconcileKeeps
  <2>4. CASE ~Reconcile /\ \A q \in Programs : ~(Moves(q) \/ Action(q))
    BY <2>4, NextCases, OthersKeep DEF vars
  <2> QED
    BY <2>1, <2>2, <2>3, <2>4 DEF Reconcile
<1>2. Spec => [][A]_vars
  BY <1>1, QuietHolds, TypesInit, TypesStep, PTL DEF Spec
<1> QED
  BY <1>2 DEF ActionsDoNotOverlap

-----------------------------------------------------------------------------
(* What a step does to the states, the conditions and their record. *)

\* The record of conditions is complete.
Recorded ==
    \A p \in Programs :
        /\ state[p] = "RUNNING" => <<p, "started">> \in reached
        /\ healthy[p] => <<p, "healthy">> \in reached
        /\ completed[p] => <<p, "completed">> \in reached

\* Stop ends a program, an action starts one, and what is up goes on by itself.
StateMoves ==
    \A p \in Programs :
        \/ state'[p] = state[p]
        \/ state'[p] = "STOPPED"
        \/ state'[p] = "STOPPING" /\ ~IsStopped(state[p])
        \/ action[p] = "start" /\ state'[p] \in {"STARTING", "FATAL"}
        \/ /\ state[p] \in {"STARTING", "RUNNING", "EXITED"}
           /\ state'[p] \in {"STARTING", "RUNNING", "EXITED", "FATAL"}

Keeps == StateMoves /\ Recorded' /\ reached \subseteq reached'

LEMMA SameKeeps == ASSUME Recorded, UNCHANGED <<procs, reached>> PROVE Keeps
  BY DEF Keeps, StateMoves, Recorded, procs

LEMMA StopKeeps ==
    ASSUME TypeOK, Recorded, NEW p \in Programs, StopCalled(p) \/ StopReturns(p) PROVE Keeps
<1>1. CASE StopCalled(p)
  <2>1. StateMoves
    BY <1>1 DEF StopCalled, StateMoves, TypeOK
  <2>2. Recorded'
    BY <1>1 DEF StopCalled, Recorded, IsStopped, TypeOK
  <2> QED
    BY <1>1, <2>1, <2>2 DEF StopCalled, Keeps
<1>2. CASE StopReturns(p)
  <2>1. PICK s \in {"STOPPED"} \cup ({state[p]} \ {"STOPPING"}) : state' = [state EXCEPT ![p] = s]
    BY <1>2 DEF StopReturns
  <2>2. \A q \in Programs : state'[q] = state[q] \/ state'[q] = "STOPPED"
    BY <2>1 DEF TypeOK
  <2>3. UNCHANGED <<healthy, completed, reached>>
    BY <1>2 DEF StopReturns
  <2> QED
    BY <2>2, <2>3 DEF Keeps, StateMoves, Recorded
<1> QED
  BY <1>1, <1>2

LEMMA MovesKeep == ASSUME TypeOK, Recorded, NEW p \in Programs, Moves(p) PROVE Keeps
<1>1. Reached(p)
  BY DEF Moves, ComesUp, HealthChanges, Exits, Retries, GivesUp, ProcStep
<1>2. reached \subseteq reached'
  BY <1>1 DEF Reached
<1>3. /\ state'[p] = "RUNNING" => <<p, "started">> \in reached'
      /\ healthy'[p] => <<p, "healthy">> \in reached'
      /\ completed'[p] => <<p, "completed">> \in reached'
  BY <1>1 DEF Reached
<1>4. \A q \in Programs \ {p} : /\ state'[q] = state[q]
                                /\ healthy'[q] = healthy[q] /\ completed'[q] = completed[q]
  <2>1. CASE ComesUp(p) \/ GivesUp(p)
    BY <2>1 DEF ComesUp, GivesUp, TypeOK
  <2>2. CASE HealthChanges(p)
    BY <2>2 DEF HealthChanges, TypeOK
  <2>3. CASE Exits(p)
    BY <2>3 DEF Exits, TypeOK
  <2>4. CASE Retries(p)
    BY <2>4 DEF Retries, TypeOK
  <2> QED
    BY <2>1, <2>2, <2>3, <2>4 DEF Moves
<1>5. \/ state'[p] = state[p]
      \/ /\ state[p] \in {"STARTING", "RUNNING", "EXITED"}
         /\ state'[p] \in {"STARTING", "RUNNING", "EXITED", "FATAL"}
  BY DEF Moves, ComesUp, HealthChanges, Exits, Retries, GivesUp, TypeOK
<1>6. StateMoves
  BY <1>4, <1>5 DEF StateMoves
<1>7. Recorded'
  BY <1>2, <1>3, <1>4 DEF Recorded
<1> QED
  BY <1>2, <1>6, <1>7 DEF Keeps

LEMMA ActionKeepsRecord == ASSUME TypeOK, Recorded, NEW p \in Programs, Action(p) PROVE Keeps
<1>1. CASE ActionStarts(p) /\ ~UNCHANGED procs
  <2>1. PICK s \in {"STARTING", "FATAL"} : state' = [state EXCEPT ![p] = s]
    BY <1>1 DEF ActionStarts
  <2>2. /\ action[p] = "start" /\ reached' = reached
        /\ completed' = [completed EXCEPT ![p] = FALSE] /\ healthy' = [healthy EXCEPT ![p] = FALSE]
    BY <1>1 DEF ActionStarts
  <2>3. StateMoves
    BY <2>1, <2>2 DEF StateMoves, TypeOK
  <2>4. Recorded'
    BY <2>1, <2>2 DEF Recorded, TypeOK
  <2> QED
    BY <2>2, <2>3, <2>4 DEF Keeps
<1>2. CASE ActionStarts(p) /\ UNCHANGED procs
  <2>1. reached' = reached
    BY <1>2 DEF ActionStarts
  <2> QED
    BY <1>2, <2>1, SameKeeps
<1>3. CASE ActionStops(p) \/ ActionStopped(p)
  BY <1>3, StopKeeps DEF ActionStops, ActionStopped
<1>4. CASE ActionReturns(p)
  BY <1>4, SameKeeps DEF ActionReturns
<1> QED
  BY <1>1, <1>2, <1>3, <1>4 DEF Action

LEMMA ClientKeepsRecord ==
    ASSUME Types, Recorded, NEW c \in Clients, Request(c) \/ Client(c) PROVE Keeps
<1>1. CASE UNCHANGED <<procs, reached>>
  BY <1>1, SameKeeps
<1>2. CASE ResetProgram(c) \/ ResetReturns(c)
  <2>1. client[c].prog \in Programs
    BY <1>2 DEF ResetProgram, ResetReturns, Serving, Types, Serves
  <2> QED
    BY <1>2, <2>1, StopKeeps DEF ResetProgram, ResetReturns, Types, TypeInv
<1> QED
  BY <1>1, <1>2 DEF Request, Client, AlreadyRunning, NotRunning, CheckAtRest, Want, Unwant, Started,
                    CannotStart, Stopped, WaitEnds

LEMMA ShutdownKeepsRecord ==
    ASSUME TypeOK, Recorded, BeginShutdown \/ Shutdown PROVE Keeps
<1>1. CASE BeginShutdown \/ Quiesced \/ DaemonExits
  BY <1>1, SameKeeps DEF BeginShutdown, Quiesced, DaemonExits
<1>2. ASSUME NEW p \in Programs, StopProgram(p) \/ ProgramStopped(p) PROVE Keeps
  BY <1>2, StopKeeps DEF StopProgram, ProgramStopped
<1> QED
  BY <1>1, <1>2 DEF Shutdown

LEMMA NextKeeps == Types /\ Recorded /\ [Next]_vars => Keeps
<1> SUFFICES ASSUME Types, Recorded, [Next]_vars PROVE Keeps
  OBVIOUS
<1>1. TypeOK
  BY DEF Types, TypeInv
<1>2. ASSUME NEW p \in Programs, Moves(p) \/ Action(p) PROVE Keeps
  BY <1>1, <1>2, MovesKeep, ActionKeepsRecord
<1>3. CASE Reconcile
  BY <1>3, ReconcileKeeps, SameKeeps
<1>4. ASSUME NEW c \in Clients, Request(c) \/ Client(c) PROVE Keeps
  BY <1>4, ClientKeepsRecord
<1>5. CASE BeginShutdown \/ Shutdown
  BY <1>1, <1>5, ShutdownKeepsRecord
<1>6. CASE UNCHANGED vars
  BY <1>6, SameKeeps DEF vars, procs
<1> QED
  BY <1>2, <1>3, <1>4, <1>5, <1>6, NextCases

LEMMA RecordHolds == Spec => [](Types /\ Recorded)
<1>1. Init => Recorded
  BY DEF Init, Recorded
<1>2. Types /\ Recorded /\ [Next]_vars => Recorded'
  BY NextKeeps DEF Keeps
<1> QED
  BY <1>1, <1>2, TypesInit, TypesStep, PTL DEF Spec

-----------------------------------------------------------------------------
(* The shutdown. *)

\* When the programs are being stopped, the reconciler has ended and no action is
\* left; a program the shutdown deals with is on its way down, or down for good.
Phases ==
    /\ phase \in {"tiers", "exited"} => rec.pc = "done" /\ ActionsDone
    /\ \A p \in Programs :
        /\ stopping[p] # "no" => phase \in {"tiers", "exited"}
        /\ stopping[p] = "stopping" => state[p] \in {"STOPPING", "STOPPED"}
        /\ stopping[p] = "done" => state[p] = "STOPPED"

\* A program is left alone until what depends on it has been stopped.
Ordered ==
    \A p, q \in Programs :
        stopping[p] # "no" /\ (\E d \in Dependency(q) : d.on = p) => stopping[q] = "done"

\* What has been stopped is not dealt with again.
StoppingMoves ==
    \A p \in Programs :
        \/ stopping'[p] = stopping[p]
        \/ /\ phase = "tiers" /\ phase' = "tiers" /\ stopping[p] = "no" /\ TierMayStop(p)
           /\ \/ stopping'[p] = "done" /\ state'[p] = "STOPPED"
              \/ stopping'[p] = "stopping" /\ state'[p] = "STOPPING"
        \/ /\ phase = "tiers" /\ phase' = "tiers"
           /\ stopping[p] = "stopping" /\ stopping'[p] = "done"
           /\ state'[p] = "STOPPED" \/ state'[p] \in {state[p]} \ {"STOPPING"}

LEMMA NextStopping ==
    Types /\ [Next]_vars =>
        /\ StoppingMoves
        /\ phase' = phase \/ stopping' = stopping
<1> SUFFICES ASSUME Types, [Next]_vars
             PROVE  StoppingMoves /\ (phase' = phase \/ stopping' = stopping)
  OBVIOUS
<1>1. ASSUME NEW p \in Programs, StopProgram(p) PROVE StoppingMoves /\ phase' = phase
  <2>1. /\ stopping' = [stopping EXCEPT ![p] = IF IsStopped(state[p]) THEN "done" ELSE "stopping"]
        /\ state' = [state EXCEPT ![p] = IF IsStopped(@) THEN "STOPPED" ELSE "STOPPING"]
        /\ phase = "tiers" /\ phase' = phase /\ stopping[p] = "no" /\ TierMayStop(p)
    BY <1>1 DEF StopProgram, StopCalled
  <2> QED
    BY <2>1 DEF StoppingMoves, Types, TypeInv, TypeOK
<1>2. ASSUME NEW p \in Programs, ProgramStopped(p) PROVE StoppingMoves /\ phase' = phase
  <2>1. PICK s \in {"STOPPED"} \cup ({state[p]} \ {"STOPPING"}) : state' = [state EXCEPT ![p] = s]
    BY <1>2 DEF ProgramStopped, StopReturns
  <2>2. /\ stopping' = [stopping EXCEPT ![p] = "done"]
        /\ phase = "tiers" /\ phase' = phase /\ stopping[p] = "stopping"
    BY <1>2 DEF ProgramStopped
  <2> QED
    BY <2>1, <2>2 DEF StoppingMoves, Types, TypeInv, TypeOK
<1>3. CASE stopping' = stopping
  BY <1>3 DEF StoppingMoves
<1>4. CASE BeginShutdown \/ Quiesced \/ DaemonExits
  BY <1>3, <1>4 DEF BeginShutdown, Quiesced, DaemonExits
<1>5. ASSUME NEW p \in Programs, Moves(p) \/ Action(p) PROVE stopping' = stopping
  BY <1>5, ActionKeeps DEF Types
<1>6. CASE Reconcile
  BY <1>3, <1>6, ReconcileKeeps
<1>7. ASSUME NEW c \in Clients, Request(c) \/ Client(c) PROVE stopping' = stopping
  BY <1>7 DEF Request, Client, AlreadyRunning, NotRunning, CheckAtRest, ResetProgram, ResetReturns,
              Want, Unwant, Started, CannotStart, Stopped, WaitEnds, ClientStep
<1> QED
  BY <1>1, <1>2, <1>3, <1>4, <1>5, <1>6, <1>7, NextCases DEF Shutdown, vars

\* Behind the reconciler's end nothing gets it, or an action, going again.
LEMMA NextQuiet ==
    Types /\ [Next]_vars /\ rec.pc = "done" /\ ActionsDone => (rec.pc = "done" /\ ActionsDone)'
<1> SUFFICES ASSUME Types, [Next]_vars, rec.pc = "done", ActionsDone
             PROVE  rec'.pc = "done" /\ ActionsDone'
  OBVIOUS
<1>1. ASSUME NEW p \in Programs, Moves(p) \/ Action(p) PROVE rec'.pc = "done" /\ ActionsDone'
  BY <1>1, ActionKeeps DEF ActionsDone, Types
<1>2. ~Reconcile
  BY DEF Reconcile, RecStep, Look, Judge, CheckDependency, CheckHealth, NoteBlocked, NoteReady,
         RunAction, BeginPass, LoopEnds
<1>3. CASE UNCHANGED <<action, rec>>
  BY <1>3 DEF ActionsDone
<1> QED
  BY <1>1, <1>2, <1>3, NextCases, OthersKeep DEF vars

LEMMA NextPhase ==
    [Next]_vars => \/ phase' = phase
                   \/ phase = "up" /\ phase' = "closing"
                   \/ phase = "closing" /\ phase' = "tiers" /\ rec.pc = "done" /\ ActionsDone
                   \/ phase = "tiers" /\ phase' = "exited"
  BY DEF Next, Reconcile, Shutdown, Exited, vars, BeginShutdown, Quiesced, DaemonExits, StopProgram,
         ProgramStopped, Request, Client, AlreadyRunning, NotRunning, CheckAtRest, ResetProgram,
         ResetReturns, Want, Unwant, Started, CannotStart, Stopped, WaitEnds, ClientStep, RecStep,
         Look, Judge, CheckDependency, CheckHealth, NoteBlocked, NoteReady, RunAction, BeginPass,
         LoopEnds, ComesUp, HealthChanges, Exits, Retries, GivesUp, ProcStep, Action, ActionStarts,
         ActionStops, ActionStopped, ActionReturns

LEMMA PhasesStep == Types /\ Recorded /\ Phases /\ [Next]_vars => Phases'
<1> SUFFICES ASSUME Types, Recorded, Phases, [Next]_vars PROVE Phases'
  OBVIOUS
<1>1. phase' \in {"tiers", "exited"} => rec'.pc = "done" /\ ActionsDone'
  BY NextPhase, NextQuiet DEF Phases
<1>2. ASSUME NEW p \in Programs
      PROVE  /\ stopping'[p] # "no" => phase' \in {"tiers", "exited"}
             /\ stopping'[p] = "stopping" => state'[p] \in {"STOPPING", "STOPPED"}
             /\ stopping'[p] = "done" => state'[p] = "STOPPED"
  <2>1. \/ state'[p] = state[p]
        \/ state'[p] = "STOPPED"
        \/ state'[p] = "STOPPING" /\ ~IsStopped(state[p])
        \/ action[p] = "start" /\ state'[p] \in {"STARTING", "FATAL"}
        \/ /\ state[p] \in {"STARTING", "RUNNING", "EXITED"}
           /\ state'[p] \in {"STARTING", "RUNNING", "EXITED", "FATAL"}
    BY NextKeeps DEF Keeps, StateMoves
  <2>2. CASE stopping'[p] = stopping[p] /\ stopping[p] # "no"
    <3>1. phase \in {"tiers", "exited"} /\ action[p] = "none"
      BY <2>2 DEF Phases, ActionsDone
    <3>2. phase' \in {"tiers", "exited"}
      BY <3>1, NextPhase
    <3> QED
      BY <2>1, <2>2, <3>1, <3>2 DEF Phases, IsStopped
  <2>3. CASE stopping'[p] = stopping[p] /\ stopping[p] = "no"
    BY <2>3
  <2>4. CASE stopping'[p] # stopping[p]
    BY <2>4, NextStopping DEF StoppingMoves, Phases
  <2> QED
    BY <2>2, <2>3, <2>4
<1> QED
  BY <1>1, <1>2 DEF Phases

LEMMA PhasesHold == Spec => []Phases
<1>1. Init => Phases
  BY DEF Init, Phases
<1> QED
  BY <1>1, PhasesStep, RecordHolds, PTL DEF Spec

\* Server.Stop: when the programs are stopped, no action the reconciler began is
\* left, and one that is stopped is not brought back up by anything, a client's
\* request or a restart that was pending included.
THEOREM SupervisorNothingStartsInShutdown == Spec => []NothingStartsInShutdown
<1>1. Phases => NothingStartsInShutdown
  BY DEF Phases, ActionsDone, NothingStartsInShutdown
<1> QED
  BY <1>1, PhasesHold, PTL

LEMMA OrderedStep == Types /\ Ordered /\ [Next]_vars => Ordered'
<1> SUFFICES ASSUME Types, Ordered, [Next]_vars, NEW p \in Programs, NEW q \in Programs,
                    stopping'[p] # "no", NEW d \in Dependency(q), d.on = p
             PROVE  stopping'[q] = "done"
  BY DEF Ordered, Dependency
<1>1. Tier[p] < Tier[q] /\ Tier[p] \in Nat /\ Tier[q] \in Nat
  BY SupervisorAssumption
<1>2. stopping[q] = "done"
  <2>1. CASE stopping[p] # "no"
    BY <2>1 DEF Ordered
  <2>2. CASE stopping[p] = "no"
    BY <1>1, <2>2, NextStopping DEF StoppingMoves, TierMayStop
  <2> QED
    BY <2>1, <2>2
<1> QED
  BY <1>2, NextStopping DEF StoppingMoves

\* stopAllProcesses: when a program is stopped, whatever depends on it has been
\* stopped and stays so, for any graph and any tiers that follow it.
THEOREM SupervisorShutdownOrder == Spec => []ShutdownOrder
<1>1. Init => Ordered
  BY DEF Init, Ordered
<1>2. Phases /\ Ordered => ShutdownOrder
  BY DEF Phases, Ordered, ShutdownOrder
<1> QED
  BY <1>1, <1>2, OrderedStep, PhasesHold, TypesInit, TypesStep, PTL DEF Spec

-----------------------------------------------------------------------------
(* Dependencies. *)

\* The condition of a dependency has held.
Came(d) ==
    /\ <<d.on, d.cond>> \in reached
    /\ d.cond = "healthy" => <<d.on, "started">> \in reached

AllCame(p) == \A d \in Dependency(p) : Came(d)

\* What the pass has checked has held, and so has everything a program needs
\* that is being started or is up.
Checked ==
    /\ rec.pc \in {"dep", "health"} =>
          \A i \in DOMAIN DependsOn[Current] : i < rec.d => Came(DependsOn[Current][i])
    /\ rec.pc = "health" => Dep.cond = "healthy" /\ <<Dep.on, "started">> \in reached
    /\ rec.pc = "ready" \/ (rec.pc = "run" /\ rec.want = "RUNNING") => AllCame(Current)

Needed ==
    \A p \in Programs :
        action[p] = "start" \/ state[p] \in {"STARTING", "RUNNING", "EXITED"} => AllCame(p)

LEMMA CameKeeps == ASSUME reached \subseteq reached', NEW d, Came(d) PROVE Came(d)'
  BY DEF Came

LEMMA CheckedStep == Types /\ Recorded /\ Checked /\ [Next]_vars => Checked'
<1> SUFFICES ASSUME Types, Recorded, Checked, [Next]_vars PROVE Checked'
  OBVIOUS
<1>1. reached \subseteq reached'
  BY NextKeeps DEF Keeps
<1>2. rec \in RecType
  BY DEF Types, TypeInv, TypeOK, RecType
<1>3. Current \in Programs /\ NextProgram.pc \in {"select", "look"}
  BY <1>2, CurrentIsProgram, NextProgramType
<1>4. CASE rec' = rec
  <2>1. Current' = Current /\ (Dep.on)' = Dep.on /\ (Dep.cond)' = Dep.cond
    BY <1>4 DEF Current, Dep
  <2> QED
    BY <1>1, <1>4, <2>1 DEF Checked, AllCame, Came
<1>5. CASE Look \/ NoteBlocked \/ RunAction \/ BeginPass \/ LoopEnds
  <2>1. rec'.pc \in {"select", "look", "judge", "done"}
    BY <1>2, <1>3, <1>5 DEF Look, NoteBlocked, RunAction, BeginPass, LoopEnds, RecType
  <2> QED
    BY <2>1 DEF Checked
<1>6. CASE Judge
  <2>1. CASE rec.want = "RUNNING" /\ rec' = [rec EXCEPT !.pc = "dep", !.d = 1]
    <3>1. rec' = [pc |-> "dep", i |-> rec.i, want |-> rec.want, d |-> 1] /\ Current' = Current
      BY <1>2, <2>1 DEF RecType, Current
    <3>2. \A i \in DOMAIN DependsOn[Current] : ~(i < 1)
      BY <1>3, SupervisorAssumption
    <3> QED
      BY <3>1, <3>2 DEF Checked
  <2>2. CASE rec.want = "STOPPED" /\ rec' = [rec EXCEPT !.pc = "run"]
    BY <1>2, <2>2 DEF Checked, RecType
  <2>3. CASE rec' = NextProgram
    BY <1>3, <2>3 DEF Checked
  <2> QED
    BY <1>6, <2>1, <2>2, <2>3, JudgeSets
<1>7. CASE CheckDependency
  <2> DEFINE n == Len(DependsOn[Current])
  <2>1. /\ rec.pc = "dep" /\ rec.d >= 1 /\ n \in Nat /\ DOMAIN DependsOn[Current] = 1 .. n
        /\ reached' = reached
    BY <1>3, <1>7, SupervisorAssumption DEF CheckDependency, RecStep, Types, TypeInv, InRange
  <2>2. CASE rec.d > n
    <3>1. rec' = [rec EXCEPT !.pc = "ready"] /\ Current' = Current
      BY <1>2, <1>7, <2>2 DEF CheckDependency, RecType, Current
    <3>2. AllCame(Current)
      BY <1>2, <2>1, <2>2 DEF Checked, AllCame, Dependency, RecType
    <3>3. AllCame(Current)'
      BY <1>1, <3>1, <3>2 DEF AllCame, Came
    <3> QED
      BY <1>2, <3>1, <3>3 DEF Checked, RecType
  <2>3. CASE rec.d <= n
    <3>1. Dep.on \in Programs /\ Dep.cond \in {"started", "healthy", "completed"}
      BY <1>2, <2>1, <2>3, DepInList
    <3>2. CASE ~Met(Current, Dep)
      <4>1. rec' = [rec EXCEPT !.pc = "blocked"]
        BY <1>2, <1>7, <2>1, <2>3, <3>2 DEF CheckDependency, RecType
      <4> QED
        BY <1>2, <4>1 DEF Checked, RecType
    <3>3. CASE Met(Current, Dep) /\ Dep.cond = "healthy"
      <4>1. rec' = [rec EXCEPT !.pc = "health"] /\ Current' = Current
        BY <1>2, <1>7, <2>1, <2>3, <3>3 DEF CheckDependency, RecType, Current
      <4>2. rec' = [pc |-> "health", i |-> rec.i, want |-> rec.want, d |-> rec.d]
        BY <1>2, <4>1 DEF RecType
      <4>3. (Dep.on)' = Dep.on /\ (Dep.cond)' = Dep.cond
        BY <4>1, <4>2 DEF Dep
      <4>4. <<Dep.on, "started">> \in reached
        BY <3>1, <3>3 DEF Met, Recorded
      <4> QED
        BY <2>1, <3>3, <4>1, <4>2, <4>3, <4>4 DEF Checked, Came
    <3>4. CASE Met(Current, Dep) /\ Dep.cond # "healthy"
      <4>1. rec' = [rec EXCEPT !.d = @ + 1] /\ Current' = Current
        BY <1>2, <1>7, <2>1, <2>3, <3>4 DEF CheckDependency, RecType, Current
      <4>2. rec' = [pc |-> "dep", i |-> rec.i, want |-> rec.want, d |-> rec.d + 1]
        BY <1>2, <2>1, <4>1 DEF RecType
      <4>3. Came(Dep)
        BY <3>1, <3>4 DEF Met, Recorded, Came
      <4>4. \A i \in DOMAIN DependsOn[Current] : i < rec.d + 1 => Came(DependsOn[Current][i])
        BY <1>2, <2>1, <4>3 DEF Checked, Dep, RecType
      <4> QED
        BY <2>1, <4>1, <4>2, <4>4 DEF Checked, Came
    <3> QED
      BY <3>2, <3>3, <3>4
  <2> QED
    BY <1>2, <2>1, <2>2, <2>3 DEF RecType
<1>8. CASE CheckHealth
  <2> DEFINE n == Len(DependsOn[Current])
  <2>1. /\ rec.pc = "health" /\ rec.d >= 1 /\ rec.d <= n /\ n \in Nat
        /\ DOMAIN DependsOn[Current] = 1 .. n /\ reached' = reached
    BY <1>3, <1>8, SupervisorAssumption DEF CheckHealth, RecStep, Types, TypeInv, InRange
  <2>2. Dep.on \in Programs
    BY <1>2, <2>1, DepInList
  <2>3. CASE healthy[Dep.on]
    <3>1. rec' = [rec EXCEPT !.pc = "dep", !.d = @ + 1]
      BY <1>8, <2>3 DEF CheckHealth
    <3>2. rec' = [pc |-> "dep", i |-> rec.i, want |-> rec.want, d |-> rec.d + 1] /\ Current' = Current
      BY <1>2, <3>1 DEF RecType, Current
    <3>3. Came(Dep)
      BY <2>1, <2>2, <2>3 DEF Checked, Recorded, Came
    <3>4. \A i \in DOMAIN DependsOn[Current] : i < rec.d + 1 => Came(DependsOn[Current][i])
      BY <1>2, <2>1, <3>3 DEF Checked, Dep, RecType
    <3> QED
      BY <2>1, <3>2, <3>4 DEF Checked, Came
  <2>4. CASE ~healthy[Dep.on]
    <3>1. rec' = [rec EXCEPT !.pc = "blocked"]
      BY <1>8, <2>4 DEF CheckHealth
    <3> QED
      BY <1>2, <3>1 DEF Checked, RecType
  <2> QED
    BY <2>3, <2>4
<1>9. CASE NoteReady
  <2>1. rec' = [rec EXCEPT !.pc = "run"] /\ Current' = Current /\ AllCame(Current)
    BY <1>2, <1>9 DEF NoteReady, RecStep, RecType, Current, Checked
  <2>2. AllCame(Current)'
    BY <1>1, <2>1 DEF AllCame, Came
  <2> QED
    BY <1>2, <2>1, <2>2 DEF Checked, RecType
<1>10. ASSUME NEW p \in Programs, Moves(p) \/ Action(p) PROVE rec' = rec
  BY <1>10, ActionKeeps DEF Types
<1> QED
  BY <1>4, <1>5, <1>6, <1>7, <1>8, <1>9, <1>10, NextCases, OthersKeep DEF Reconcile, vars

\* The reconciler alone begins a start.
LEMMA StartsFrom ==
    Types /\ [Next]_vars => \A p \in Programs :
        action'[p] = "start" =>
            action[p] = "start" \/ (p = Current /\ rec.pc = "run" /\ rec.want = "RUNNING")
<1> SUFFICES ASSUME Types, [Next]_vars, NEW p \in Programs, action'[p] = "start",
                    action[p] # "start"
             PROVE  p = Current /\ rec.pc = "run" /\ rec.want = "RUNNING"
  OBVIOUS
<1>1. rec \in RecType
  BY DEF Types, TypeInv, TypeOK, RecType
<1>2. ASSUME NEW q \in Programs, Moves(q) \/ Action(q) PROVE FALSE
  BY <1>2, ActionKeeps DEF Types, TypeInv, TypeOK
<1>3. RunAction
  BY <1>2, NextCases, OthersKeep, ReconcileKeeps DEF vars
<1> QED
  BY <1>1, <1>3, CurrentIsProgram DEF RunAction, RecStep, RecType, Types, TypeInv, TypeOK

LEMMA NeededStep == Types /\ Recorded /\ Checked /\ Needed /\ [Next]_vars => Needed'
<1> SUFFICES ASSUME Types, Recorded, Checked, Needed, [Next]_vars, NEW p \in Programs,
                    action'[p] = "start" \/ state'[p] \in {"STARTING", "RUNNING", "EXITED"}
             PROVE  AllCame(p)'
  BY DEF Needed
<1>1. reached \subseteq reached' /\ StateMoves
  BY NextKeeps DEF Keeps
<1>2. AllCame(p)
  <2>1. CASE state'[p] \in {"STARTING", "RUNNING", "EXITED"}
    <3>1. action[p] = "start" \/ state[p] \in {"STARTING", "RUNNING", "EXITED"}
      BY <1>1, <2>1 DEF StateMoves
    <3> QED
      BY <3>1 DEF Needed
  <2>2. CASE action'[p] = "start" /\ action[p] # "start"
    BY <2>2, StartsFrom DEF Checked
  <2>3. CASE action[p] = "start"
    BY <2>3 DEF Needed
  <2> QED
    BY <2>1, <2>2, <2>3
<1> QED
  BY <1>1, <1>2 DEF AllCame, Came

\* dependenciesSatisfied: no program is started, and none comes up, before each
\* that it depends on has been where it had to be, for any dependencies, and
\* however the states change between the reads and the start.
THEOREM SupervisorDependenciesCameFirst == Spec => []DependenciesCameFirst
<1>1. Init => Checked /\ Needed
  BY DEF Init, Checked, Needed
<1>2. Needed => DependenciesCameFirst
  BY DEF Needed, AllCame, Came, DependenciesCameFirst
<1> QED
  BY <1>1, <1>2, CheckedStep, NeededStep, RecordHolds, PTL DEF Spec

-----------------------------------------------------------------------------
(* Reasons. *)

\* A program the pass looks into the dependencies of is down, and stays so until
\* the pass is through with it.
Held == rec.pc \in {"dep", "health", "blocked", "ready"} => state[Current] = "STOPPED"

\* A reason is taken back before a start, and not given while one is under way.
Reasons ==
    /\ rec.pc = "run" /\ rec.want = "RUNNING" => blockedReason[Current] = None
    /\ \A p \in Programs :
          action[p] = "start" \/ state[p] \in {"STARTING", "RUNNING", "EXITED"} =>
              blockedReason[p] = None

LEMMA HeldStep == Types /\ Recorded /\ Quiet /\ Held /\ [Next]_vars => Held'
<1> SUFFICES ASSUME Types, Recorded, Quiet, Held, [Next]_vars PROVE Held'
  OBVIOUS
<1>1. rec \in RecType
  BY DEF Types, TypeInv, TypeOK, RecType
<1>2. Current \in Programs /\ NextProgram.pc \in {"select", "look"}
  BY <1>1, CurrentIsProgram, NextProgramType
<1>3. CASE rec' = rec
  <2>1. CASE rec.pc \in {"dep", "health", "blocked", "ready"}
    <3>1. action[Current] = "none" /\ state[Current] = "STOPPED"
      BY <1>2, <2>1 DEF Quiet, Working, Held
    <3>2. state'[Current] = "STOPPED"
      BY <1>2, <3>1, NextKeeps DEF Keeps, StateMoves, IsStopped
    <3> QED
      BY <1>3, <3>2 DEF Held, Current
  <2> QED
    BY <1>3, <2>1 DEF Held
<1>4. CASE Look \/ NoteBlocked \/ RunAction \/ BeginPass \/ LoopEnds
  <2>1. rec'.pc \in {"select", "look", "judge", "done"}
    BY <1>1, <1>2, <1>4 DEF Look, NoteBlocked, RunAction, BeginPass, LoopEnds, RecType
  <2> QED
    BY <2>1 DEF Held
<1>5. CASE Judge
  <2>1. state' = state
    BY <1>5 DEF Judge, RecStep, procs
  <2>2. CASE rec.want = "RUNNING" /\ MayStart(state[Current])
    <3>1. rec' = [rec EXCEPT !.pc = "dep", !.d = 1]
      BY <1>5, <2>2 DEF Judge
    <3>2. rec' = [pc |-> "dep", i |-> rec.i, want |-> rec.want, d |-> 1]
      BY <1>1, <3>1 DEF RecType
    <3> QED
      BY <2>1, <2>2, <3>2 DEF Held, Current, MayStart
  <2>3. CASE ~(rec.want = "RUNNING" /\ MayStart(state[Current]))
    <3>1. rec' = [rec EXCEPT !.pc = "run"] \/ rec' = NextProgram
      <4>1. CASE rec.want = "STOPPED" /\ MustStop(state[Current])
        BY <1>5, <4>1 DEF Judge
      <4>2. CASE ~(rec.want = "STOPPED" /\ MustStop(state[Current]))
        BY <1>5, <2>3, <4>2 DEF Judge
      <4> QED
        BY <4>1, <4>2
    <3>2. rec'.pc \in {"run", "select", "look"}
      BY <1>1, <1>2, <3>1 DEF RecType
    <3> QED
      BY <3>2 DEF Held
  <2> QED
    BY <2>2, <2>3
<1>6. CASE CheckDependency \/ CheckHealth \/ NoteReady
  <2>1. rec.pc \in {"dep", "health", "ready"} /\ state' = state
    BY <1>6 DEF CheckDependency, CheckHealth, NoteReady, RecStep, procs
  <2>2. rec'.i = rec.i
    BY <1>1, <1>6 DEF CheckDependency, CheckHealth, NoteReady, RecType
  <2> QED
    BY <2>1, <2>2 DEF Held, Current
<1>7. ASSUME NEW p \in Programs, Moves(p) \/ Action(p) PROVE rec' = rec
  BY <1>7, ActionKeeps DEF Types
<1> QED
  BY <1>3, <1>4, <1>5, <1>6, <1>7, NextCases, OthersKeep DEF Reconcile, vars

\* Only NoteBlocked gives a reason.
LEMMA ReasonMoves ==
    Types /\ [Next]_vars =>
        \A p \in Programs : \/ blockedReason'[p] \in {blockedReason[p], None}
                            \/ NoteBlocked /\ p = Current
<1> SUFFICES ASSUME Types, [Next]_vars, NEW p \in Programs
             PROVE  blockedReason'[p] \in {blockedReason[p], None} \/ (NoteBlocked /\ p = Current)
  OBVIOUS
<1> USE DEF Types, TypeInv, TypeOK
<1>1. CASE Reconcile
  <2>1. CASE NoteBlocked
    BY <2>1 DEF NoteBlocked
  <2>2. CASE NoteReady
    BY <2>2 DEF NoteReady, Forget
  <2>3. CASE ~NoteBlocked /\ ~NoteReady
    BY <1>1, <2>3 DEF Reconcile, Look, Judge, CheckDependency, CheckHealth, RunAction, BeginPass,
                      LoopEnds
  <2> QED
    BY <2>1, <2>2, <2>3
<1>2. ASSUME NEW q \in Programs, Moves(q) \/ Action(q) PROVE blockedReason' = blockedReason
  BY <1>2 DEF Moves, ComesUp, HealthChanges, Exits, Retries, GivesUp, ProcStep, Action, ActionStarts,
              ActionStops, ActionStopped, ActionReturns
<1>3. ASSUME NEW c \in Clients, Request(c) \/ Client(c)
      PROVE  blockedReason'[p] \in {blockedReason[p], None}
  <2>1. CASE Unwant(c)
    BY <2>1 DEF Unwant, Forget
  <2>2. CASE ~Unwant(c)
    BY <1>3, <2>2 DEF Request, Client, AlreadyRunning, NotRunning, CheckAtRest, ResetProgram,
                      ResetReturns, Want, Started, CannotStart, Stopped, WaitEnds
  <2> QED
    BY <2>1, <2>2
<1>4. CASE BeginShutdown \/ Shutdown
  BY <1>4 DEF BeginShutdown, Shutdown, Quiesced, DaemonExits, StopProgram, ProgramStopped,
              ShutdownStep
<1> QED
  BY <1>1, <1>2, <1>3, <1>4, NextCases DEF vars

LEMMA ReasonsStep == Types /\ Recorded /\ Quiet /\ Held /\ Reasons /\ [Next]_vars => Reasons'
<1> SUFFICES ASSUME Types, Recorded, Quiet, Held, Reasons, [Next]_vars PROVE Reasons'
  OBVIOUS
<1>1. rec \in RecType
  BY DEF Types, TypeInv, TypeOK, RecType
<1>2. Current \in Programs /\ NextProgram.pc \in {"select", "look"}
  BY <1>1, CurrentIsProgram, NextProgramType
<1>3. ASSUME rec'.pc = "run", rec'.want = "RUNNING" PROVE (blockedReason[Current])' = None
  <2>1. CASE NoteReady
    BY <1>1, <1>2, <2>1 DEF NoteReady, Forget, Current, RecType, Types, TypeInv, TypeOK
  <2>2. CASE rec' = rec
    <3>1. ~NoteBlocked
      BY <1>3, <2>2 DEF NoteBlocked, RecStep
    <3> QED
      BY <1>2, <1>3, <2>2, <3>1, ReasonMoves DEF Reasons, Current
  <2>3. CASE Judge
    <3>1. CASE rec.want = "RUNNING" /\ rec' = [rec EXCEPT !.pc = "dep", !.d = 1]
      <4>1. rec' = [pc |-> "dep", i |-> rec.i, want |-> rec.want, d |-> 1]
        BY <1>1, <3>1 DEF RecType
      <4> QED
        BY <1>3, <4>1
    <3>2. CASE rec.want = "STOPPED" /\ rec' = [rec EXCEPT !.pc = "run"]
      BY <1>1, <1>3, <3>2 DEF RecType
    <3>3. CASE rec' = NextProgram
      BY <1>2, <1>3, <3>3
    <3> QED
      BY <2>3, <3>1, <3>2, <3>3, JudgeSets
  <2>4. CASE Look \/ CheckDependency \/ CheckHealth \/ NoteBlocked \/ RunAction \/ BeginPass \/ LoopEnds
    <3>1. rec'.pc # "run"
      BY <1>1, <1>2, <2>4 DEF Look, CheckDependency, CheckHealth, NoteBlocked, RunAction, BeginPass,
                              LoopEnds, RecStep, RecType
    <3> QED
      BY <1>3, <3>1
  <2>5. ASSUME NEW p \in Programs, Moves(p) \/ Action(p) PROVE rec' = rec
    BY <2>5, ActionKeeps DEF Types
  <2> QED
    BY <2>1, <2>2, <2>3, <2>4, <2>5, NextCases, OthersKeep DEF Reconcile, vars
<1>4. ASSUME NEW p \in Programs,
             action'[p] = "start" \/ state'[p] \in {"STARTING", "RUNNING", "EXITED"}
      PROVE  blockedReason'[p] = None
  <2>1. blockedReason[p] = None
    <3>1. CASE state'[p] \in {"STARTING", "RUNNING", "EXITED"}
      <4>1. action[p] = "start" \/ state[p] \in {"STARTING", "RUNNING", "EXITED"}
        BY <3>1, NextKeeps DEF Keeps, StateMoves
      <4> QED
        BY <4>1 DEF Reasons
    <3>2. CASE action'[p] = "start"
      <4>1. action[p] = "start" \/ (p = Current /\ rec.pc = "run" /\ rec.want = "RUNNING")
        BY <3>2, StartsFrom
      <4> QED
        BY <4>1 DEF Reasons
    <3> QED
      BY <1>4, <3>1, <3>2
  <2>2. ~(NoteBlocked /\ p = Current)
    <3>1. SUFFICES ASSUME NoteBlocked, p = Current PROVE FALSE
      OBVIOUS
    <3>2. state[p] = "STOPPED" /\ action[p] = "none"
      BY <3>1 DEF NoteBlocked, RecStep, Held, Quiet, Working
    <3>3. state' = state /\ action' = action
      BY <3>1 DEF NoteBlocked, RecStep, procs
    <3> QED
      BY <1>4, <3>2, <3>3
  <2> QED
    BY <2>1, <2>2, ReasonMoves
<1> QED
  BY <1>3, <1>4 DEF Reasons

\* noteBlocked: a program that is up, or about to be started, has no reason left
\* that it was held back for, whatever requests, crashes and passes meet.
THEOREM SupervisorRunningHasNoReason == Spec => []RunningHasNoReason
<1>1. Init => Held /\ Reasons
  BY DEF Init, Held, Reasons
<1>2. Reasons => RunningHasNoReason
  BY DEF Reasons, RunningHasNoReason
<1> QED
  BY <1>1, <1>2, HeldStep, ReasonsStep, QuietHolds, RecordHolds, PTL DEF Spec
=============================================================================

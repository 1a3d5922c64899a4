---------------------------- MODULE DaemonProofs ----------------------------
(***************************************************************************)
(* Theorems about Daemon: the lock on the PID file, whom reapOrphans acts  *)
(* on, and what the state file holds of what is running.                   *)
(***************************************************************************)
EXTENDS Daemon, TLAPS

USE DaemonAssumption DEF StateFile

-----------------------------------------------------------------------------
(***************************************************************************)
(* OneDaemon is not inductive: that a second daemon cannot lock the file   *)
(* depends on the first one's file being the one at the path, and that on  *)
(* nobody else unlinking it, which only a holder of its lock does.         *)
(***************************************************************************)

LockTypes ==
    /\ path \in Inodes \cup {None}
    /\ fd \in [Daemons -> Inodes \cup {None}]
    /\ pc \in [Daemons -> {"down", "opened", "closing", "exiting"} \cup Holding]
    /\ \A d \in Daemons : fd[d] = None <=> pc[d] \in {"down", "exiting"}
    /\ overlap \in BOOLEAN

\* The kernel's part: a file has one holder.
OneHolder == \A d, e \in Daemons : \A i \in Inodes : Locks(d, i) /\ Locks(e, i) => d = e
\* Who has the lock has it on the file that others will find.
HeldIsAtPath == ~overlap => \A d \in Daemons : pc[d] \in Holding => fd[d] = path

LockInv == LockTypes /\ OneHolder /\ HeldIsAtPath

\* A step that leaves the files alone, and in which one daemon at most goes on
\* from one place where it holds the directory to another.
Quiet == /\ UNCHANGED lockVars
         /\ \/ UNCHANGED pc
            \/ \E d \in Daemons, to \in Holding : pc[d] \in Holding /\ GoTo(d, to)

\* It is nothing to the lock.
LEMMA QuietKeepsLock == LockInv /\ Quiet => LockInv'
<1> SUFFICES ASSUME LockInv, Quiet PROVE LockInv'
  OBVIOUS
<1> USE DEF LockInv, Quiet, lockVars
<1>1. CASE UNCHANGED pc
  BY <1>1 DEF LockTypes, OneHolder, HeldIsAtPath, Locks
<1>2. CASE \E d \in Daemons, to \in Holding : pc[d] \in Holding /\ GoTo(d, to)
  <2> PICK d \in Daemons, to \in Holding : pc[d] \in Holding /\ GoTo(d, to)
    BY <1>2
  <2>1. pc' \in [Daemons -> {"down", "opened", "closing", "exiting"} \cup Holding]
    BY DEF LockTypes, GoTo
  <2>2. \A e \in Daemons : pc'[e] = pc[e] \/ (pc[e] \in Holding /\ pc'[e] \in Holding)
    BY DEF LockTypes, GoTo
  <2>3. \A e \in Holding : e \notin {"down", "exiting", "closing", "opened"}
    BY DEF Holding, Starting, Ending
  <2>4. LockTypes'
    BY <2>1, <2>2, <2>3 DEF LockTypes
  <2>5. OneHolder'
    BY <2>2 DEF OneHolder, Locks
  <2>6. HeldIsAtPath'
    BY <2>2 DEF HeldIsAtPath
  <2> QED BY <2>4, <2>5, <2>6
<1> QED BY <1>1, <1>2 DEF Quiet

\* A daemon that is gone: its file is closed.
LEMMA EndedKeepsLock ==
    ASSUME NEW d \in Daemons, LockInv, UNCHANGED <<path, overlap>>,
           fd' = [fd EXCEPT ![d] = None], pc' = [pc EXCEPT ![d] = "down"]
    PROVE  LockInv'
<1> USE DEF LockInv
<1>1. LockTypes'
  BY DEF LockTypes
<1>2. \A e \in Daemons : pc'[e] \in Holding \cup {"closing"} => pc'[e] = pc[e] /\ fd'[e] = fd[e]
  BY DEF LockTypes, Holding, Starting, Ending
<1>3. OneHolder'
  BY <1>2 DEF OneHolder, Locks
<1>4. HeldIsAtPath'
  BY <1>2 DEF HeldIsAtPath
<1> QED BY <1>1, <1>3, <1>4

\* Every step keeps the lock's invariant.
LEMMA LockStep == LockInv /\ [Next]_vars => LockInv'
<1> SUFFICES ASSUME LockInv, [Next]_vars PROVE LockInv'
  OBVIOUS
<1> USE DEF Holding, Starting, Ending
<1>0. CASE UNCHANGED vars
  BY <1>0, QuietKeepsLock DEF vars, Quiet, lockVars
<1>1. ASSUME NEW d \in Daemons, OpenPidFile(d) PROVE LockInv'
  <2> PICK i \in Inodes : /\ IF path = None THEN \A e \in Daemons : fd[e] # i ELSE i = path
                          /\ path' = i /\ fd' = [fd EXCEPT ![d] = i]
    BY <1>1 DEF OpenPidFile
  <2>1. pc[d] = "down" /\ pc' = [pc EXCEPT ![d] = "opened"] /\ overlap' = overlap
    BY <1>1 DEF OpenPidFile, GoTo
  <2>2. LockTypes'
    BY <2>1 DEF LockInv, LockTypes
  <2>3. \A e \in Daemons : e # d => pc'[e] = pc[e] /\ fd'[e] = fd[e]
    BY <2>1 DEF LockInv, LockTypes
  <2>4. pc'[d] = "opened"
    BY <2>1 DEF LockInv, LockTypes
  <2>5. OneHolder'
    BY <2>3, <2>4 DEF LockInv, OneHolder, Locks
  <2>6. HeldIsAtPath'
    <3> SUFFICES ASSUME ~overlap, NEW e \in Daemons, pc'[e] \in Holding PROVE fd'[e] = path'
      BY <2>1 DEF HeldIsAtPath
    <3>1. e # d /\ pc[e] \in Holding /\ fd'[e] = fd[e] /\ fd[e] = path
      BY <2>3, <2>4 DEF LockInv, HeldIsAtPath
    <3>2. fd[e] # None
      BY <3>1 DEF LockInv, LockTypes
    <3> QED BY <3>1, <3>2
  <2> QED BY <2>2, <2>5, <2>6 DEF LockInv
<1>2. ASSUME NEW d \in Daemons, Flock(d) PROVE LockInv'
  <2>1. /\ pc[d] = "opened" /\ Lockable(fd[d]) /\ pc' = [pc EXCEPT ![d] = "reading"]
        /\ UNCHANGED <<path, fd>> /\ overlap' = (overlap \/ fd[d] # path)
    BY <1>2 DEF Flock, GoTo
  <2>2. LockTypes'
    BY <2>1 DEF LockInv, LockTypes
  <2>3. \A e \in Daemons : e # d => pc'[e] = pc[e]
    BY <2>1 DEF LockInv, LockTypes
  <2>4. OneHolder'
    BY <2>1, <2>3 DEF LockInv, OneHolder, Locks, Lockable
  <2>5. HeldIsAtPath'
    BY <2>1, <2>3 DEF LockInv, HeldIsAtPath
  <2> QED BY <2>2, <2>4, <2>5 DEF LockInv
<1>3. ASSUME NEW d \in Daemons, LockFails(d) PROVE LockInv'
  BY <1>3, EndedKeepsLock DEF LockFails, FdIfRefused, PathIfRefused, GoTo
<1>4. ASSUME NEW d \in Daemons, Unlink(d) PROVE LockInv'
  <2>1. /\ pc[d] = "unlinking" /\ pc' = [pc EXCEPT ![d] = "closing"]
        /\ path' = None /\ UNCHANGED <<fd, overlap>>
    BY <1>4 DEF Unlink, GoTo
  <2>2. LockTypes'
    BY <2>1 DEF LockInv, LockTypes
  <2>3. \A e \in Daemons : e # d => pc'[e] = pc[e]
    BY <2>1 DEF LockInv, LockTypes
  <2>4. pc'[d] = "closing" /\ fd[d] \in Inodes
    BY <2>1 DEF LockInv, LockTypes
  <2>5. OneHolder'
    BY <2>1, <2>3, <2>4 DEF LockInv, OneHolder, Locks
  <2>6. HeldIsAtPath'
    <3> SUFFICES ASSUME ~overlap, NEW e \in Daemons, pc'[e] \in Holding PROVE FALSE
      BY <2>1 DEF HeldIsAtPath
    <3>1. e # d /\ pc[e] \in Holding
      BY <2>3, <2>4
    <3>2. fd[e] = fd[d]
      BY <3>1, <2>1 DEF LockInv, HeldIsAtPath
    <3> QED BY <3>1, <3>2, <2>1, <2>4 DEF LockInv, OneHolder, Locks
  <2> QED BY <2>2, <2>5, <2>6 DEF LockInv
<1>5. ASSUME NEW d \in Daemons, CheckPath(d) PROVE LockInv'
  <2>1. /\ pc[d] = "checking" /\ UNCHANGED lockVars
        /\ \E to \in {"unlinking", "closing"} : pc' = [pc EXCEPT ![d] = to]
    BY <1>5 DEF CheckPath, GoTo
  <2>2. LockTypes'
    BY <2>1 DEF LockInv, LockTypes, lockVars
  <2>3. \A e \in Daemons : \/ pc'[e] = pc[e]
                           \/ pc[e] \in Holding /\ pc'[e] \in {"unlinking", "closing"}
    BY <2>1 DEF LockInv, LockTypes
  <2>4. OneHolder'
    BY <2>1, <2>3 DEF LockInv, OneHolder, Locks, lockVars
  <2>5. HeldIsAtPath'
    BY <2>1, <2>3 DEF LockInv, HeldIsAtPath, lockVars
  <2> QED BY <2>2, <2>4, <2>5 DEF LockInv
<1>6. ASSUME NEW d \in Daemons, CloseFile(d) PROVE LockInv'
  <2>1. /\ pc[d] = "closing" /\ pc' = [pc EXCEPT ![d] = "exiting"]
        /\ fd' = [fd EXCEPT ![d] = None] /\ UNCHANGED <<path, overlap>>
    BY <1>6 DEF CloseFile, GoTo
  <2>2. LockTypes'
    BY <2>1 DEF LockInv, LockTypes
  <2>3. \A e \in Daemons : e # d => pc'[e] = pc[e] /\ fd'[e] = fd[e]
    BY <2>1 DEF LockInv, LockTypes
  <2>4. pc'[d] = "exiting"
    BY <2>1 DEF LockInv, LockTypes
  <2>5. OneHolder'
    BY <2>3, <2>4 DEF LockInv, OneHolder, Locks
  <2>6. HeldIsAtPath'
    BY <2>1, <2>3, <2>4 DEF LockInv, HeldIsAtPath
  <2> QED BY <2>2, <2>5, <2>6 DEF LockInv
<1>7. ASSUME NEW d \in Daemons, Exit(d) \/ Crash(d) PROVE LockInv'
  BY <1>7, EndedKeepsLock DEF Exit, Crash, Ended, GoTo
<1>8. CASE Reboot
  <2>1. LockTypes'
    BY <1>8 DEF Reboot, LockInv, LockTypes, lockVars
  <2>2. \A d \in Daemons : pc'[d] = "down"
    BY <1>8 DEF Reboot
  <2>3. OneHolder' /\ HeldIsAtPath'
    BY <2>2 DEF OneHolder, HeldIsAtPath, Locks
  <2> QED BY <2>1, <2>3 DEF LockInv
<1>9. ASSUME NEW d \in Daemons, ReapOrphans(d) \/ Listen(d) \/ BeginStop(d) \/ Stopped(d) \/ ClearState(d)
      PROVE  LockInv'
  <2>1. CASE ReadState(d) \/ Identify(d)
    BY <2>1, QuietKeepsLock DEF ReadState, Identify, Quiet, GoTo
  <2>2. CASE Terminate(d) \/ Wait(d) \/ Kill(d) \/ ClearOrphans(d)
    BY <2>2, QuietKeepsLock DEF Terminate, AfterTerm, Wait, Kill, ClearOrphans, Quiet, GoTo
  <2>3. CASE Listen(d) \/ BeginStop(d) \/ Stopped(d) \/ ClearState(d)
    BY <2>3, QuietKeepsLock DEF Listen, BeginStop, Stopped, ClearState, Quiet, GoTo
  <2> QED BY <1>9, <2>1, <2>2, <2>3 DEF ReapOrphans
<1>10. ASSUME NEW d \in Daemons, Program(d) \/ SaveState(d) PROVE LockInv'
  BY <1>10, QuietKeepsLock
  DEF Program, StartProgram, Spawn, SpawnFails, RecordRun, Promote, ChildExits, Settle,
      SaveState, SaveReads, SaveLooksUp, SaveWrites, Quiet
<1>11. ASSUME NEW p \in Pids, StrangerStarts(p) \/ OtherEnds(p) PROVE LockInv'
  BY <1>11, QuietKeepsLock DEF StrangerStarts, OtherEnds, Quiet
<1> QED
  BY <1>0, <1>1, <1>2, <1>3, <1>4, <1>5, <1>6, <1>7, <1>8, <1>9, <1>10, <1>11 DEF Next, Stop

\* The lock's invariant holds in every behaviour.
LEMMA LockInvariant == Spec => []LockInv
<1>1. Init => LockInv
  BY DEF Init, LockInv, LockTypes, OneHolder, HeldIsAtPath, Locks, Holding, Starting, Ending
<1> QED BY <1>1, LockStep, PTL DEF Spec

\* Two holders would have the lock on the one file at the path.
LEMMA LockHolds == LockInv => OneDaemon
<1> SUFFICES ASSUME LockInv, ~overlap, NEW d \in Daemons, NEW e \in Daemons,
                    pc[d] \in Holding, pc[e] \in Holding
             PROVE  d = e
  BY DEF OneDaemon, LockKeepsOneDaemon
<1>1. fd[d] = path /\ fd[e] = path
  BY DEF LockInv, HeldIsAtPath
<1>2. fd[d] \in Inodes
  BY DEF LockInv, LockTypes, Holding, Starting, Ending
<1> QED BY <1>1, <1>2 DEF LockInv, OneHolder, Locks

\* As long as no daemon has locked a file that was unlinked under it, at most
\* one is between its Start and the end of its Stop, for any number of daemons
\* that are started, refused, killed and rebooted (pidlock.go).
THEOREM DaemonOneDaemon == Spec => []OneDaemon
BY LockHolds, LockInvariant, PTL

-----------------------------------------------------------------------------
(* Types. *)

ProgramTypes ==
    [Daemons -> [state : {"STOPPED", "STARTING", "RUNNING"},
                 child : Pids \cup {None}, pid : Pids \cup {None}]]
SaveTypes ==
    [Daemons -> [at : {"idle", "token", "write"}, pid : Pids \cup {None}, recs : SUBSET Record]]

\* Publish, Spawn and recordRun each set one field of a program, Settle two.
LEMMA ProgramUpdate ==
    ASSUME NEW f \in ProgramTypes, NEW d \in Daemons,
           NEW st \in {"STOPPED", "STARTING", "RUNNING"}, NEW p \in Pids \cup {None}
    PROVE  /\ [f EXCEPT ![d].state = st] \in ProgramTypes
           /\ [f EXCEPT ![d].child = p] \in ProgramTypes /\ [f EXCEPT ![d].pid = p] \in ProgramTypes
           /\ [f EXCEPT ![d].state = st, ![d].child = p] \in ProgramTypes
<1>1. [f EXCEPT ![d].state = st] \in ProgramTypes
  BY DEF ProgramTypes
<1>2. \A g \in ProgramTypes : [g EXCEPT ![d].child = p] \in ProgramTypes
  BY DEF ProgramTypes
<1>3. [f EXCEPT ![d].pid = p] \in ProgramTypes
  BY DEF ProgramTypes
<1>4. [f EXCEPT ![d].state = st, ![d].child = p] \in ProgramTypes
  BY <1>1, <1>2
<1> QED
  BY <1>1, <1>2, <1>3, <1>4

\* saveState sets what it will write.
LEMMA SaveUpdate ==
    ASSUME NEW f \in SaveTypes, NEW d \in Daemons, NEW recs \in SUBSET Record
    PROVE  [f EXCEPT ![d].at = "write", ![d].recs = recs] \in SaveTypes
BY DEF SaveTypes

\* Every step keeps the types.
LEMMA TypeStep == TypeOK /\ [Next]_vars => TypeOK'
<1> SUFFICES ASSUME TypeOK, [Next]_vars PROVE TypeOK'
  OBVIOUS
<1> USE DEF TypeOK, Holding, Starting, Ending, GoTo, lockVars, procVars, fileVars, histVars
<1>0. CASE UNCHANGED vars
  BY <1>0 DEF vars
<1>1. ASSUME NEW d \in Daemons, OpenPidFile(d) PROVE TypeOK'
  BY <1>1 DEF OpenPidFile
<1>2. ASSUME NEW d \in Daemons, Flock(d) PROVE TypeOK'
  BY <1>2 DEF Flock
<1>3. ASSUME NEW d \in Daemons, LockFails(d) PROVE TypeOK'
  BY <1>3 DEF LockFails, FdIfRefused, PathIfRefused
<1>4. ASSUME NEW d \in Daemons, ReadState(d) PROVE TypeOK'
  <2> DEFINE read == IF file = None THEN {} ELSE file.children
  <2>1. read \in SUBSET Record
    BY DEF StateFile
  <2>2. orphans' = orphans \/ orphans' = [orphans EXCEPT ![d] = read]
    BY <1>4 DEF ReadState, Children
  <2> HIDE DEF read
  <2>3. orphans' \in [Daemons -> SUBSET Record]
    BY <2>1, <2>2
  <2>4. \E to \in {"binding", "identifying", "clearing"} : pc' = [pc EXCEPT ![d] = to]
    BY <1>4 DEF ReadState
  <2>5. UNCHANGED <<lockVars, procVars, fileVars, histVars, dirty, save>> /\ pc[d] = "reading"
    BY <1>4 DEF ReadState
  <2>6. /\ pc' \in [Daemons -> {"down", "opened", "closing", "exiting"} \cup Holding]
        /\ \A e \in Daemons : fd[e] = None <=> pc'[e] \in {"down", "exiting"}
    BY <2>4, <2>5
  <2> QED
    BY <2>3, <2>5, <2>6
<1>5. ASSUME NEW d \in Daemons, Identify(d) PROVE TypeOK'
  BY <1>5 DEF Identify, Identified
<1>6. ASSUME NEW d \in Daemons, Terminate(d) PROVE TypeOK'
  BY <1>6 DEF Terminate, AfterTerm
<1>7. ASSUME NEW d \in Daemons, Wait(d) PROVE TypeOK'
  BY <1>7 DEF Wait
<1>8. ASSUME NEW d \in Daemons, Kill(d) PROVE TypeOK'
  BY <1>8 DEF Kill
<1>9. ASSUME NEW d \in Daemons, ClearOrphans(d) PROVE TypeOK'
  BY <1>9 DEF ClearOrphans
<1>10. ASSUME NEW d \in Daemons, Listen(d) PROVE TypeOK'
  BY <1>10 DEF Listen
<1>11. ASSUME NEW d \in Daemons, StartProgram(d) PROVE TypeOK'
  <2>1. prog' = [prog EXCEPT ![d].state = "STARTING"] /\ dirty' = [dirty EXCEPT ![d] = TRUE]
    BY <1>11 DEF StartProgram, Publish
  <2>2. prog' \in ProgramTypes
    BY <2>1, ProgramUpdate DEF ProgramTypes
  <2> QED BY <1>11, <2>1, <2>2 DEF StartProgram, ProgramTypes
<1>12. ASSUME NEW d \in Daemons, Spawn(d) PROVE TypeOK'
  <2> PICK p \in Pids : /\ uses[p] < MaxUses /\ holder' = [holder EXCEPT ![p] = d]
                        /\ uses' = [uses EXCEPT ![p] = @ + 1] /\ prog' = [prog EXCEPT ![d].child = p]
    BY <1>12 DEF Spawn
  <2>1. prog' \in ProgramTypes
    BY ProgramUpdate DEF ProgramTypes
  <2>2. uses' \in [Pids -> 0 .. MaxUses] /\ holder' \in [Pids -> Daemons \cup {Free, Orphan, Stranger}]
    OBVIOUS
  <2> QED BY <1>12, <2>1, <2>2 DEF Spawn, ProgramTypes
<1>13. ASSUME NEW d \in Daemons, SpawnFails(d) PROVE TypeOK'
  <2>1. prog' = [prog EXCEPT ![d].state = "STOPPED"] /\ dirty' = [dirty EXCEPT ![d] = TRUE]
    BY <1>13 DEF SpawnFails, Publish
  <2>2. prog' \in ProgramTypes
    BY <2>1, ProgramUpdate DEF ProgramTypes
  <2> QED BY <1>13, <2>1, <2>2 DEF SpawnFails, ProgramTypes
<1>14. ASSUME NEW d \in Daemons, RecordRun(d) PROVE TypeOK'
  <2>1. prog' = [prog EXCEPT ![d].pid = prog[d].child] /\ prog[d].child \in Pids \cup {None}
    BY <1>14 DEF RecordRun
  <2>2. prog' \in ProgramTypes
    BY <2>1, ProgramUpdate DEF ProgramTypes
  <2> QED BY <1>14, <2>2 DEF RecordRun, ProgramTypes
<1>15. ASSUME NEW d \in Daemons, Promote(d) PROVE TypeOK'
  <2>1. prog' = [prog EXCEPT ![d].state = "RUNNING"] /\ dirty' = [dirty EXCEPT ![d] = TRUE]
    BY <1>15 DEF Promote, Publish
  <2>2. prog' \in ProgramTypes
    BY <2>1, ProgramUpdate DEF ProgramTypes
  <2> QED BY <1>15, <2>1, <2>2 DEF Promote, ProgramTypes
<1>16. ASSUME NEW d \in Daemons, ChildExits(d) PROVE TypeOK'
  BY <1>16 DEF ChildExits
<1>17. ASSUME NEW d \in Daemons, Settle(d) PROVE TypeOK'
  <2>1. /\ prog' = [prog EXCEPT ![d].state = "STOPPED", ![d].child = None]
        /\ dirty' = [dirty EXCEPT ![d] = TRUE]
    BY <1>17 DEF Settle
  <2>2. prog' \in ProgramTypes
    BY <2>1, ProgramUpdate DEF ProgramTypes
  <2> QED BY <1>17, <2>1, <2>2 DEF Settle, ProgramTypes
<1>18. ASSUME NEW d \in Daemons, SaveReads(d) PROVE TypeOK'
  BY <1>18 DEF SaveReads
<1>19. ASSUME NEW d \in Daemons, SaveLooksUp(d) PROVE TypeOK'
  <2>1. Records(d, save[d].pid) \in SUBSET Record
    BY DEF Records, Holder, Record
  <2>2. save' \in SaveTypes
    BY <1>19, <2>1, SaveUpdate DEF SaveLooksUp, SaveTypes
  <2> QED BY <1>19, <2>2 DEF SaveLooksUp, SaveTypes
<1>20. ASSUME NEW d \in Daemons, SaveWrites(d) PROVE TypeOK'
  <2>1. file' \in [boot : 0 .. MaxBoots, children : SUBSET Record] /\ late' \in BOOLEAN
    BY <1>20 DEF SaveWrites
  <2>2. Idle \in [at : {"idle", "token", "write"}, pid : Pids \cup {None}, recs : SUBSET Record]
    BY DEF Idle
  <2>3. save' \in SaveTypes
    BY <1>20, <2>2 DEF SaveWrites, SaveTypes
  <2> QED BY <1>20, <2>1, <2>3 DEF SaveWrites, SaveTypes
<1>21. ASSUME NEW d \in Daemons, BeginStop(d) PROVE TypeOK'
  BY <1>21 DEF BeginStop
<1>22. ASSUME NEW d \in Daemons, Stopped(d) PROVE TypeOK'
  BY <1>22 DEF Stopped
<1>23. ASSUME NEW d \in Daemons, ClearState(d) PROVE TypeOK'
  BY <1>23 DEF ClearState
<1>24. ASSUME NEW d \in Daemons, CheckPath(d) PROVE TypeOK'
  BY <1>24 DEF CheckPath
<1>25. ASSUME NEW d \in Daemons, Unlink(d) PROVE TypeOK'
  BY <1>25 DEF Unlink
<1>26. ASSUME NEW d \in Daemons, CloseFile(d) PROVE TypeOK'
  BY <1>26 DEF CloseFile
<1>27. ASSUME NEW d \in Daemons, Exit(d) PROVE TypeOK'
  BY <1>27 DEF Exit, Ended, NoProgram, Idle
<1>28. ASSUME NEW d \in Daemons, Crash(d) PROVE TypeOK'
  BY <1>28 DEF Crash, Ended, NoProgram, Idle
<1>29. CASE Reboot
  BY <1>29 DEF Reboot, NoProgram, Idle
<1>30. ASSUME NEW p \in Pids, StrangerStarts(p) \/ OtherEnds(p) PROVE TypeOK'
  BY <1>30 DEF StrangerStarts, OtherEnds
<1> HIDE DEF TypeOK
<1> QED
  BY <1>0, <1>1, <1>2, <1>3, <1>4, <1>5, <1>6, <1>7, <1>8, <1>9, <1>10, <1>11, <1>12, <1>13,
     <1>14, <1>15, <1>16, <1>17, <1>18, <1>19, <1>20, <1>21, <1>22, <1>23, <1>24, <1>25, <1>26,
     <1>27, <1>28, <1>29, <1>30
  DEF Next, ReapOrphans, Program, SaveState, Stop

\* Every variable keeps its type, whatever the bounds.
THEOREM DaemonTypeOK == Spec => []TypeOK
<1>1. Init => TypeOK
  <2>1. Idle \in [at : {"idle", "token", "write"}, pid : Pids \cup {None}, recs : SUBSET Record]
    BY DEF Idle
  <2>2. {} \in SUBSET Record /\ 0 \in 0 .. MaxUses /\ 0 \in 0 .. MaxBoots /\ 0 \in 0 .. MaxCrashes
    OBVIOUS
  <2>3. NoProgram \in [state : {"STOPPED", "STARTING", "RUNNING"},
                       child : Pids \cup {None}, pid : Pids \cup {None}]
    BY DEF NoProgram
  <2> SUFFICES ASSUME Init PROVE TypeOK
    OBVIOUS
  <2>4. prog \in ProgramTypes
    BY <2>3 DEF Init, ProgramTypes
  <2>5. save \in SaveTypes
    BY <2>1 DEF Init, SaveTypes
  <2>6. orphans \in [Daemons -> SUBSET Record] /\ uses \in [Pids -> 0 .. MaxUses]
    BY <2>2 DEF Init
  <2>7. /\ boot \in 0 .. MaxBoots /\ crashes \in 0 .. MaxCrashes /\ file = None
        /\ holder \in [Pids -> Daemons \cup {Free, Orphan, Stranger}]
    BY <2>2 DEF Init
  <2>8. /\ path = None /\ fd \in [Daemons -> Inodes \cup {None}]
        /\ overlap \in BOOLEAN /\ late \in BOOLEAN /\ dirty \in [Daemons -> BOOLEAN]
        /\ pc \in [Daemons -> {"down", "opened", "closing", "exiting"} \cup Holding]
        /\ \A d \in Daemons : fd[d] = None <=> pc[d] \in {"down", "exiting"}
    BY DEF Init
  <2> QED BY <2>4, <2>5, <2>6, <2>7, <2>8 DEF TypeOK, ProgramTypes, SaveTypes
<1> QED BY <1>1, TypeStep, PTL DEF Spec

-----------------------------------------------------------------------------
(***************************************************************************)
(* A record says of a process what only that process would answer in the   *)
(* boot the record is of: its start time.                                  *)
(***************************************************************************)

Truthful(recs, b) == \A r \in recs : r.who.boot = b /\ r.token = r.who.use

RecordInv ==
    /\ file # None => Truthful(file.children, file.boot)
    /\ \A d \in Daemons : Truthful(save[d].recs, boot) /\ Truthful(orphans[d], boot)

\* Every step that writes a record, or moves one, keeps them truthful.
LEMMA RecordStep == TypeOK /\ RecordInv /\ [Next]_vars => RecordInv'
<1> SUFFICES ASSUME TypeOK, RecordInv, [Next]_vars PROVE RecordInv'
  OBVIOUS
<1> DEFINE Same == UNCHANGED <<file, save, orphans, boot>>
<1>a. Same => RecordInv'
  BY DEF RecordInv, Truthful
<1>b. /\ DOMAIN save = Daemons /\ DOMAIN orphans = Daemons
      /\ save \in SaveTypes
  BY DEF TypeOK, SaveTypes
<1> HIDE DEF Same
<1>0. CASE UNCHANGED vars
  BY <1>0, <1>a DEF Same, vars
<1>1. ASSUME NEW d \in Daemons, OpenPidFile(d) \/ Flock(d) \/ LockFails(d) \/ Listen(d) PROVE RecordInv'
  BY <1>1, <1>a DEF Same, OpenPidFile, Flock, LockFails, Listen, fileVars, histVars
<1>2. ASSUME NEW d \in Daemons, ReadState(d) PROVE RecordInv'
  <2>1. CASE UNCHANGED orphans
    BY <1>2, <2>1, <1>a DEF Same, ReadState, fileVars, histVars
  <2>2. CASE file # None /\ file.boot = boot /\ orphans' = [orphans EXCEPT ![d] = file.children]
    BY <1>2, <2>2, <1>b DEF RecordInv, Truthful, ReadState, fileVars, histVars
  <2> QED BY <1>2, <2>1, <2>2 DEF ReadState, Children, FromThisBoot
<1>3. ASSUME NEW d \in Daemons, Identify(d) PROVE RecordInv'
  BY <1>3, <1>b DEF RecordInv, Truthful, Identify, Identified, fileVars, histVars
<1>4. ASSUME NEW d \in Daemons, Terminate(d) \/ Wait(d) \/ Kill(d) PROVE RecordInv'
  BY <1>4, <1>a DEF Same, Terminate, Wait, Kill, fileVars, histVars
<1>5. ASSUME NEW d \in Daemons, ClearOrphans(d) PROVE RecordInv'
  BY <1>5, <1>b DEF RecordInv, Truthful, ClearOrphans, histVars
<1>6. ASSUME NEW d \in Daemons, Program(d) PROVE RecordInv'
  BY <1>6, <1>a
  DEF Same, Program, StartProgram, Spawn, SpawnFails, RecordRun, Promote, ChildExits, Settle,
      fileVars, histVars
<1>7. ASSUME NEW d \in Daemons, SaveReads(d) PROVE RecordInv'
  BY <1>7, <1>b DEF RecordInv, Truthful, SaveReads, fileVars, histVars
<1>8. ASSUME NEW d \in Daemons, SaveLooksUp(d) PROVE RecordInv'
  <2>1. Truthful(Records(d, save[d].pid), boot)
    BY DEF Truthful, Records, Holder
  <2>2. /\ \A e \in Daemons : save'[e].recs = IF e = d THEN Records(d, save[d].pid) ELSE save[e].recs
        /\ UNCHANGED <<file, orphans, boot>>
    BY <1>8, <1>b DEF SaveLooksUp, SaveTypes, fileVars, histVars
  <2> QED BY <2>1, <2>2 DEF RecordInv, Truthful
<1>9. ASSUME NEW d \in Daemons, SaveWrites(d) PROVE RecordInv'
  <2>1. /\ \A e \in Daemons : save'[e].recs = IF e = d THEN {} ELSE save[e].recs
        /\ file' = [boot |-> boot, children |-> save[d].recs] /\ UNCHANGED <<orphans, boot>>
    BY <1>9, <1>b DEF SaveWrites, SaveTypes, Idle, histVars
  <2> QED BY <2>1 DEF RecordInv, Truthful
<1>10. ASSUME NEW d \in Daemons, ClearState(d) PROVE RecordInv'
  BY <1>10 DEF RecordInv, Truthful, ClearState, histVars
<1>11. ASSUME NEW d \in Daemons, BeginStop(d) \/ Stopped(d) \/ CheckPath(d) \/ Unlink(d) \/ CloseFile(d)
       PROVE  RecordInv'
  BY <1>11, <1>a DEF Same, BeginStop, Stopped, CheckPath, Unlink, CloseFile, fileVars, histVars
<1>12. ASSUME NEW d \in Daemons, Exit(d) \/ Crash(d) PROVE RecordInv'
  <2>1. /\ \A e \in Daemons : save'[e].recs = IF e = d THEN {} ELSE save[e].recs
        /\ \A e \in Daemons : orphans'[e] = IF e = d THEN {} ELSE orphans[e]
        /\ UNCHANGED <<file, boot>>
    <3>1. /\ save' = [save EXCEPT ![d] = Idle] /\ orphans' = [orphans EXCEPT ![d] = {}]
          /\ UNCHANGED <<file, boot>>
      BY <1>12 DEF Exit, Crash, Ended, fileVars, histVars
    <3> QED BY <3>1, <1>b DEF Idle
  <2> QED BY <2>1 DEF RecordInv, Truthful
<1>13. CASE Reboot
  <2>1. /\ \A e \in Daemons : save'[e].recs = {} /\ orphans'[e] = {}
        /\ UNCHANGED file
    BY <1>13 DEF Reboot, Idle, fileVars
  <2> QED BY <2>1 DEF RecordInv, Truthful
<1>14. ASSUME NEW p \in Pids, StrangerStarts(p) \/ OtherEnds(p) PROVE RecordInv'
  BY <1>14, <1>a DEF Same, StrangerStarts, OtherEnds, fileVars, histVars
<1> QED
  BY <1>0, <1>1, <1>2, <1>3, <1>4, <1>5, <1>6, <1>7, <1>8, <1>9, <1>10, <1>11, <1>12, <1>13, <1>14
  DEF Next, ReapOrphans, SaveState, Stop

\* What reapOrphans goes on to signal is the very process that was recorded,
\* for any number of PIDs, boots and holders of one PID (state.go:158-206).
THEOREM DaemonIdentifiedIsRecorded == Spec => IdentifiedIsRecorded
<1> DEFINE Identifies ==
      \A d \in Daemons : pc[d] = "identifying" /\ pc'[d] # pc[d] =>
          \A r \in orphans'[d] : r.who.boot = boot /\ r.who.use = uses[r.pid]
<1>1. Init => RecordInv
  BY DEF Init, RecordInv, Truthful, Idle
<1>2. TypeOK /\ RecordInv /\ [Next]_vars => [Identifies]_vars
  <2> SUFFICES ASSUME TypeOK, RecordInv, Next, NEW d \in Daemons, pc[d] = "identifying", pc'[d] # pc[d]
               PROVE  \A r \in orphans'[d] : r.who.boot = boot /\ r.who.use = uses[r.pid]
    BY DEF vars
  <2>1. CASE Identify(d)
    BY <2>1 DEF TypeOK, RecordInv, Truthful, Identify, Identified, IsSame
  <2>2. CASE Crash(d) \/ Reboot
    BY <2>2 DEF TypeOK, Crash, Reboot, Ended
  <2>3. ASSUME NEW e \in Daemons, NEW to, GoTo(e, to) PROVE e = d
    BY <2>3 DEF GoTo, TypeOK
  <2>4. ASSUME NEW e \in Daemons,
               \/ OpenPidFile(e) \/ Flock(e) \/ LockFails(e) \/ Listen(e) \/ ReadState(e)
               \/ Terminate(e) \/ Wait(e) \/ Kill(e) \/ ClearOrphans(e) \/ Stop(e)
        PROVE  FALSE
    BY <2>3, <2>4
    DEF OpenPidFile, Flock, LockFails, Listen, ReadState, Terminate, Wait, Kill, ClearOrphans,
        Stop, BeginStop, Stopped, ClearState, CheckPath, Unlink, CloseFile, Exit, Ended
  <2>5. ASSUME NEW e \in Daemons, Identify(e) \/ Crash(e) PROVE e = d
    BY <2>3, <2>5 DEF Identify, Crash, Ended
  <2>6. ASSUME NEW e \in Daemons, Program(e) \/ SaveState(e) PROVE FALSE
    BY <2>6 DEF Program, StartProgram, Spawn, SpawnFails, RecordRun, Promote, ChildExits, Settle,
                SaveState, SaveReads, SaveLooksUp, SaveWrites
  <2>7. ASSUME NEW p \in Pids, StrangerStarts(p) \/ OtherEnds(p) PROVE FALSE
    BY <2>7 DEF StrangerStarts, OtherEnds
  <2> QED BY <2>1, <2>2, <2>4, <2>5, <2>6, <2>7 DEF Next, ReapOrphans
<1>3. Spec => []TypeOK
  BY DaemonTypeOK
<1> QED BY <1>1, <1>2, <1>3, RecordStep, PTL DEF Spec, IdentifiedIsRecorded

-----------------------------------------------------------------------------
(***************************************************************************)
(* That orphans end first, are not forgotten and that what runs is on file *)
(* hangs together: a daemon must neither overlook a record that is still   *)
(* alive nor put one on file as its own, and nobody else touches the file. *)
(***************************************************************************)

\* Where a daemon's program may be up, and where its saver may be at work.
Up      == {"serving", "ending"}
Saving  == Up \cup {"clean", "checking", "unlinking", "closing", "exiting"}
\* Where it deals with the orphans on file, and where they are known to be gone.
Reaping == {"identifying", "terminating", "waiting", "killing"}
Reaped  == {"clearing", "binding", "serving", "ending", "clean"}

\* A child is its program's, and there is none before Start or after Stop.
ProgramOK(d) ==
    /\ pc[d] \notin Up => prog[d].state = "STOPPED"
    /\ pc[d] \notin Saving => ~dirty[d] /\ save[d] = Idle /\ prog[d].pid = None
    /\ prog[d].state = "STOPPED" => prog[d].child = None
    /\ prog[d].state = "RUNNING" => Recorded(d)
    /\ \A p \in Pids : holder[p] = d => prog[d].child = p
Programs == \A d \in Daemons : ProgramOK(d)

\* reapOrphans overlooks nothing that is left on file.
NothingOverlooked(d) ==
    /\ pc[d] \in Reaping => \A r \in Children : Living(r) => r \in orphans[d]
    /\ pc[d] \in Reaped => \A r \in Children : ~Living(r)

\* Nor does the daemon put an orphan on file as its own.
NoneTakenOver(d) ==
    pc[d] \in Reaped =>
        /\ \A p \in Pids : p \in {prog[d].pid, prog[d].child, save[d].pid} => holder[p] # Orphan
        /\ \A r \in save[d].recs : ~Living(r)

\* A running program is on file, or on its way there.
RecordOf(p) == [pid |-> p, token |-> uses[p], who |-> Holder(p)]
OnItsWay(d) ==
    pc[d] = "serving" /\ ~dirty[d] /\ prog[d].state = "RUNNING" /\ holder[prog[d].child] = d =>
        /\ save[d].at = "idle" => RecordOf(prog[d].child) \in Children
        /\ save[d].at = "token" => save[d].pid = prog[d].child
        /\ save[d].at = "write" => RecordOf(prog[d].child) \in save[d].recs

Kept(d) == NothingOverlooked(d) /\ NoneTakenOver(d) /\ OnItsWay(d)

\* A step that is not about the program of d.
Still(d) ==
    /\ prog'[d] = prog[d] /\ dirty'[d] = dirty[d] /\ save'[d] = save[d]
    /\ pc'[d] \notin Up => pc[d] \notin Up \/ prog[d].state = "STOPPED"
    /\ pc'[d] \notin Saving => pc[d] \notin Saving
    /\ \A p \in Pids : holder'[p] = d => holder[p] = d

\* Such a step leaves the program as consistent as it was.
LEMMA StillKeeps == ASSUME NEW d \in Daemons, ProgramOK(d), Still(d) PROVE ProgramOK(d)'
BY DEF ProgramOK, Still, Recorded

\* What the lemmas below need to know of types.
LEMMA Types ==
    ASSUME TypeOK
    PROVE  /\ prog \in ProgramTypes /\ save \in SaveTypes /\ dirty \in [Daemons -> BOOLEAN]
           /\ pc \in [Daemons -> {"down", "opened", "closing", "exiting"} \cup Holding]
           /\ holder \in [Pids -> Daemons \cup {Free, Orphan, Stranger}]
           /\ orphans \in [Daemons -> SUBSET Record]
           /\ None \notin Pids
BY DEF TypeOK, ProgramTypes, SaveTypes

\* The steps of the lock, of reapOrphans, of Stop, and of other processes.
LEMMA StillSteps ==
    ASSUME TypeOK, NEW d \in Daemons,
           \/ OpenPidFile(d) \/ Flock(d) \/ LockFails(d) \/ ReapOrphans(d) \/ Listen(d)
           \/ BeginStop(d) \/ Stopped(d) \/ ClearState(d) \/ CheckPath(d) \/ Unlink(d) \/ CloseFile(d)
           \/ ChildExits(d)
           \/ \E p \in Pids : StrangerStarts(p) \/ OtherEnds(p)
    PROVE  \A e \in Daemons : Still(e)
<1> USE DEF Still, Up, Saving, GoTo, procVars
<1>1. pc \in [Daemons -> {"down", "opened", "closing", "exiting"} \cup Holding]
  BY Types
<1>2. CASE OpenPidFile(d) \/ Flock(d) \/ LockFails(d) \/ Listen(d)
  BY <1>1, <1>2 DEF OpenPidFile, Flock, LockFails, Listen
<1>3. CASE ReapOrphans(d)
  <2>1. CASE ReadState(d) \/ Identify(d)
    BY <1>1, <2>1 DEF ReadState, Identify
  <2>2. CASE Terminate(d) \/ Wait(d) \/ ClearOrphans(d)
    BY <1>1, <2>2 DEF Terminate, AfterTerm, Wait, ClearOrphans
  <2>3. CASE Kill(d)
    BY <1>1, <2>3 DEF Kill
  <2> QED BY <1>3, <2>1, <2>2, <2>3 DEF ReapOrphans
<1>4. CASE BeginStop(d) \/ Stopped(d) \/ ClearState(d)
  BY <1>1, <1>4 DEF BeginStop, Stopped, ClearState
<1>5. CASE CheckPath(d) \/ Unlink(d) \/ CloseFile(d)
  BY <1>1, <1>5 DEF CheckPath, Unlink, CloseFile
<1>6. CASE ChildExits(d)
  BY <1>6, Types DEF ChildExits
<1>7. ASSUME NEW p \in Pids, StrangerStarts(p) \/ OtherEnds(p) PROVE \A e \in Daemons : Still(e)
  BY <1>7, Types DEF StrangerStarts, OtherEnds
<1> QED BY <1>2, <1>3, <1>4, <1>5, <1>6, <1>7

\* The program's own steps, its saver's, and a daemon that is gone: the others
\* are not concerned.
LEMMA OwnSteps ==
    ASSUME TypeOK, NEW d \in Daemons, Program(d) \/ SaveState(d) \/ Exit(d) \/ Crash(d),
           NEW e \in Daemons, e # d
    PROVE  Still(e) /\ pc'[e] = pc[e]
<1> USE DEF Still
<1>1. prog \in ProgramTypes /\ save \in SaveTypes /\ dirty \in [Daemons -> BOOLEAN]
  BY Types
<1>2. CASE StartProgram(d) \/ SpawnFails(d) \/ RecordRun(d) \/ Promote(d) \/ Settle(d)
  <2>1. prog'[e] = prog[e] /\ dirty'[e] = dirty[e]
    BY <1>1, <1>2
    DEF StartProgram, SpawnFails, RecordRun, Promote, Settle, Publish, ProgramTypes
  <2>2. UNCHANGED <<pc, holder, save>>
    BY <1>2 DEF StartProgram, SpawnFails, RecordRun, Promote, Settle
  <2> QED BY <2>1, <2>2
<1>3. CASE Spawn(d)
  BY <1>1, <1>3, Types DEF Spawn
<1>4. CASE ChildExits(d)
  BY <1>4, Types DEF ChildExits
<1>5. CASE SaveState(d)
  <2>1. save'[e] = save[e] /\ dirty'[e] = dirty[e]
    BY <1>1, <1>5 DEF SaveState, SaveReads, SaveLooksUp, SaveWrites, SaveTypes
  <2>2. UNCHANGED <<pc, holder, prog>>
    BY <1>5 DEF SaveState, SaveReads, SaveLooksUp, SaveWrites, procVars
  <2> QED BY <2>1, <2>2
<1>6. CASE Exit(d)
  BY <1>1, <1>6, Types DEF Exit, Ended, GoTo
<1>7. CASE Crash(d)
  BY <1>1, <1>7, Types DEF Crash, Ended, GoTo
<1> QED BY <1>2, <1>3, <1>4, <1>5, <1>6, <1>7 DEF Program

\* They keep the daemon's own program in order.
LEMMA OwnProgram ==
    ASSUME TypeOK, Programs, NEW d \in Daemons,
           Program(d) \/ SaveState(d) \/ Exit(d) \/ Crash(d)
    PROVE  ProgramOK(d)'
<1> USE DEF ProgramOK
<1>1. /\ prog \in ProgramTypes /\ save \in SaveTypes /\ dirty \in [Daemons -> BOOLEAN]
      /\ holder \in [Pids -> Daemons \cup {Free, Orphan, Stranger}]
      /\ pc \in [Daemons -> {"down", "opened", "closing", "exiting"} \cup Holding]
      /\ None \notin Pids
  BY Types
<1>2. ProgramOK(d)
  BY DEF Programs
<1>3. CASE StartProgram(d)
  <2>1. /\ prog'[d].state = "STARTING" /\ prog'[d].child = prog[d].child /\ prog'[d].pid = prog[d].pid
        /\ pc[d] = "serving" /\ UNCHANGED <<pc, holder, save>>
    BY <1>1, <1>3 DEF StartProgram, Publish, ProgramTypes
  <2> QED BY <1>2, <2>1 DEF Up, Saving
<1>4. CASE Spawn(d)
  <2>1. PICK p \in Pids : /\ holder[p] = Free /\ holder' = [holder EXCEPT ![p] = d]
                          /\ prog' = [prog EXCEPT ![d].child = p]
    BY <1>4 DEF Spawn
  <2>2. /\ prog[d].state = "STARTING" /\ prog[d].child = None
        /\ prog'[d].state = "STARTING" /\ prog'[d].child = p /\ prog'[d].pid = prog[d].pid
        /\ UNCHANGED <<pc, save, dirty>>
    BY <1>1, <1>4, <2>1 DEF Spawn, ProgramTypes
  <2>3. \A q \in Pids : holder'[q] = d => q = p
    BY <1>1, <1>2, <2>1, <2>2
  <2> QED BY <1>2, <2>2, <2>3
<1>5. CASE SpawnFails(d)
  <2>1. /\ prog[d].child = None /\ prog'[d].child = None /\ prog'[d].pid = prog[d].pid
        /\ prog[d].state = "STARTING" /\ prog'[d].state = "STOPPED" /\ UNCHANGED <<pc, holder, save>>
    BY <1>1, <1>5 DEF SpawnFails, Publish, ProgramTypes
  <2> QED BY <1>2, <2>1 DEF Up, Saving
<1>6. CASE RecordRun(d)
  <2>1. /\ prog[d].child # None /\ prog[d].pid # prog[d].child
        /\ prog'[d].child = prog[d].child /\ prog'[d].pid = prog[d].child
        /\ prog'[d].state = prog[d].state /\ UNCHANGED <<pc, holder, save, dirty>>
    BY <1>1, <1>6 DEF RecordRun, ProgramTypes
  <2> QED BY <1>2, <2>1 DEF Up, Saving, Recorded
<1>7. CASE Promote(d)
  <2>1. /\ Recorded(d) /\ prog[d].state = "STARTING"
        /\ prog'[d].child = prog[d].child /\ prog'[d].pid = prog[d].pid
        /\ prog'[d].state = "RUNNING" /\ UNCHANGED <<pc, holder, save>>
    BY <1>1, <1>7 DEF Promote, Publish, ProgramTypes
  <2> QED BY <1>2, <2>1 DEF Up, Saving, Recorded
<1>8. CASE ChildExits(d)
  BY <1>2, <1>8, StillSteps, StillKeeps
<1>9. CASE Settle(d)
  <2>1. /\ Recorded(d) /\ holder[prog[d].child] # d
        /\ prog'[d].child = None /\ prog'[d].pid = prog[d].pid
        /\ prog'[d].state = "STOPPED" /\ UNCHANGED <<pc, holder, save>>
    BY <1>1, <1>9 DEF Settle, ProgramTypes
  <2> QED BY <1>2, <2>1 DEF Up, Saving, Recorded
<1>10. CASE SaveState(d)
  <2>1. pc[d] \in Saving /\ UNCHANGED <<pc, prog, holder>>
    BY <1>2, <1>10
    DEF SaveState, SaveReads, SaveLooksUp, SaveWrites, procVars, Idle
  <2> QED BY <1>2, <2>1 DEF Recorded
<1>11. CASE Exit(d) \/ Crash(d)
  <2>1. /\ pc'[d] = "down" /\ prog'[d] = NoProgram /\ ~dirty'[d] /\ save'[d] = Idle
    BY <1>1, <1>11 DEF Exit, Crash, Ended, GoTo, ProgramTypes, SaveTypes
  <2>2. \A p \in Pids : holder'[p] # d
    <3>1. CASE Crash(d)
      BY <1>1, <3>1 DEF Crash
    <3>2. CASE Exit(d)
      <4>1. prog[d].child = None
        BY <1>2, <3>2 DEF Exit, Up
      <4> QED BY <1>1, <1>2, <3>2, <4>1 DEF Exit
    <3> QED BY <1>11, <3>1, <3>2
  <2> QED BY <2>1, <2>2 DEF NoProgram, Recorded
<1> QED BY <1>3, <1>4, <1>5, <1>6, <1>7, <1>8, <1>9, <1>10, <1>11 DEF Program

\* Every step keeps the programs in order.
LEMMA ProgramsStep == TypeOK /\ Programs /\ [Next]_vars => Programs'
<1> SUFFICES ASSUME TypeOK, Programs, [Next]_vars, NEW e \in Daemons PROVE ProgramOK(e)'
  BY DEF Programs
<1>1. ProgramOK(e)
  BY DEF Programs
<1>2. CASE UNCHANGED vars
  <2> Still(e)
    BY <1>2 DEF vars, Still
  <2> QED BY <1>1, StillKeeps
<1>3. ASSUME NEW d \in Daemons,
             \/ OpenPidFile(d) \/ Flock(d) \/ LockFails(d) \/ ReapOrphans(d) \/ Listen(d)
             \/ BeginStop(d) \/ Stopped(d) \/ ClearState(d) \/ CheckPath(d) \/ Unlink(d) \/ CloseFile(d)
      PROVE  ProgramOK(e)'
  BY <1>1, <1>3, StillSteps, StillKeeps
<1>4. ASSUME NEW d \in Daemons, Program(d) \/ SaveState(d) \/ Exit(d) \/ Crash(d)
      PROVE  ProgramOK(e)'
  BY <1>1, <1>4, OwnSteps, StillKeeps, OwnProgram
<1>5. ASSUME NEW p \in Pids, StrangerStarts(p) \/ OtherEnds(p) PROVE ProgramOK(e)'
  BY <1>1, <1>5, StillSteps, StillKeeps
<1>6. CASE Reboot
  BY <1>6 DEF Reboot, ProgramOK, NoProgram, Recorded
<1> QED BY <1>2, <1>3, <1>4, <1>5, <1>6 DEF Next, Stop

\* A daemon to which a step does nothing, and the file with it.
Bystander(e) ==
    /\ pc'[e] = pc[e] /\ prog'[e] = prog[e] /\ save'[e] = save[e] /\ dirty'[e] = dirty[e]
    /\ orphans'[e] = orphans[e] /\ file' = file /\ boot' = boot
    /\ \A p \in Pids : holder'[p] \in {Orphan, e} => holder'[p] = holder[p] /\ uses'[p] = uses[p]

\* No process becomes an orphan, nor does a record come to speak of one.
NoNewOrphan ==
    boot' = boot /\ \A p \in Pids : holder'[p] = Orphan => holder[p] = Orphan /\ uses'[p] = uses[p]

\* So no record on file or in a save comes to be about an orphan.
LEMMA NoneComesToLife ==
    ASSUME TypeOK, NoNewOrphan, NEW r \in Record PROVE Living(r)' => Living(r)
BY DEF NoNewOrphan, Living, Record

\* The records there are.
LEMMA RecordTypes ==
    ASSUME TypeOK
    PROVE  /\ Children \subseteq Record
           /\ \A d \in Daemons : orphans[d] \subseteq Record /\ save[d].recs \subseteq Record
BY DEF TypeOK, Children

\* What was known of a bystander still is.
LEMMA BystanderKeeps ==
    ASSUME TypeOK, NEW e \in Daemons, ProgramOK(e), Kept(e), Bystander(e)
    PROVE  Kept(e)'
<1>1. NoNewOrphan
  BY DEF Bystander, NoNewOrphan
<1>2. \A r \in Record : Living(r)' => Living(r)
  BY <1>1, NoneComesToLife
<1>3. Children' = Children
  BY DEF Bystander, Children
<1>4. NothingOverlooked(e)'
  BY <1>2, <1>3, RecordTypes DEF Kept, NothingOverlooked, Bystander
<1>5. NoneTakenOver(e)'
  BY <1>1, <1>2, RecordTypes DEF Kept, NoneTakenOver, Bystander, NoNewOrphan
<1>6. OnItsWay(e)'
  <2>1. prog[e].state = "RUNNING" => prog[e].child \in Pids
    BY Types DEF ProgramOK, Recorded, ProgramTypes
  <2>2. \A q \in Pids : holder'[q] = e => holder[q] = e /\ RecordOf(q)' = RecordOf(q)
    BY DEF Bystander, RecordOf, Holder
  <2>3. CASE prog[e].state = "RUNNING" /\ holder'[prog[e].child] = e
    <3>1. RecordOf(prog[e].child)' = RecordOf(prog[e].child) /\ holder[prog[e].child] = e
      BY <2>1, <2>2, <2>3 DEF Bystander, RecordOf, Holder
    <3> QED BY <1>3, <3>1 DEF Kept, OnItsWay, Bystander
  <2>4. CASE ~(prog[e].state = "RUNNING" /\ holder'[prog[e].child] = e)
    BY <2>4 DEF OnItsWay, Bystander
  <2> QED BY <2>3, <2>4
<1> QED BY <1>4, <1>5, <1>6 DEF Kept

\* Nothing is claimed of a daemon anywhere else.
LEMMA OutsideKeeps ==
    ASSUME NEW e \in Daemons, pc'[e] \notin Reaping \cup Reaped PROVE Kept(e)'
BY DEF Kept, NothingOverlooked, NoneTakenOver, OnItsWay, Reaped

\* While one daemon holds the directory the others are outside.
LEMMA OthersOutside ==
    ASSUME LockInv, Alone, NEW d \in Daemons, pc[d] \in Holding,
           NEW e \in Daemons, e # d, pc'[e] = pc[e]
    PROVE  Kept(e)'
<1>1. pc[e] \notin Holding
  BY LockHolds DEF OneDaemon, LockKeepsOneDaemon, Alone
<1>2. pc'[e] \notin Reaping \cup Reaped
  BY <1>1 DEF Holding, Starting, Ending, Reaping, Reaped
<1> QED BY <1>2, OutsideKeeps

\* Before it serves, a daemon has neither a program nor anything to save.
LEMMA NotYetServing ==
    ASSUME NEW d \in Daemons, ProgramOK(d)', NothingOverlooked(d)',
           pc'[d] \in Reaping \cup {"clearing", "binding"}
    PROVE  Kept(d)'
<1>1. /\ prog'[d].pid = None /\ prog'[d].child = None /\ save'[d].pid = None
      /\ save'[d].recs = {}
  BY DEF ProgramOK, Up, Saving, Reaping, Idle
<1>2. NoneTakenOver(d)'
  BY <1>1 DEF NoneTakenOver
<1>3. OnItsWay(d)'
  BY DEF OnItsWay, Reaping
<1> QED BY <1>2, <1>3 DEF Kept

\* reapOrphans: what is identified is all that is left on file, and the file
\* is cleared when none of it answers any more (state.go:140-190).
LEMMA ReapOrphansKeeps ==
    ASSUME TypeOK, RecordInv, NEW d \in Daemons, Kept(d), ProgramOK(d)', ReapOrphans(d)
    PROVE  Kept(d)'
<1> USE DEF GoTo
<1>1. /\ pc \in [Daemons -> {"down", "opened", "closing", "exiting"} \cup Holding]
      /\ orphans \in [Daemons -> SUBSET Record]
      /\ holder \in [Pids -> Daemons \cup {Free, Orphan, Stranger}]
  BY Types
<1>2. Children \subseteq Record /\ \A r \in Record : r.pid \in Pids
  BY RecordTypes DEF Record
<1>3. CASE ReadState(d)
  <2>1. Children' = Children /\ \A r \in Children : Living(r)' = Living(r)
    BY <1>3 DEF ReadState, Children, Living, fileVars, procVars, histVars
  <2>2. CASE Children = {}
    <3>1. NothingOverlooked(d)' /\ pc'[d] = "binding"
      BY <1>1, <1>3, <2>1, <2>2 DEF ReadState, NothingOverlooked
    <3> QED BY <3>1, NotYetServing
  <2>3. CASE Children # {} /\ FromThisBoot
    <3>1. pc'[d] = "identifying" /\ orphans'[d] = Children
      BY <1>1, <1>3, <2>3 DEF ReadState
    <3>2. NothingOverlooked(d)'
      BY <2>1, <3>1 DEF NothingOverlooked, Reaped
    <3> QED BY <3>1, <3>2, NotYetServing DEF Reaping
  <2>4. CASE Children # {} /\ ~FromThisBoot
    <3>1. pc'[d] = "clearing"
      BY <1>1, <1>3, <2>4 DEF ReadState
    <3>2. \A r \in Children : ~Living(r)
      BY <2>4 DEF RecordInv, Truthful, Children, FromThisBoot, Living
    <3>3. NothingOverlooked(d)'
      BY <2>1, <3>1, <3>2 DEF NothingOverlooked, Reaping
    <3> QED BY <3>1, <3>3, NotYetServing
  <2> QED BY <2>2, <2>3, <2>4
<1>4. CASE Identify(d)
  <2>1. Children' = Children /\ \A r \in Children : Living(r)' = Living(r)
    BY <1>4 DEF Identify, Children, Living, fileVars, procVars, histVars
  <2>2. ASSUME NEW r \in Children, Living(r) PROVE r \in Identified(orphans[d])
    <3>1. r \in orphans[d]
      BY <1>4, <2>2 DEF Identify, Kept, NothingOverlooked, Reaping
    <3>2. r.token = r.who.use
      BY <2>2 DEF RecordInv, Truthful, Children
    <3>3. Alive(r.pid) /\ IsSame(r)
      BY <2>2, <3>2 DEF Living, Alive, IsSame
    <3> QED BY <3>1, <3>3 DEF Identified
  <2>3. /\ orphans'[d] = Identified(orphans[d])
        /\ pc'[d] = IF orphans'[d] = {} THEN "clearing" ELSE "terminating"
    BY <1>1, <1>4 DEF Identify
  <2>4. NothingOverlooked(d)'
    BY <2>1, <2>2, <2>3 DEF NothingOverlooked, Reaping, Reaped
  <2> QED BY <2>3, <2>4, NotYetServing DEF Reaping
<1>5. CASE Terminate(d)
  <2>1. /\ Children' = Children /\ \A r \in Children : Living(r)' = Living(r)
        /\ pc[d] = "terminating" /\ pc'[d] = "waiting" /\ orphans' = orphans
    BY <1>1, <1>5 DEF Terminate, AfterTerm, Children, Living, fileVars, procVars, histVars
  <2>2. NothingOverlooked(d)'
    BY <2>1 DEF Kept, NothingOverlooked, Reaping, Reaped
  <2> QED BY <2>1, <2>2, NotYetServing DEF Reaping
<1>6. CASE Wait(d)
  <2>1. /\ Children' = Children /\ \A r \in Children : Living(r)' = Living(r)
        /\ pc[d] = "waiting" /\ orphans' = orphans
        /\ \/ pc'[d] = "clearing" /\ \A r \in orphans[d] : ~Alive(r.pid)
           \/ pc'[d] = "killing"
    BY <1>1, <1>6 DEF Wait, Children, Living, fileVars, procVars, histVars
  <2>2. \A r \in Children : Living(r) => r \in orphans[d] /\ Alive(r.pid)
    BY <2>1 DEF Kept, NothingOverlooked, Reaping, Living, Alive
  <2>3. NothingOverlooked(d)'
    BY <2>1, <2>2 DEF NothingOverlooked, Reaping, Reaped
  <2> QED BY <2>1, <2>3, NotYetServing DEF Reaping
<1>7. CASE Kill(d)
  <2>1. /\ pc[d] = "killing" /\ pc'[d] = "clearing" /\ file' = file /\ boot' = boot /\ uses' = uses
        /\ \A p \in Pids : holder'[p] = IF \E r \in orphans[d] : r.pid = p THEN Free ELSE holder[p]
    BY <1>1, <1>7 DEF Kill, fileVars, histVars
  <2>2. Children' = Children
    BY <2>1 DEF Children
  <2>3. ASSUME NEW r \in Children, Living(r)' PROVE FALSE
    <3>1. holder'[r.pid] = Orphan
      BY <2>3 DEF Living
    <3>2. holder[r.pid] = Orphan /\ r \notin orphans[d]
      BY <1>2, <2>1, <3>1
    <3>3. Living(r)
      BY <2>1, <2>3, <3>2 DEF Living
    <3> QED BY <2>1, <3>2, <3>3 DEF Kept, NothingOverlooked, Reaping
  <2>4. NothingOverlooked(d)'
    BY <2>1, <2>2, <2>3 DEF NothingOverlooked, Reaping
  <2> QED BY <2>1, <2>4, NotYetServing
<1>8. CASE ClearOrphans(d)
  <2>1. pc'[d] = "binding" /\ Children' = {}
    BY <1>1, <1>8 DEF ClearOrphans, Children
  <2>2. NothingOverlooked(d)'
    BY <2>1 DEF NothingOverlooked, Reaping
  <2> QED BY <2>1, <2>2, NotYetServing
<1> QED BY <1>3, <1>4, <1>5, <1>6, <1>7, <1>8 DEF ReapOrphans

\* The program's steps: no PID of its own was an orphan's.
LEMMA ProgramKeeps ==
    ASSUME TypeOK, NEW d \in Daemons, ProgramOK(d), Kept(d), Program(d)
    PROVE  Kept(d)' /\ pc[d] \in Holding /\ pc' = pc
<1>1. /\ prog \in ProgramTypes /\ dirty \in [Daemons -> BOOLEAN]
      /\ holder \in [Pids -> Daemons \cup {Free, Orphan, Stranger}]
      /\ None \notin Pids
  BY Types
<1>2. pc[d] \in Up /\ pc' = pc /\ UNCHANGED <<file, orphans, save, boot>>
  <2>1. pc[d] \in Up
    BY DEF ProgramOK, Program, StartProgram, Spawn, SpawnFails, RecordRun, Promote, ChildExits, Settle,
           Up, Recorded
  <2>2. pc' = pc /\ UNCHANGED <<file, orphans, save, boot>>
    BY DEF Program, StartProgram, Spawn, SpawnFails, RecordRun, Promote, ChildExits, Settle,
           fileVars, histVars
  <2> QED BY <2>1, <2>2
<1>3. Children' = Children
  BY <1>2 DEF Children
<1>4. /\ \A r \in Children : ~Living(r)
      /\ \A p \in Pids : p \in {prog[d].pid, prog[d].child, save[d].pid} => holder[p] # Orphan
      /\ \A r \in save[d].recs : ~Living(r)
  BY <1>2 DEF Kept, NothingOverlooked, NoneTakenOver, Up, Reaped
<1>5. NoNewOrphan
  <2>1. CASE Spawn(d)
    BY <1>1, <1>2, <2>1 DEF Spawn, NoNewOrphan
  <2>2. CASE ChildExits(d)
    BY <1>1, <1>2, <2>2 DEF ChildExits, NoNewOrphan
  <2>3. CASE UNCHANGED <<holder, uses>>
    BY <1>2, <2>3 DEF NoNewOrphan
  <2> QED BY <2>1, <2>2, <2>3 DEF Program, StartProgram, SpawnFails, RecordRun, Promote, Settle
<1>6. \A r \in Record : ~Living(r) => ~Living(r)'
  BY <1>5, NoneComesToLife
<1>7. NothingOverlooked(d)'
  BY <1>2, <1>3, <1>4, <1>6, RecordTypes DEF NothingOverlooked, Up, Reaping
<1>8. \A p \in Pids : p \in {prog'[d].pid, prog'[d].child, save'[d].pid} => holder'[p] # Orphan
  <2>1. CASE Spawn(d)
    BY <1>1, <1>2, <1>4, <1>5, <2>1 DEF Spawn, NoNewOrphan, ProgramTypes
  <2>2. CASE ~Spawn(d)
    <3>1. prog'[d].pid \in {prog[d].pid, prog[d].child} /\ prog'[d].child \in {prog[d].child, None}
      BY <1>1, <2>2
      DEF Program, StartProgram, SpawnFails, RecordRun, Promote, ChildExits, Settle, Publish, ProgramTypes
    <3> QED BY <1>1, <1>2, <1>4, <1>5, <3>1 DEF NoNewOrphan
  <2> QED BY <2>1, <2>2
<1>9. NoneTakenOver(d)'
  BY <1>2, <1>4, <1>6, <1>8, RecordTypes DEF NoneTakenOver
<1>10. OnItsWay(d)'
  <2>1. CASE StartProgram(d) \/ SpawnFails(d) \/ Promote(d) \/ Settle(d)
    <3> dirty'[d]
      BY <1>1, <2>1 DEF StartProgram, SpawnFails, Promote, Settle, Publish
    <3> QED BY DEF OnItsWay
  <2>2. CASE Spawn(d) \/ RecordRun(d)
    <3> prog'[d].state # "RUNNING"
      BY <1>1, <2>2 DEF Spawn, RecordRun, ProgramOK, Recorded, ProgramTypes
    <3> QED BY DEF OnItsWay
  <2>3. CASE ChildExits(d)
    <3> holder'[prog'[d].child] # d
      BY <1>1, <2>3 DEF ChildExits, ProgramTypes
    <3> QED BY DEF OnItsWay
  <2> QED BY <2>1, <2>2, <2>3 DEF Program
<1> QED BY <1>2, <1>7, <1>9, <1>10 DEF Kept, Up, Holding, Ending

\* The saver's steps: what it looks up is no orphan's, and comes to the file.
LEMMA SaveKeeps ==
    ASSUME TypeOK, NEW d \in Daemons, ProgramOK(d), Kept(d), SaveState(d), Alone'
    PROVE  /\ Kept(d)' /\ pc' = pc
           /\ SaveWrites(d) => pc[d] \in {"serving", "ending", "clean"}
<1>1. /\ save \in SaveTypes /\ dirty \in [Daemons -> BOOLEAN] /\ prog \in ProgramTypes
      /\ None \notin Pids
      /\ holder \in [Pids -> Daemons \cup {Free, Orphan, Stranger}]
  BY Types
<1>2. UNCHANGED <<pc, prog, holder, uses, boot, orphans>>
  BY DEF SaveState, SaveReads, SaveLooksUp, SaveWrites, procVars, histVars
<1>3. pc[d] \in Saving
  BY DEF ProgramOK, SaveState, SaveReads, SaveLooksUp, SaveWrites, Idle
<1>4. \A r \in Record : Living(r)' = Living(r)
  BY <1>2 DEF Living
<1>5. pc[d] \in Reaped =>
          /\ \A r \in Children : ~Living(r)
          /\ \A p \in Pids : p \in {prog[d].pid, prog[d].child, save[d].pid} => holder[p] # Orphan
          /\ \A r \in save[d].recs : ~Living(r)
  BY DEF Kept, NothingOverlooked, NoneTakenOver
<1>6. prog[d].state = "RUNNING" => prog[d].child \in Pids /\ prog[d].pid = prog[d].child
  BY <1>1 DEF ProgramOK, Recorded, ProgramTypes
<1>7. RecordOf(prog[d].child)' = RecordOf(prog[d].child)
  BY <1>2 DEF RecordOf, Holder
<1>8. CASE SaveReads(d)
  <2>1. /\ save'[d].at = "token" /\ save'[d].pid = prog[d].pid /\ save'[d].recs = {}
        /\ file' = file
    BY <1>1, <1>8 DEF SaveReads, SaveTypes, fileVars
  <2>2. Children' = Children
    BY <2>1 DEF Children
  <2>3. NothingOverlooked(d)'
    BY <1>2, <1>3, <1>4, <1>5, <2>2, RecordTypes DEF NothingOverlooked, Reaping, Saving, Up
  <2>4. NoneTakenOver(d)'
    BY <1>2, <1>5, <2>1 DEF NoneTakenOver
  <2>5. OnItsWay(d)'
    BY <1>2, <1>6, <2>1 DEF OnItsWay
  <2> QED BY <1>2, <1>8, <2>1, <2>3, <2>4, <2>5 DEF Kept, SaveReads, SaveWrites
<1>9. CASE SaveLooksUp(d)
  <2>1. /\ save[d].at = "token" /\ save'[d].at = "write" /\ save'[d].pid = save[d].pid
        /\ save'[d].recs = Records(d, save[d].pid)
        /\ file' = file /\ dirty' = dirty
    BY <1>1, <1>9 DEF SaveLooksUp, SaveTypes, fileVars
  <2>2. Children' = Children
    BY <2>1 DEF Children
  <2>3. NothingOverlooked(d)'
    BY <1>2, <1>3, <1>4, <1>5, <2>2, RecordTypes DEF NothingOverlooked, Reaping, Saving, Up
  <2>4. ASSUME NEW r \in save'[d].recs, pc[d] \in Reaped PROVE ~Living(r)'
    <3>1. r.pid = save[d].pid /\ save[d].pid # None
      BY <2>1, <2>4 DEF Records
    <3>2. save[d].pid \in Pids
      BY <1>1, <3>1 DEF SaveTypes
    <3>3. holder[r.pid] # Orphan
      BY <1>5, <2>4, <3>1, <3>2
    <3> QED BY <1>2, <3>3 DEF Living
  <2>5. NoneTakenOver(d)'
    BY <1>2, <1>5, <2>1, <2>4 DEF NoneTakenOver
  <2>6. OnItsWay(d)'
    <3>1. CASE pc[d] = "serving" /\ ~dirty[d] /\ prog[d].state = "RUNNING" /\ holder[prog[d].child] = d
      <4>1. save[d].pid = prog[d].child
        BY <2>1, <3>1 DEF Kept, OnItsWay
      <4>2. Alive(save[d].pid) /\ save[d].pid # None
        BY <1>1, <1>6, <3>1, <4>1 DEF Alive
      <4>3. RecordOf(prog[d].child) \in save'[d].recs
        BY <2>1, <3>1, <4>1, <4>2 DEF Records, RecordOf
      <4> QED BY <1>2, <1>7, <2>1, <4>3 DEF OnItsWay
    <3>2. CASE ~(/\ pc[d] = "serving" /\ ~dirty[d]
                 /\ prog[d].state = "RUNNING" /\ holder[prog[d].child] = d)
      BY <1>2, <2>1, <3>2 DEF OnItsWay
    <3> QED BY <3>1, <3>2
  <2> QED BY <1>2, <2>1, <2>3, <2>5, <2>6 DEF Kept, SaveWrites
<1>10. CASE SaveWrites(d)
  <2>1. /\ save[d].at = "write" /\ save'[d] = Idle /\ dirty' = dirty
        /\ file' = [boot |-> boot, children |-> save[d].recs]
        /\ late' = (late \/ pc[d] \in {"checking", "unlinking", "closing", "exiting"})
    BY <1>1, <1>10 DEF SaveWrites, SaveTypes
  <2>2. pc[d] \in {"serving", "ending", "clean"}
    BY <1>3, <2>1 DEF Alone, Saving, Up
  <2>3. Children' = save[d].recs
    <3>1. file' \in StateFile
      BY <2>1 DEF TypeOK
    <3> QED BY <2>1, <3>1, NoFileAssumption DEF Children
  <2>4. NothingOverlooked(d)'
    BY <1>2, <1>4, <1>5, <2>2, <2>3, RecordTypes DEF NothingOverlooked, Reaping, Reaped
  <2>5. NoneTakenOver(d)'
    BY <1>1, <1>2, <1>5, <2>1 DEF NoneTakenOver, Idle
  <2>6. OnItsWay(d)'
    BY <1>2, <1>7, <2>1, <2>3 DEF Kept, OnItsWay, Idle
  <2> QED BY <1>2, <2>2, <2>4, <2>5, <2>6 DEF Kept
<1> QED BY <1>8, <1>9, <1>10 DEF SaveState

\* What a daemon does outside Program and SaveState, and what befalls it.
LEMMA RestKeeps ==
    ASSUME TypeOK, LockInv, Programs, Alone, NEW d \in Daemons, Kept(d), ProgramOK(d)',
           \/ OpenPidFile(d) \/ Flock(d) \/ LockFails(d) \/ Listen(d)
           \/ BeginStop(d) \/ Stopped(d) \/ ClearState(d) \/ CheckPath(d) \/ Unlink(d) \/ CloseFile(d)
           \/ Exit(d) \/ Crash(d)
    PROVE  Kept(d)'
<1> USE DEF GoTo
<1>1. /\ pc \in [Daemons -> {"down", "opened", "closing", "exiting"} \cup Holding]
      /\ save \in SaveTypes /\ None \notin Pids
  BY Types
<1>2. CASE \/ OpenPidFile(d) \/ Flock(d) \/ LockFails(d) \/ ClearState(d) \/ CheckPath(d)
           \/ Unlink(d) \/ CloseFile(d) \/ Exit(d) \/ Crash(d)
  <2>1. pc'[d] \in {"down", "opened", "reading", "checking", "unlinking", "closing", "exiting"}
    BY <1>1, <1>2
    DEF OpenPidFile, Flock, LockFails, ClearState, CheckPath, Unlink, CloseFile, Exit, Crash, Ended
  <2> QED BY <2>1, OutsideKeeps DEF Reaping, Reaped
<1>3. CASE Listen(d) \/ BeginStop(d) \/ Stopped(d)
  <2>1. /\ UNCHANGED <<prog, save, dirty, file, boot, holder, uses>>
        /\ pc[d] \in {"binding", "serving", "ending"}
        /\ pc'[d] \in {"serving", "checking", "ending", "clean"}
        /\ pc'[d] = "serving" => pc[d] = "binding"
    BY <1>1, <1>3 DEF Listen, BeginStop, Stopped, fileVars, procVars, histVars
  <2>2. Children' = Children /\ \A r \in Record : Living(r)' = Living(r)
    BY <2>1 DEF Children, Living
  <2>3. NothingOverlooked(d)' /\ NoneTakenOver(d)'
    BY <2>1, <2>2, RecordTypes DEF Kept, NothingOverlooked, NoneTakenOver, Reaping, Reaped
  <2>4. pc'[d] = "serving" => prog'[d].state = "STOPPED"
    BY <2>1 DEF Programs, ProgramOK, Up
  <2>5. OnItsWay(d)'
    BY <2>4 DEF OnItsWay
  <2> QED BY <2>3, <2>5 DEF Kept
<1> QED BY <1>2, <1>3

\* And what that is to the other daemons.
LEMMA RestToOthers ==
    ASSUME TypeOK, LockInv, Programs, Alone, NEW d \in Daemons,
           \/ OpenPidFile(d) \/ Flock(d) \/ LockFails(d) \/ ReapOrphans(d) \/ Listen(d)
           \/ BeginStop(d) \/ Stopped(d) \/ ClearState(d) \/ CheckPath(d) \/ Unlink(d) \/ CloseFile(d)
           \/ Exit(d) \/ Crash(d),
           NEW e \in Daemons, e # d, Kept(e)
    PROVE  Kept(e)'
<1> USE DEF GoTo
<1>1. pc \in [Daemons -> {"down", "opened", "closing", "exiting"} \cup Holding]
  BY Types
<1>2. pc'[e] = pc[e]
  <2>1. CASE OpenPidFile(d) \/ Flock(d) \/ LockFails(d) \/ Listen(d) \/ Exit(d) \/ Crash(d)
    BY <1>1, <2>1 DEF OpenPidFile, Flock, LockFails, Listen, Exit, Crash, Ended
  <2>2. CASE ReapOrphans(d)
    BY <1>1, <2>2 DEF ReapOrphans, ReadState, Identify, Terminate, Wait, Kill, ClearOrphans
  <2>3. CASE BeginStop(d) \/ Stopped(d) \/ ClearState(d) \/ CheckPath(d) \/ Unlink(d) \/ CloseFile(d)
    BY <1>1, <2>3 DEF BeginStop, Stopped, ClearState, CheckPath, Unlink, CloseFile
  <2> QED BY <2>1, <2>2, <2>3
<1>3. CASE pc[d] \in Holding
  BY <1>2, <1>3, OthersOutside
<1>4. CASE pc[d] \notin Holding
  <2>1. OpenPidFile(d) \/ Flock(d) \/ LockFails(d) \/ CloseFile(d) \/ Exit(d) \/ Crash(d)
    BY <1>4
    DEF ReapOrphans, ReadState, Identify, Terminate, Wait, Kill, ClearOrphans, Listen,
        BeginStop, Stopped, ClearState, CheckPath, Unlink, Holding, Starting, Ending
  <2>2. /\ prog \in ProgramTypes /\ save \in SaveTypes /\ dirty \in [Daemons -> BOOLEAN]
        /\ orphans \in [Daemons -> SUBSET Record]
        /\ holder \in [Pids -> Daemons \cup {Free, Orphan, Stranger}]
    BY Types
  <2>3. \A p \in Pids : holder[p] # d
    <3>1. pc[d] \notin Up
      BY <1>4 DEF Up, Holding, Ending
    <3>2. prog[d].child = None
      BY <3>1 DEF Programs, ProgramOK
    <3> QED BY <3>2 DEF Programs, ProgramOK
  <2>4. /\ prog'[e] = prog[e] /\ save'[e] = save[e] /\ dirty'[e] = dirty[e]
        /\ orphans'[e] = orphans[e]
    <3>1. CASE OpenPidFile(d) \/ Flock(d) \/ LockFails(d) \/ CloseFile(d)
      <4> UNCHANGED <<prog, save, dirty, orphans>>
        BY <3>1 DEF OpenPidFile, Flock, LockFails, CloseFile, procVars
      <4> QED OBVIOUS
    <3>2. CASE Exit(d) \/ Crash(d)
      <4>1. Ended(d)
        BY <3>2 DEF Exit, Crash
      <4>2. /\ prog' = [prog EXCEPT ![d] = NoProgram] /\ save' = [save EXCEPT ![d] = Idle]
            /\ dirty' = [dirty EXCEPT ![d] = FALSE] /\ orphans' = [orphans EXCEPT ![d] = {}]
        BY <4>1 DEF Ended
      <4>3. DOMAIN prog = Daemons /\ DOMAIN save = Daemons
        BY <2>2 DEF ProgramTypes, SaveTypes
      <4>4. prog'[e] = prog[e] /\ save'[e] = save[e]
        BY <4>2, <4>3
      <4>5. dirty'[e] = dirty[e] /\ orphans'[e] = orphans[e]
        BY <4>2, <2>2
      <4> QED BY <4>4, <4>5
    <3> QED BY <2>1, <3>1, <3>2
  <2>5. file' = file /\ boot' = boot /\ uses' = uses
    BY <2>1
    DEF OpenPidFile, Flock, LockFails, CloseFile, Exit, Crash, procVars, fileVars, histVars
  <2>6. \A p \in Pids : holder'[p] = holder[p]
    BY <2>1, <2>2, <2>3 DEF OpenPidFile, Flock, LockFails, CloseFile, Exit, Crash, procVars
  <2>7. Bystander(e)
    BY <1>2, <2>4, <2>5, <2>6 DEF Bystander
  <2> QED BY <2>7, BystanderKeeps DEF Programs
<1> QED BY <1>3, <1>4

\* The program of one daemon is nothing to the others, and its saver neither,
\* while it saves in time.
LEMMA OwnToOthers ==
    ASSUME TypeOK, LockInv, Programs, Alone, Alone', NEW d \in Daemons, Kept(d),
           Program(d) \/ SaveState(d), NEW e \in Daemons, e # d, Kept(e)
    PROVE  Kept(e)'
<1>1. pc' = pc /\ ProgramOK(d)
  BY ProgramKeeps, SaveKeeps DEF Programs
<1>2. CASE Program(d)
  BY <1>1, <1>2, ProgramKeeps, OthersOutside
<1>3. CASE SaveWrites(d)
  <2>1. pc[d] \in Holding
    BY <1>1, <1>3, SaveKeeps DEF SaveState, Holding, Ending
  <2> QED BY <1>1, <2>1, OthersOutside
<1>4. CASE SaveReads(d) \/ SaveLooksUp(d)
  <2>1. Still(e)
    BY <1>4, OwnSteps DEF SaveState
  <2>2. UNCHANGED <<orphans, file, boot, holder, uses>>
    BY <1>4 DEF SaveReads, SaveLooksUp, procVars, fileVars, histVars
  <2>3. Bystander(e)
    BY <1>1, <2>1, <2>2 DEF Bystander, Still
  <2> QED BY <2>3, BystanderKeeps DEF Programs
<1> QED BY <1>2, <1>3, <1>4 DEF SaveState

\* The two auxiliary variables are never taken back.
LEMMA AloneBefore == ASSUME TypeOK, [Next]_vars, Alone' PROVE Alone
<1> USE DEF Alone, TypeOK
<1>1. ASSUME NEW d \in Daemons, OpenPidFile(d) \/ Flock(d) \/ LockFails(d) \/ Listen(d) PROVE Alone
  BY <1>1 DEF OpenPidFile, Flock, LockFails, Listen, lockVars, fileVars
<1>2. ASSUME NEW d \in Daemons, ReapOrphans(d) PROVE Alone
  BY <1>2 DEF ReapOrphans, ReadState, Identify, Terminate, Wait, Kill, ClearOrphans, lockVars, fileVars
<1>3. ASSUME NEW d \in Daemons, Program(d) PROVE Alone
  BY <1>3
  DEF Program, StartProgram, Spawn, SpawnFails, RecordRun, Promote, ChildExits, Settle,
      lockVars, fileVars
<1>4. ASSUME NEW d \in Daemons, SaveState(d) PROVE Alone
  BY <1>4 DEF SaveState, SaveReads, SaveLooksUp, SaveWrites, lockVars, fileVars
<1>5. ASSUME NEW d \in Daemons, Stop(d) \/ Crash(d) PROVE Alone
  BY <1>5
  DEF Stop, BeginStop, Stopped, ClearState, CheckPath, Unlink, CloseFile, Exit, Crash, lockVars, fileVars
<1>6. ASSUME NEW p \in Pids, StrangerStarts(p) \/ OtherEnds(p) PROVE Alone
  BY <1>6 DEF StrangerStarts, OtherEnds, lockVars, fileVars
<1>7. CASE Reboot \/ UNCHANGED vars
  BY <1>7 DEF Reboot, fileVars, vars
<1> QED BY <1>1, <1>2, <1>3, <1>4, <1>5, <1>6, <1>7 DEF Next

\* The inductive invariant.
KeptInv ==
    /\ TypeOK /\ LockInv /\ RecordInv /\ Programs
    /\ Alone => \A d \in Daemons : Kept(d)

\* Every step keeps it: one case for the daemon that takes it, one for the others.
LEMMA KeptStep == KeptInv /\ [Next]_vars => KeptInv'
<1> SUFFICES ASSUME KeptInv, [Next]_vars PROVE KeptInv'
  OBVIOUS
<1>1. TypeOK /\ LockInv /\ RecordInv /\ Programs
  BY DEF KeptInv
<1>2. TypeOK' /\ LockInv' /\ RecordInv' /\ Programs'
  BY <1>1, TypeStep, LockStep, RecordStep, ProgramsStep
<1>3. ASSUME Alone', NEW e \in Daemons PROVE Kept(e)'
  <2>1. Alone /\ \A d \in Daemons : Kept(d) /\ ProgramOK(d) /\ ProgramOK(d)'
    BY <1>1, <1>2, <1>3, AloneBefore DEF KeptInv, Programs
  <2>2. CASE UNCHANGED vars
    <3> Bystander(e)
      BY <2>2 DEF vars, Bystander
    <3> QED BY <1>1, <2>1, BystanderKeeps
  <2>3. ASSUME NEW d \in Daemons,
               \/ OpenPidFile(d) \/ Flock(d) \/ LockFails(d) \/ ReapOrphans(d) \/ Listen(d)
               \/ BeginStop(d) \/ Stopped(d) \/ ClearState(d) \/ CheckPath(d) \/ Unlink(d) \/ CloseFile(d)
               \/ Exit(d) \/ Crash(d)
        PROVE  Kept(e)'
    <3>1. CASE e = d
      BY <1>1, <2>1, <2>3, <3>1, ReapOrphansKeeps, RestKeeps
    <3>2. CASE e # d
      BY <1>1, <2>1, <2>3, <3>2, RestToOthers
    <3> QED BY <3>1, <3>2
  <2>4. ASSUME NEW d \in Daemons, Program(d) \/ SaveState(d) PROVE Kept(e)'
    <3>1. CASE e = d
      BY <1>1, <1>3, <2>1, <2>4, <3>1, ProgramKeeps, SaveKeeps
    <3>2. CASE e # d
      BY <1>1, <1>3, <2>1, <2>4, <3>2, OwnToOthers
    <3> QED BY <3>1, <3>2
  <2>5. ASSUME NEW p \in Pids, StrangerStarts(p) \/ OtherEnds(p) PROVE Kept(e)'
    <3>1. UNCHANGED <<pc, prog, file, boot, orphans, dirty, save>>
      BY <2>5 DEF StrangerStarts, OtherEnds, fileVars, histVars
    <3>2. /\ holder \in [Pids -> Daemons \cup {Free, Orphan, Stranger}]
          /\ uses \in [Pids -> 0 .. MaxUses]
      BY <1>1 DEF TypeOK
    <3>3. \/ /\ holder[p] = Free /\ holder' = [holder EXCEPT ![p] = Stranger]
             /\ uses' = [uses EXCEPT ![p] = @ + 1]
          \/ /\ holder[p] \in {Stranger, Orphan} /\ holder' = [holder EXCEPT ![p] = Free]
             /\ uses' = uses
      BY <2>5 DEF StrangerStarts, OtherEnds
    <3>4. Bystander(e)
      BY <3>1, <3>2, <3>3 DEF Bystander
    <3> QED BY <1>1, <2>1, <3>4, BystanderKeeps
  <2>6. CASE Reboot
    <3> pc'[e] = "down"
      BY <2>6 DEF Reboot
    <3> QED BY OutsideKeeps DEF Reaping, Reaped
  <2> QED BY <2>2, <2>3, <2>4, <2>5, <2>6 DEF Next, Stop
<1> QED BY <1>2, <1>3 DEF KeptInv

\* So it holds in every behaviour.
LEMMA KeptInvariant == Spec => []KeptInv
<1>1. Init => RecordInv /\ Programs
  BY DEF Init, RecordInv, Truthful, Idle, Programs, ProgramOK, NoProgram, Saving, Up
<1>2. Init => \A d \in Daemons : Kept(d)
  BY DEF Init, Kept, NothingOverlooked, NoneTakenOver, OnItsWay, Reaping, Reaped
<1>3. Init /\ TypeOK /\ LockInv => KeptInv
  BY <1>1, <1>2 DEF KeptInv
<1> QED BY <1>3, DaemonTypeOK, LockInvariant, KeptStep, PTL DEF Spec

\* No program runs twice: nothing that a killed daemon left running and on
\* file is alive by the time the next one serves, through any number of
\* crashes and reboots on the way there (README.md:507-509).
THEOREM DaemonOrphansEndFirst == Spec => []OrphansEndFirst
<1>1. KeptInv => OrphansEndFirst
  BY DEF KeptInv, OrphansEndFirst, Kept, NothingOverlooked, Reaped
<1> QED BY <1>1, KeptInvariant, PTL

\* A program that runs is on file as the process it is whenever the saver is at
\* rest: a change that comes during a save is not lost (state.go:121-135).
THEOREM DaemonRunningIsRecorded == Spec => []RunningIsRecorded
<1>1. KeptInv => RunningIsRecorded
  BY DEF KeptInv, RunningIsRecorded, Kept, OnItsWay, RecordOf
<1> QED BY <1>1, KeptInvariant, PTL

\* The file is only rewritten or removed when no orphan that is on it is left,
\* whoever is killed while it deals with them (state.go:182-183).
THEOREM DaemonOrphansAreNotForgotten == Spec => OrphansAreNotForgotten
<1> DEFINE Remembers == Alone' => \A r \in Children : Living(r) => r \in Children' \/ ~Living(r)'
<1>1. KeptInv /\ [Next]_vars => [Remembers]_vars
  <2> SUFFICES ASSUME KeptInv, Next, Alone', NEW r \in Children, Living(r) PROVE r \in Children'
    OBVIOUS
  <2>1. TypeOK /\ Alone /\ \A d \in Daemons : Kept(d) /\ ProgramOK(d)
    BY AloneBefore DEF KeptInv, Programs
  <2>2. \A d \in Daemons : pc[d] \notin Reaped
    BY <2>1 DEF Kept, NothingOverlooked
  <2>3. ASSUME NEW d \in Daemons, ClearOrphans(d) \/ ClearState(d) \/ SaveWrites(d) PROVE FALSE
    BY <2>1, <2>2, <2>3, SaveKeeps DEF ClearOrphans, ClearState, SaveState, Reaped
  <2>4. ASSUME file' = file PROVE r \in Children'
    BY <2>4 DEF Children
  <2>5. ASSUME NEW d \in Daemons,
               OpenPidFile(d) \/ Flock(d) \/ LockFails(d) \/ ReapOrphans(d) \/ Listen(d)
        PROVE  r \in Children'
    BY <2>3, <2>4, <2>5
    DEF OpenPidFile, Flock, LockFails, ReapOrphans, ReadState, Identify, Terminate, Wait, Kill,
        Listen, fileVars
  <2>6. ASSUME NEW d \in Daemons, Program(d) \/ SaveState(d) PROVE r \in Children'
    BY <2>3, <2>4, <2>6
    DEF Program, StartProgram, Spawn, SpawnFails, RecordRun, Promote, ChildExits, Settle,
        SaveState, SaveReads, SaveLooksUp, fileVars
  <2>7. ASSUME NEW d \in Daemons, Stop(d) \/ Crash(d) PROVE r \in Children'
    BY <2>3, <2>4, <2>7
    DEF Stop, BeginStop, Stopped, CheckPath, Unlink, CloseFile, Exit, Crash, fileVars
  <2>8. ASSUME NEW p \in Pids, StrangerStarts(p) \/ OtherEnds(p) PROVE r \in Children'
    BY <2>4, <2>8 DEF StrangerStarts, OtherEnds, fileVars
  <2>9. CASE Reboot
    BY <2>4, <2>9 DEF Reboot, fileVars
  <2> QED BY <2>5, <2>6, <2>7, <2>8, <2>9 DEF Next
<1> QED BY <1>1, KeptInvariant, PTL DEF Spec, OrphansAreNotForgotten
=============================================================================

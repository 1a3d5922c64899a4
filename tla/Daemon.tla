------------------------------- MODULE Daemon -------------------------------
(***************************************************************************)
(* What outlives a daemon: internal/server/pidlock.go, state.go and        *)
(* identity_linux.go, with the parts of Server.Start and Server.Stop that  *)
(* use them.  Daemons come and go over one directory: they are started     *)
(* beside each other, killed between any two steps, and rebooted.          *)
(*                                                                         *)
(* Each runs one program.  A process is known by its boot, its PID and the *)
(* how-manieth holder of that PID in this boot it is; the last is all that *)
(* a start time (processStartToken) tells, and it repeats in other boots.  *)
(***************************************************************************)
EXTENDS Naturals, FiniteSets

CONSTANTS Daemons,    \* the daemons, each started again and again
          Pids,       \* the PIDs the kernel hands out
          Inodes,     \* the files the kernel makes at the PID file's path
          None,       \* no file, no PID
          Free,       \* the holder of a PID nobody uses
          Orphan,     \* a child of a daemon that was killed
          Stranger,   \* a process no daemon has started
          MaxUses,    \* bound: processes on one PID in one boot
          MaxBoots,   \* bound: reboots
          MaxCrashes  \* bound: daemons killed

ASSUME DaemonAssumption ==
    /\ None \notin Inodes \cup Pids
    /\ Daemons \cap {Free, Orphan, Stranger} = {}
    /\ Free # Orphan /\ Free # Stranger /\ Orphan # Stranger
    /\ MaxUses \in Nat /\ MaxBoots \in Nat /\ MaxCrashes \in Nat

VARIABLES
    path,     \* the file at the PID file's path
    fd,       \* [Daemons -> the file the daemon has open]
    pc,       \* [Daemons -> where Server.Start or Server.Stop is]
    holder,   \* [Pids -> whose process the PID is]
    uses,     \* [Pids -> processes that have had it in this boot]
    boot,     \* the boot that is running
    file,     \* the state file: None, or a processState
    orphans,  \* [Daemons -> the records reapOrphans is at]
    prog,     \* [Daemons -> the Process of its program]
    dirty,    \* [Daemons -> stateDirty holds a token]
    save,     \* [Daemons -> where saveState is]
    crashes,  \* how many daemons have been killed (auxiliary)
    overlap,  \* a lock was taken on a file no longer at the path (auxiliary)
    late      \* the file was saved after Stop had cleared it (auxiliary)

lockVars == <<path, fd, overlap>>
procVars == <<holder, uses, prog>>
fileVars == <<file, late>>
histVars == <<boot, crashes>>
vars == <<path, fd, pc, holder, uses, boot, file, orphans, prog, dirty, save, crashes, overlap, late>>

\* "who" is not in the file: the process that was recorded.
Record == [pid : Pids, token : 0 .. MaxUses,
           who : [boot : 0 .. MaxBoots, use : 0 .. MaxUses, ours : BOOLEAN]]
\* A processState.
StateFile == [boot : 0 .. MaxBoots, children : SUBSET Record]
ASSUME NoFileAssumption == None \notin StateFile

Starting == {"reading", "identifying", "terminating", "waiting", "killing", "clearing", "binding"}
Ending   == {"ending", "clean", "checking", "unlinking"}
\* Those that take themselves for the one daemon of this directory.
Holding  == Starting \cup {"serving"} \cup Ending

TypeOK ==
    /\ path \in Inodes \cup {None}
    /\ fd \in [Daemons -> Inodes \cup {None}]
    /\ pc \in [Daemons -> {"down", "opened", "closing", "exiting"} \cup Holding]
    /\ \A d \in Daemons : fd[d] = None <=> pc[d] \in {"down", "exiting"}
    /\ holder \in [Pids -> Daemons \cup {Free, Orphan, Stranger}]
    /\ uses \in [Pids -> 0 .. MaxUses]
    /\ boot \in 0 .. MaxBoots /\ crashes \in 0 .. MaxCrashes
    /\ file \in StateFile \cup {None}
    /\ orphans \in [Daemons -> SUBSET Record]
    /\ prog \in [Daemons -> [state : {"STOPPED", "STARTING", "RUNNING"},
                             child : Pids \cup {None}, pid : Pids \cup {None}]]
    /\ dirty \in [Daemons -> BOOLEAN]
    /\ save \in [Daemons -> [at : {"idle", "token", "write"}, pid : Pids \cup {None}, recs : SUBSET Record]]
    /\ overlap \in BOOLEAN /\ late \in BOOLEAN

NoProgram == [state |-> "STOPPED", child |-> None, pid |-> None]
Idle == [at |-> "idle", pid |-> None, recs |-> {}]

Init ==
    /\ path = None /\ fd = [d \in Daemons |-> None]
    /\ pc = [d \in Daemons |-> "down"]
    /\ holder = [p \in Pids |-> Free] /\ uses = [p \in Pids |-> 0]
    /\ boot = 0 /\ file = None /\ crashes = 0 /\ overlap = FALSE /\ late = FALSE
    /\ orphans = [d \in Daemons |-> {}]
    /\ prog = [d \in Daemons |-> NoProgram]
    /\ dirty = [d \in Daemons |-> FALSE]
    /\ save = [d \in Daemons |-> Idle]

GoTo(d, to) == pc' = [pc EXCEPT ![d] = to]

-----------------------------------------------------------------------------
(* The PID file. *)

\* OpenFile(O_RDWR|O_CREATE): the file that is there, or a new one.
OpenPidFile(d) ==
    /\ pc[d] = "down"
    /\ \E i \in Inodes :
         /\ IF path = None THEN \A e \in Daemons : fd[e] # i ELSE i = path
         /\ path' = i /\ fd' = [fd EXCEPT ![d] = i]
    /\ GoTo(d, "opened")
    /\ UNCHANGED <<procVars, fileVars, histVars, orphans, dirty, save, overlap>>

\* The kernel's lock is on the file, whatever path it had.
Locks(d, i) == fd[d] = i /\ pc[d] \in Holding \cup {"closing"}
Lockable(i) == \A e \in Daemons : ~Locks(e, i)

Flock(d) ==
    /\ pc[d] = "opened" /\ Lockable(fd[d])
    /\ overlap' = (overlap \/ fd[d] # path)
    /\ GoTo(d, "reading")
    /\ UNCHANGED <<path, fd, procVars, fileVars, histVars, orphans, dirty, save>>

\* Mutant: a daemon that is refused removes the PID file.
PathIfRefusedRemoves == None
FdIfRefused(d) == [fd EXCEPT ![d] = None]
\* Refused, or the PID could not be written: the file is closed and kept.
PathIfRefused == path
LockFails(d) ==
    /\ pc[d] = "opened"
    /\ fd' = FdIfRefused(d) /\ path' = PathIfRefused
    /\ GoTo(d, "down")
    /\ UNCHANGED <<procVars, fileVars, histVars, orphans, dirty, save, overlap>>

-----------------------------------------------------------------------------
(* reapOrphans: what a killed daemon has left running. *)

\* The process that has the PID now.
Holder(p) == [boot |-> boot, use |-> uses[p], ours |-> holder[p] \in Daemons \cup {Orphan}]
Alive(p) == holder[p] # Free
Children == IF file = None THEN {} ELSE file.children
\* Mutant: the boot is not compared.
FromAnyBoot == TRUE
FromThisBoot == file.boot = boot
IsSame(rec) == rec.token = uses[rec.pid]
Identified(recs) == {r \in recs : Alive(r.pid) /\ IsSame(r)}

ReadState(d) ==
    /\ pc[d] = "reading"
    /\ \/ Children = {} /\ GoTo(d, "binding") /\ UNCHANGED orphans
       \/ /\ Children # {}
          /\ IF FromThisBoot
             THEN GoTo(d, "identifying") /\ orphans' = [orphans EXCEPT ![d] = Children]
             ELSE GoTo(d, "clearing") /\ UNCHANGED orphans
    /\ UNCHANGED <<lockVars, procVars, fileVars, histVars, dirty, save>>

Identify(d) ==
    /\ pc[d] = "identifying"
    /\ orphans' = [orphans EXCEPT ![d] = Identified(@)]
    /\ GoTo(d, IF Identified(orphans[d]) = {} THEN "clearing" ELSE "terminating")
    /\ UNCHANGED <<lockVars, procVars, fileVars, histVars, dirty, save>>

\* Mutant: the file is cleared as soon as the orphans were asked to end.
AfterTermClears == "clearing"
\* Mutant: the daemon goes on as soon as the orphans were asked to end.
AfterTermServes == "binding"
\* SIGTERM: what it is sent to may end, as any process may.
AfterTerm == "waiting"
Terminate(d) ==
    /\ pc[d] = "terminating" /\ GoTo(d, AfterTerm)
    /\ UNCHANGED <<lockVars, procVars, fileVars, histVars, orphans, dirty, save>>

\* Until no group answers, or for orphanStopTimeout.
Wait(d) ==
    /\ pc[d] = "waiting"
    /\ \/ (\A r \in orphans[d] : ~Alive(r.pid)) /\ GoTo(d, "clearing")
       \/ GoTo(d, "killing")
    /\ UNCHANGED <<lockVars, procVars, fileVars, histVars, orphans, dirty, save>>

Kill(d) ==
    /\ pc[d] = "killing" /\ GoTo(d, "clearing")
    /\ holder' = [p \in Pids |-> IF \E r \in orphans[d] : r.pid = p THEN Free ELSE holder[p]]
    /\ UNCHANGED <<lockVars, uses, prog, fileVars, histVars, orphans, dirty, save>>

ClearOrphans(d) ==
    /\ pc[d] = "clearing" /\ GoTo(d, "binding")
    /\ file' = None /\ orphans' = [orphans EXCEPT ![d] = {}]
    /\ UNCHANGED <<lockVars, procVars, histVars, dirty, save, late>>

\* A socket that cannot be listened on ends the start: releasePIDFile.
Listen(d) ==
    /\ pc[d] = "binding"
    /\ GoTo(d, "serving") \/ GoTo(d, "checking")
    /\ UNCHANGED <<lockVars, procVars, fileVars, histVars, orphans, dirty, save>>

ReapOrphans(d) == ReadState(d) \/ Identify(d) \/ Terminate(d) \/ Wait(d) \/ Kill(d) \/ ClearOrphans(d)

-----------------------------------------------------------------------------
(* The program, as saveState sees it: Start, recordRun, the monitor. *)

\* setState and its callback, markStateDirty, which the same goroutine calls next.
Publish(d, st) == prog' = [prog EXCEPT ![d].state = st] /\ dirty' = [dirty EXCEPT ![d] = TRUE]

\* setState(StateStarting).  p.pid stays what the last run left.
StartProgram(d) ==
    /\ pc[d] = "serving" /\ prog[d].state = "STOPPED" /\ Publish(d, "STARTING")
    /\ UNCHANGED <<lockVars, pc, holder, uses, fileVars, histVars, orphans, save>>

Spawn(d) ==
    /\ prog[d].state = "STARTING" /\ prog[d].child = None
    /\ \E p \in Pids :
         /\ holder[p] = Free /\ uses[p] < MaxUses
         /\ holder' = [holder EXCEPT ![p] = d] /\ uses' = [uses EXCEPT ![p] = @ + 1]
         /\ prog' = [prog EXCEPT ![d].child = p]
    /\ UNCHANGED <<lockVars, pc, fileVars, histVars, orphans, dirty, save>>

SpawnFails(d) ==
    /\ prog[d].state = "STARTING" /\ prog[d].child = None /\ Publish(d, "STOPPED")
    /\ UNCHANGED <<lockVars, pc, holder, uses, fileVars, histVars, orphans, save>>

RecordRun(d) ==
    /\ prog[d].child # None /\ prog[d].pid # prog[d].child
    /\ prog' = [prog EXCEPT ![d].pid = prog[d].child]
    /\ UNCHANGED <<lockVars, pc, holder, uses, fileVars, histVars, orphans, dirty, save>>

Recorded(d) == prog[d].child # None /\ prog[d].pid = prog[d].child

Promote(d) ==
    /\ Recorded(d) /\ prog[d].state = "STARTING" /\ Publish(d, "RUNNING")
    /\ UNCHANGED <<lockVars, pc, holder, uses, fileVars, histVars, orphans, save>>

\* The child ends and is collected: its PID is free before its state is told.
ChildExits(d) ==
    /\ prog[d].child # None /\ holder[prog[d].child] = d
    /\ holder' = [holder EXCEPT ![prog[d].child] = Free]
    /\ UNCHANGED <<lockVars, pc, uses, prog, fileVars, histVars, orphans, dirty, save>>

Settle(d) ==
    /\ Recorded(d) /\ holder[prog[d].child] # d
    /\ prog' = [prog EXCEPT ![d].state = "STOPPED", ![d].child = None]
    /\ dirty' = [dirty EXCEPT ![d] = TRUE]
    /\ UNCHANGED <<lockVars, pc, holder, uses, fileVars, histVars, orphans, save>>

Program(d) == StartProgram(d) \/ Spawn(d) \/ SpawnFails(d) \/ RecordRun(d) \/ Promote(d) \/ ChildExits(d) \/ Settle(d)

-----------------------------------------------------------------------------
(* recordStateChanges, on a goroutine that Stop does not wait for. *)

SaveReads(d) ==
    /\ save[d].at = "idle" /\ dirty[d] /\ pc[d] # "down"
    /\ dirty' = [dirty EXCEPT ![d] = FALSE]
    /\ save' = [save EXCEPT ![d] = [at |-> "token", pid |-> prog[d].pid, recs |-> {}]]
    /\ UNCHANGED <<lockVars, pc, procVars, fileVars, histVars, orphans>>

\* GetState, and the start time of whatever process has the PID by now.
Records(d, p) ==
    IF p # None /\ prog[d].state # "STOPPED" /\ Alive(p)
    THEN {[pid |-> p, token |-> uses[p], who |-> Holder(p)]} ELSE {}
SaveLooksUp(d) ==
    /\ save[d].at = "token"
    /\ save' = [save EXCEPT ![d].at = "write", ![d].recs = Records(d, save[d].pid)]
    /\ UNCHANGED <<lockVars, pc, procVars, fileVars, histVars, orphans, dirty>>

\* Mutant: the tokens that came during the save are dropped after it.
SaveWritesDrains(d) ==
    /\ save[d].at = "write"
    /\ file' = [boot |-> boot, children |-> save[d].recs]
    /\ save' = [save EXCEPT ![d] = Idle]
    /\ late' = (late \/ pc[d] \in {"checking", "unlinking", "closing", "exiting"})
    /\ dirty' = [dirty EXCEPT ![d] = FALSE]
    /\ UNCHANGED <<lockVars, pc, procVars, histVars, orphans>>
\* A rename: all of the new file or all of the old one.
SaveWrites(d) ==
    /\ save[d].at = "write"
    /\ file' = [boot |-> boot, children |-> save[d].recs]
    /\ save' = [save EXCEPT ![d] = Idle]
    /\ late' = (late \/ pc[d] \in {"checking", "unlinking", "closing", "exiting"})
    /\ UNCHANGED <<lockVars, pc, procVars, histVars, orphans, dirty>>

SaveState(d) == SaveReads(d) \/ SaveLooksUp(d) \/ SaveWrites(d)

-----------------------------------------------------------------------------
(* Server.Stop, from the signal to the exit. *)

BeginStop(d) ==
    /\ pc[d] = "serving" /\ GoTo(d, "ending")
    /\ UNCHANGED <<lockVars, procVars, fileVars, histVars, orphans, dirty, save>>

\* The actions were waited for and stopAllProcesses has stopped the program.
Stopped(d) ==
    /\ pc[d] = "ending" /\ prog[d].state = "STOPPED" /\ GoTo(d, "clean")
    /\ UNCHANGED <<lockVars, procVars, fileVars, histVars, orphans, dirty, save>>

ClearState(d) ==
    /\ pc[d] = "clean" /\ GoTo(d, "checking") /\ file' = None
    /\ UNCHANGED <<lockVars, procVars, histVars, orphans, dirty, save, late>>

\* removeIfSame: a look at the path, then the removal of what is there.
SameFile(d) == path = fd[d]
CheckPath(d) ==
    /\ pc[d] = "checking" /\ GoTo(d, IF SameFile(d) THEN "unlinking" ELSE "closing")
    /\ UNCHANGED <<lockVars, procVars, fileVars, histVars, orphans, dirty, save>>

Unlink(d) ==
    /\ pc[d] = "unlinking" /\ GoTo(d, "closing") /\ path' = None
    /\ UNCHANGED <<fd, overlap, procVars, fileVars, histVars, orphans, dirty, save>>

\* The lock goes with the descriptor.
CloseFile(d) ==
    /\ pc[d] = "closing" /\ GoTo(d, "exiting") /\ fd' = [fd EXCEPT ![d] = None]
    /\ UNCHANGED <<path, overlap, procVars, fileVars, histVars, orphans, dirty, save>>

\* os.Exit, whatever the other goroutines are at.
Ended(d) ==
    /\ fd' = [fd EXCEPT ![d] = None] /\ GoTo(d, "down")
    /\ prog' = [prog EXCEPT ![d] = NoProgram] /\ orphans' = [orphans EXCEPT ![d] = {}]
    /\ dirty' = [dirty EXCEPT ![d] = FALSE] /\ save' = [save EXCEPT ![d] = Idle]
Exit(d) ==
    /\ pc[d] = "exiting" /\ Ended(d)
    /\ UNCHANGED <<path, overlap, holder, uses, fileVars, histVars>>

Stop(d) == BeginStop(d) \/ Stopped(d) \/ ClearState(d) \/ CheckPath(d) \/ Unlink(d) \/ CloseFile(d) \/ Exit(d)

-----------------------------------------------------------------------------
(* What befalls the daemons. *)

\* Killed, or ended by a second signal: its child lives on.
Crash(d) ==
    /\ pc[d] # "down" /\ crashes < MaxCrashes /\ crashes' = crashes + 1 /\ Ended(d)
    /\ holder' = [p \in Pids |-> IF holder[p] = d THEN Orphan ELSE holder[p]]
    /\ UNCHANGED <<path, overlap, uses, fileVars, boot>>

\* Files stay, when they are not under /run.
Reboot ==
    /\ boot < MaxBoots /\ boot' = boot + 1
    /\ fd' = [d \in Daemons |-> None] /\ pc' = [d \in Daemons |-> "down"]
    /\ holder' = [p \in Pids |-> Free] /\ uses' = [p \in Pids |-> 0]
    /\ prog' = [d \in Daemons |-> NoProgram] /\ orphans' = [d \in Daemons |-> {}]
    /\ dirty' = [d \in Daemons |-> FALSE] /\ save' = [d \in Daemons |-> Idle]
    /\ UNCHANGED <<path, overlap, fileVars, crashes>>

StrangerStarts(p) ==
    /\ holder[p] = Free /\ uses[p] < MaxUses
    /\ holder' = [holder EXCEPT ![p] = Stranger] /\ uses' = [uses EXCEPT ![p] = @ + 1]
    /\ UNCHANGED <<lockVars, pc, prog, fileVars, histVars, orphans, dirty, save>>

\* A stranger, or an orphan that was asked to end or not.
OtherEnds(p) ==
    /\ holder[p] \in {Stranger, Orphan}
    /\ holder' = [holder EXCEPT ![p] = Free]
    /\ UNCHANGED <<lockVars, pc, uses, prog, fileVars, histVars, orphans, dirty, save>>

Next ==
    \/ \E d \in Daemons : \/ OpenPidFile(d) \/ Flock(d) \/ LockFails(d)
                         \/ ReapOrphans(d) \/ Listen(d) \/ Program(d)
                         \/ SaveState(d) \/ Stop(d) \/ Crash(d)
    \/ \E p \in Pids : StrangerStarts(p) \/ OtherEnds(p)
    \/ Reboot

Spec == Init /\ [][Next]_vars

-----------------------------------------------------------------------------
(* Properties. *)

\* "The lock, not the file contents, is what keeps two daemons from running
\* at once" (pidlock.go:15-16).  It does not, as DaemonLock shows: a
\* daemon can lock the file it has open after the last one has unlinked it,
\* and the next one makes a new file.
LockKeepsOneDaemon == \A d, e \in Daemons : pc[d] \in Holding /\ pc[e] \in Holding => d = e

\* As long as nobody has locked a file that was no longer at the path, one
\* daemon holds the directory, whoever was refused, killed or is ending.
OneDaemon == ~overlap => LockKeepsOneDaemon

\* What reapOrphans acts on is the very process that was recorded: neither a
\* later holder of its PID nor one of another boot (state.go:158-167, 191-203).
IdentifiedIsRecorded ==
    [][\A d \in Daemons : pc[d] = "identifying" /\ pc'[d] # pc[d] =>
        \A r \in orphans'[d] : r.who.boot = boot /\ r.who.use = uses[r.pid]]_vars

Living(r) == holder[r.pid] = Orphan /\ r.who.boot = boot /\ r.who.use = uses[r.pid]
Alone == ~overlap /\ ~late

\* An orphan that is on file stays there until it is gone, through any number
\* of daemons killed while they deal with it (state.go:182-183).
OrphansAreNotForgotten ==
    [][Alone' => \A r \in Children :
        Living(r) => r \in Children' \/ ~Living(r)']_vars

\* "[It] stops anything from that file that is still running before starting
\* anything of its own" (README.md:507-509): no program runs twice.
OrphansEndFirst ==
    Alone => \A d \in Daemons : pc[d] = "serving" =>
        \A r \in Children : ~Living(r)

\* When the saver is at rest a running program is on file, and as the process
\* it is: a change that comes during a save is saved again (state.go:121-135).
RunningIsRecorded ==
    Alone => \A d \in Daemons :
        pc[d] = "serving" /\ save[d].at = "idle" /\ ~dirty[d] /\ prog[d].state = "RUNNING"
        /\ holder[prog[d].child] = d
            => [pid |-> prog[d].child, token |-> uses[prog[d].child], who |-> Holder(prog[d].child)] \in Children

\* "A recorded PID is only acted on if the process running under it is still
\* the one supavisor started" (README.md:516-517).  It is not so: the PID may
\* be reused between the check and the SIGKILL, and a save during STARTING
\* may have recorded what now has the PID of the last run.
OnlyOursAreSignaled ==
    [][\A d \in Daemons : pc[d] \in {"terminating", "killing"} /\ pc'[d] \notin {pc[d], "down"} =>
        \A r \in orphans[d] : Alive(r.pid) => r.who = Holder(r.pid) /\ r.who.ours]_vars

=============================================================================

------------------------------- MODULE Reaper -------------------------------
(***************************************************************************)
(* internal/process/reaper.go: the one goroutine that calls wait4 for the  *)
(* whole daemon, the starts that register a child with it, and the probes  *)
(* that signal a child through it.                                         *)
(*                                                                         *)
(* wait4(-1) is destructive: collecting a status frees the PID, so whoever *)
(* is registered for the PID at that moment gets the status.  The model    *)
(* keeps PIDs as a small set that the kernel hands out again, because the  *)
(* hazards are all about a PID that means two processes in turn.           *)
(***************************************************************************)
EXTENDS Naturals

CONSTANTS Starts,    \* calls of childReaper.spawn; each starts one child
          Pids,      \* the PIDs the kernel hands out
          None,      \* no start, no status, no PID
          Free,      \* the holder of a PID nobody uses
          Orphan,    \* a grandchild reparented to the daemon (PID 1)
          Stranger   \* a process that is not the daemon's child

ASSUME DistinctAssumption ==
    /\ Starts \cap {None, Free, Orphan, Stranger} = {}
    /\ None \notin Pids \cup [pid : Pids, of : Starts \cup {Orphan}]
    /\ None # Free /\ None # Orphan /\ None # Stranger
    /\ Free # Orphan /\ Free # Stranger /\ Orphan # Stranger

VARIABLES
    holder,    \* [Pids -> who the kernel gave the PID to]
    zombie,    \* PIDs whose process has exited and is not collected yet
    killed,    \* PIDs whose process was sent SIGKILL
    pc,        \* [Starts -> where the call and its caller are]
    pid,       \* [Starts -> the PID the start got]
    waiters,   \* [Pids -> the start whose channel childReaper.waiters holds]
    exited,    \* [Starts -> whose status is in the channel the start returned]
    reaper,    \* where the goroutine of run is
    inHand,    \* the status wait4 has just returned
    victim     \* [Starts -> whom the start's SIGKILL reached] (auxiliary)

vars == <<holder, zombie, killed, pc, pid, waiters, exited, reaper, inHand, victim>>

Holders == Starts \cup {Free, Orphan, Stranger}
Status  == [pid : Pids, of : Starts \cup {Orphan}]

TypeOK ==
    /\ holder \in [Pids -> Holders]
    /\ zombie \subseteq Pids
    /\ killed \subseteq Pids
    /\ pc \in [Starts -> {"idle", "forking", "forked", "listening", "done", "failed"}]
    /\ pid \in [Starts -> Pids \cup {None}]
    /\ \A s \in Starts : pc[s] \in {"forked", "listening", "done"} => pid[s] \in Pids
    /\ waiters \in [Pids -> Starts \cup {None}]
    /\ exited \in [Starts -> Starts \cup {Orphan, None}]
    /\ reaper \in {"idle", "locking", "reaping", "dispatching"}
    /\ inHand \in Status \cup {None}
    /\ victim \in [Starts -> Holders \cup {None}]

Init ==
    /\ holder = [p \in Pids |-> Free]
    /\ zombie = {}
    /\ killed = {}
    /\ pc = [s \in Starts |-> "idle"]
    /\ pid = [s \in Starts |-> None]
    /\ waiters = [p \in Pids |-> None]
    /\ exited = [s \in Starts |-> None]
    /\ reaper = "idle"
    /\ inHand = None
    /\ victim = [s \in Starts |-> None]

-----------------------------------------------------------------------------
(* spawn *)

\* Changed forms of definitions below, each a plausible wrong edit of the code;
\* no action of the specification uses them.
CanRLockAlways == TRUE
NoForkInFlightFailedHolds == \A s \in Starts : pc[s] \notin {"forking", "forked", "failed"}
NoForkInFlightNotRegistering == \A s \in Starts : pc[s] # "forking"
WaitersAfterKept(p) == waiters

\* A writer that waits for forking keeps new readers out (sync.RWMutex).
CanRLock == reaper = "idle"

ForkingRLock(s) ==
    /\ pc[s] = "idle"
    /\ CanRLock
    /\ pc' = [pc EXCEPT ![s] = "forking"]
    /\ UNCHANGED <<holder, zombie, killed, pid, waiters, exited, reaper, inHand, victim>>

\* start(): the fork, with the read lock held.
Fork(s, p) ==
    /\ pc[s] = "forking"
    /\ holder[p] = Free
    /\ holder' = [holder EXCEPT ![p] = s]
    /\ pid' = [pid EXCEPT ![s] = p]
    /\ pc' = [pc EXCEPT ![s] = "forked"]
    /\ UNCHANGED <<zombie, killed, waiters, exited, reaper, inHand, victim>>

ForkFails(s) ==
    /\ pc[s] = "forking"
    /\ pc' = [pc EXCEPT ![s] = "failed"]
    /\ UNCHANGED <<holder, zombie, killed, pid, waiters, exited, reaper, inHand, victim>>

\* r.waiters[pid] = exited
Registered(s) == [waiters EXCEPT ![pid[s]] = s]

Register(s) ==
    /\ pc[s] = "forked"
    /\ waiters' = Registered(s)
    /\ pc' = [pc EXCEPT ![s] = "listening"]
    /\ UNCHANGED <<holder, zombie, killed, pid, exited, reaper, inHand, victim>>

\* The caller of spawn receives its child's status.
Receive(s) ==
    /\ pc[s] = "listening"
    /\ exited[s] # None
    /\ pc' = [pc EXCEPT ![s] = "done"]
    /\ UNCHANGED <<holder, zombie, killed, pid, waiters, exited, reaper, inHand, victim>>

-----------------------------------------------------------------------------
(* run and reapAll *)

\* SIGCHLD or the backstop ticker: reapAll begins by asking for forking.
Wake ==
    /\ reaper = "idle"
    /\ reaper' = "locking"
    /\ UNCHANGED <<holder, zombie, killed, pc, pid, waiters, exited, inHand, victim>>

NoForkInFlight == \A s \in Starts : pc[s] \notin {"forking", "forked"}

ForkingLock ==
    /\ reaper = "locking"
    /\ NoForkInFlight
    /\ reaper' = "reaping"
    /\ UNCHANGED <<holder, zombie, killed, pc, pid, waiters, exited, inHand, victim>>

\* wait4(-1, WNOHANG) collects some child that has exited and frees its PID.
Wait4(p) ==
    /\ reaper = "reaping"
    /\ p \in zombie
    /\ inHand' = [pid |-> p, of |-> holder[p]]
    /\ holder' = [holder EXCEPT ![p] = Free]
    /\ zombie' = zombie \ {p}
    /\ killed' = killed \ {p}
    /\ reaper' = "dispatching"
    /\ UNCHANGED <<pc, pid, waiters, exited, victim>>

\* wait4 finds no child that has exited: reapAll returns and unlocks forking.
NoneExited ==
    /\ reaper = "reaping"
    /\ zombie = {}
    /\ reaper' = "idle"
    /\ UNCHANGED <<holder, zombie, killed, pc, pid, waiters, exited, inHand, victim>>

\* delete(r.waiters, pid)
WaitersAfter(p) == [waiters EXCEPT ![p] = None]

\* The section under mu and the send on the channel it found, if any.
Dispatch ==
    /\ reaper = "dispatching"
    /\ exited' = [s \in Starts |-> IF waiters[inHand.pid] = s THEN inHand.of ELSE exited[s]]
    /\ waiters' = WaitersAfter(inHand.pid)
    /\ inHand' = None
    /\ reaper' = "reaping"
    /\ UNCHANGED <<holder, zombie, killed, pc, pid, victim>>

-----------------------------------------------------------------------------
(* signalGroupIfUnreaped, called by a probe whose attempt has timed out *)

\* Whom the signal reaches: nobody unless some start is registered for the
\* PID, and then whoever the kernel has given the PID to by now.
Hits(s) == IF waiters[pid[s]] = None \/ holder[pid[s]] = Free THEN None ELSE holder[pid[s]]

SignalGroupIfUnreaped(s) ==
    /\ pc[s] = "listening"
    /\ victim' = [victim EXCEPT ![s] = Hits(s)]
    /\ killed' = IF Hits(s) = None THEN killed ELSE killed \cup {pid[s]}
    /\ pc' = [pc EXCEPT ![s] = "done"]
    /\ UNCHANGED <<holder, zombie, pid, waiters, exited, reaper, inHand>>

-----------------------------------------------------------------------------
(* The kernel and the processes that are not the daemon's own. *)

\* A child of the daemon exits, and is a zombie until it is collected.
Exit(p) ==
    /\ holder[p] \in Starts \cup {Orphan}
    /\ p \notin zombie
    /\ zombie' = zombie \cup {p}
    /\ UNCHANGED <<holder, killed, pc, pid, waiters, exited, reaper, inHand, victim>>

\* Somebody else's process gets a free PID, or ends and gives it back.
StrangerStarts(p) ==
    /\ holder[p] = Free
    /\ holder' = [holder EXCEPT ![p] = Stranger]
    /\ UNCHANGED <<zombie, killed, pc, pid, waiters, exited, reaper, inHand, victim>>

StrangerEnds(p) ==
    /\ holder[p] = Stranger
    /\ holder' = [holder EXCEPT ![p] = Free]
    /\ killed' = killed \ {p}
    /\ UNCHANGED <<zombie, pc, pid, waiters, exited, reaper, inHand, victim>>

\* A process whose parent died is reparented to the daemon.
Reparent(p) ==
    /\ holder[p] = Stranger
    /\ holder' = [holder EXCEPT ![p] = Orphan]
    /\ UNCHANGED <<zombie, killed, pc, pid, waiters, exited, reaper, inHand, victim>>

-----------------------------------------------------------------------------
Spawn(s) == ForkingRLock(s) \/ (\E p \in Pids : Fork(s, p)) \/ ForkFails(s) \/ Register(s)

ReapStep == Wake \/ ForkingLock \/ NoneExited \/ Dispatch \/ \E p \in Pids : Wait4(p)

Kernel(p) == Exit(p) \/ StrangerStarts(p) \/ StrangerEnds(p) \/ Reparent(p)

Next ==
    \/ \E s \in Starts : Spawn(s) \/ Receive(s) \/ SignalGroupIfUnreaped(s)
    \/ ReapStep
    \/ \E p \in Pids : Kernel(p)

Spec == Init /\ [][Next]_vars

\* The goroutines keep running; a fork in flight returns (a start wedged in
\* exec stalls all exit delivery, the cost spawn's comment accepts); a killed
\* process dies; and wait4 walks the children oldest first, so it does not
\* pass the same zombie over for ever.
Fairness ==
    /\ \A s \in Starts :
        /\ WF_vars((\E p \in Pids : Fork(s, p)) \/ ForkFails(s))
        /\ WF_vars(Register(s))
    /\ WF_vars(Wake) /\ WF_vars(ForkingLock) /\ WF_vars(NoneExited) /\ WF_vars(Dispatch)
    /\ \A p \in Pids :
        /\ SF_vars(Wait4(p))
        /\ WF_vars(p \in killed /\ Exit(p))

FairSpec == Spec /\ Fairness

-----------------------------------------------------------------------------
(* Properties *)

\* A start only ever receives the exit status of the child it started, however
\* PIDs are recycled and orphans come and go (the guarantee spawn's lock and
\* reapAll's delete are there for).
StatusReachesOwner == \A s \in Starts : exited[s] \in {None, s}

\* From the moment spawn returns, the exit of its child cannot be lost: until
\* the status is in the channel, either the child still holds its PID with the
\* start registered for it, or reapAll has the child's status in hand and will
\* find that registration.
NoStatusLost ==
    \A s \in Starts :
        pc[s] \in {"listening", "done"} /\ exited[s] = None =>
            /\ waiters[pid[s]] = s
            /\ holder[pid[s]] = s \/ inHand = [pid |-> pid[s], of |-> s]

\* waiters never outlives the processes it names: an entry whose process is
\* gone is one reapAll is dropping right now, so entries do not leak and a
\* recycled PID starts with none.
NoStaleWaiter ==
    \A p \in Pids :
        waiters[p] # None /\ inHand # [pid |-> p, of |-> waiters[p]] => holder[p] = waiters[p]

\* The comment of signalGroupIfUnreaped: the check "cannot go stale between
\* here and the signal", so a probe's SIGKILL reaches its own child or nobody.
SignalsOwnGroup == \A s \in Starts : victim[s] \in {None, s}

\* No orphan stays a zombie for ever (the PID 1 guarantee of StartReaping).
OrphansCollected ==
    \A p \in Pids : (holder[p] = Orphan /\ p \in zombie) ~> holder[p] # Orphan

-----------------------------------------------------------------------------
(* What the reaper promises is ChildExits. *)

\* A child is alive from the fork to its exit, whatever happens to its PID then.
Life(s) == IF pc[s] = "failed" THEN "failed"
           ELSE IF pid[s] = None THEN "none"
           ELSE IF holder[pid[s]] = s /\ pid[s] \notin zombie THEN "alive" ELSE "dead"

Promise == INSTANCE ChildExits WITH life <- [s \in Starts |-> Life(s)], report <- exited

\* Under PID reuse, orphans, probes and the locks, spawn, run and reapAll
\* implement it: an exit is reported to its own start, once, not before it
\* happened, and always.
KeepsPromise == Promise!FairSpec
=============================================================================

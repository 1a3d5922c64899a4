---------------------------- MODULE ReaperProofs ----------------------------
(***************************************************************************)
(* What reaper.go guarantees for any number of starts and PIDs.  The       *)
(* properties are not inductive: they need the barrier (no fork in flight  *)
(* while statuses are collected) and the agreement of the kernel's view    *)
(* (holder) with the daemon's (waiters).                                   *)
(***************************************************************************)
EXTENDS Reaper, TLAPS

Registering == {"forking", "forked"}
Returned    == {"listening", "done"}

\* The forking lock: readers and the collecting reaper exclude each other.
Barrier == reaper \in {"reaping", "dispatching"} => \A s \in Starts : pc[s] \notin Registering

\* A start that has no child yet has no PID and no status.
Unstarted ==
    \A s \in Starts :
        /\ pc[s] \in {"idle", "forking", "failed"} => pid[s] = None
        /\ pc[s] \notin Returned => exited[s] = None

\* A child holds the PID its start was told, and its status is still to come.
ChildOfStart ==
    \A p \in Pids, s \in Starts :
        holder[p] = s => pid[s] = p /\ exited[s] = None

\* A start that is about to register still has its child.
ForkedHolds == \A s \in Starts : pc[s] = "forked" => holder[pid[s]] = s

\* An entry of waiters belongs to a start whose status is still to come, from
\* a child that is there or that the reaper has just collected.
EntryIsOwed ==
    \A p \in Pids, s \in Starts :
        waiters[p] = s =>
            /\ pid[s] = p
            /\ pc[s] \in Returned
            /\ exited[s] = None
            /\ holder[p] = s \/ inHand = [pid |-> p, of |-> s]

\* A start whose status is still to come is registered.
OwedHasEntry ==
    \A s \in Starts : pc[s] \in Returned /\ exited[s] = None => waiters[pid[s]] = s

\* The reaper has a status in hand exactly while it dispatches one, and no
\* child can have been given that PID meanwhile.
Hand ==
    /\ inHand = None <=> reaper # "dispatching"
    /\ inHand # None => holder[inHand.pid] \notin Starts

\* Only the daemon's own children are zombies for wait4 to collect.
ZombieIsChild == \A p \in zombie : holder[p] \in Starts \cup {Orphan}

IInv ==
    /\ TypeOK
    /\ ZombieIsChild
    /\ Barrier
    /\ Unstarted
    /\ ChildOfStart
    /\ ForkedHolds
    /\ EntryIsOwed
    /\ OwedHasEntry
    /\ Hand
    /\ StatusReachesOwner

-----------------------------------------------------------------------------

LEMMA InitIInv == Init => IInv
  BY DistinctAssumption
  DEF Init, IInv, TypeOK, Holders, Status, Barrier, Unstarted, ChildOfStart, ForkedHolds,
      EntryIsOwed, OwedHasEntry, Hand, ZombieIsChild, StatusReachesOwner, Registering, Returned

\* The steps of spawn and of its caller (ForkingRLock, Fork, ForkFails, Register,
\* Receive, SignalGroupIfUnreaped) keep the invariant.
LEMMA StartStep ==
    ASSUME IInv, NEW s \in Starts, Spawn(s) \/ Receive(s) \/ SignalGroupIfUnreaped(s)
    PROVE  IInv'
  <1> USE DistinctAssumption
          DEF IInv, TypeOK, Holders, Status, Barrier, Unstarted, ChildOfStart, ForkedHolds,
              EntryIsOwed, OwedHasEntry, Hand, ZombieIsChild, StatusReachesOwner,
              Registering, Returned
  <1>1. CASE ForkingRLock(s)
    BY <1>1 DEF ForkingRLock, CanRLock
  <1>2. ASSUME NEW p \in Pids, Fork(s, p) PROVE IInv'
    <2> USE <1>2 DEF Fork
    <2>1. inHand = None
      OBVIOUS
    <2>2. TypeOK' /\ ZombieIsChild' /\ Barrier' /\ Unstarted' /\ Hand' /\ StatusReachesOwner'
      OBVIOUS
    <2>3. ChildOfStart' /\ ForkedHolds'
      OBVIOUS
    <2>4. EntryIsOwed' /\ OwedHasEntry'
      BY <2>1
    <2> QED
      BY <2>2, <2>3, <2>4
  <1>3. CASE ForkFails(s)
    BY <1>3 DEF ForkFails
  <1>4. CASE Register(s)
    <2> USE <1>4 DEF Register, Registered
    <2>1. inHand = None /\ pid[s] \in Pids /\ holder[pid[s]] = s
      OBVIOUS
    <2>2. TypeOK' /\ ZombieIsChild' /\ Barrier' /\ Unstarted'
        /\ ChildOfStart' /\ ForkedHolds' /\ Hand'
          /\ StatusReachesOwner'
      OBVIOUS
    <2>3. EntryIsOwed'
      BY <2>1
    <2>4. OwedHasEntry'
      BY <2>1
    <2> QED
      BY <2>2, <2>3, <2>4
  <1>5. CASE Receive(s)
    BY <1>5 DEF Receive
  <1>6. CASE SignalGroupIfUnreaped(s)
    BY <1>6 DEF SignalGroupIfUnreaped, Hits
  <1> QED
    BY <1>1, <1>2, <1>3, <1>4, <1>5, <1>6 DEF Spawn

\* The steps of run and reapAll keep the invariant.
LEMMA ReaperStep ==
    ASSUME IInv, ReapStep
    PROVE  IInv'
  <1> USE DistinctAssumption
          DEF IInv, TypeOK, Holders, Status, Barrier, Unstarted, ChildOfStart, ForkedHolds,
              EntryIsOwed, OwedHasEntry, Hand, ZombieIsChild, StatusReachesOwner,
              Registering, Returned
  <1>1. CASE Wake
    BY <1>1 DEF Wake
  <1>2. CASE ForkingLock
    BY <1>2 DEF ForkingLock, NoForkInFlight
  <1>3. CASE NoneExited
    BY <1>3 DEF NoneExited
  <1>4. CASE Dispatch
    <2> USE <1>4 DEF Dispatch, WaitersAfter
    <2>1. inHand \in Status /\ inHand.pid \in Pids /\ holder[inHand.pid] \notin Starts
      OBVIOUS
    <2>2. \A t \in Starts : waiters[inHand.pid] = t => inHand.of = t /\ pid[t] = inHand.pid
      BY <2>1
    <2>3. TypeOK' /\ ZombieIsChild' /\ Barrier' /\ Unstarted' /\ ForkedHolds' /\ Hand'
      BY <2>1
    <2>4. StatusReachesOwner'
      BY <2>2
    <2>5. ChildOfStart'
      BY <2>1, <2>2
    <2>6. EntryIsOwed'
      BY <2>1, <2>2
    <2>7. OwedHasEntry'
      BY <2>1, <2>2
    <2> QED
      BY <2>3, <2>4, <2>5, <2>6, <2>7
  <1>5. ASSUME NEW p \in Pids, Wait4(p) PROVE IInv'
    <2> USE <1>5 DEF Wait4
    <2>1. inHand = None
      OBVIOUS
    <2>2. PICK h \in Starts \cup {Orphan} : holder[p] = h
      OBVIOUS
    <2>3. TypeOK' /\ ZombieIsChild' /\ Barrier' /\ Unstarted' /\ ChildOfStart' /\ Hand'
          /\ StatusReachesOwner'
      BY <2>2
    <2>4. ForkedHolds'
      OBVIOUS
    <2>5. EntryIsOwed'
      BY <2>1
    <2>6. OwedHasEntry'
      OBVIOUS
    <2> QED
      BY <2>3, <2>4, <2>5, <2>6
  <1> QED
    BY <1>1, <1>2, <1>3, <1>4, <1>5 DEF ReapStep

\* What the kernel and other processes do keeps the invariant.
LEMMA KernelStep ==
    ASSUME IInv, NEW p \in Pids, Kernel(p)
    PROVE  IInv'
  <1> USE DistinctAssumption
          DEF IInv, TypeOK, Holders, Status, Barrier, Unstarted, ChildOfStart, ForkedHolds,
              EntryIsOwed, OwedHasEntry, Hand, ZombieIsChild, StatusReachesOwner,
              Registering, Returned
  <1>1. CASE Exit(p)
    BY <1>1 DEF Exit
  <1>2. CASE StrangerStarts(p)
    BY <1>2 DEF StrangerStarts
  <1>3. CASE StrangerEnds(p)
    BY <1>3 DEF StrangerEnds
  <1>4. CASE Reparent(p)
    BY <1>4 DEF Reparent
  <1> QED
    BY <1>1, <1>2, <1>3, <1>4 DEF Kernel

\* IInv is an inductive invariant of the reaper.
LEMMA IInvHolds == Spec => []IInv
  <1>1. Init => IInv
    BY InitIInv
  <1>2. IInv /\ [Next]_vars => IInv'
    <2> SUFFICES ASSUME IInv, [Next]_vars PROVE IInv'
      OBVIOUS
    <2>1. CASE Next
      BY <2>1, StartStep, ReaperStep, KernelStep DEF Next
    <2>2. CASE UNCHANGED vars
      BY <2>2
      DEF vars, IInv, TypeOK, Barrier, Unstarted, ChildOfStart, ForkedHolds,
          EntryIsOwed, OwedHasEntry, Hand, ZombieIsChild, StatusReachesOwner
    <2> QED
      BY <2>1, <2>2
  <1> QED
    BY <1>1, <1>2, PTL DEF Spec

-----------------------------------------------------------------------------
\* Type correctness of the reaper's state, for any set of starts and PIDs.
THEOREM ReaperTypeOK == Spec => []TypeOK
  <1>1. IInv => TypeOK
    BY DEF IInv
  <1> QED
    BY <1>1, IInvHolds, PTL

\* No start receives another process's exit status: what the lock that spawn
\* holds across the fork, and the delete in reapAll, are there for.
THEOREM ReaperStatusReachesOwner == Spec => []StatusReachesOwner
  <1>1. IInv => StatusReachesOwner
    BY DEF IInv
  <1> QED
    BY <1>1, IInvHolds, PTL

\* Once spawn has returned, the status of the child cannot be lost.
THEOREM ReaperNoStatusLost == Spec => []NoStatusLost
  <1>1. IInv => NoStatusLost
    BY DEF IInv, TypeOK, EntryIsOwed, OwedHasEntry, Returned, NoStatusLost
  <1> QED
    BY <1>1, IInvHolds, PTL

\* waiters never keeps an entry for a process that is gone.
THEOREM ReaperNoStaleWaiter == Spec => []NoStaleWaiter
  <1>1. IInv => NoStaleWaiter
    BY DEF IInv, TypeOK, EntryIsOwed, NoStaleWaiter
  <1> QED
    BY <1>1, IInvHolds, PTL

-----------------------------------------------------------------------------
(***************************************************************************)
(* Refinement.  A child is dead from its exit on, whoever gets its PID     *)
(* then: that is because a start forks once.  And wait4 may only collect,  *)
(* and Dispatch report, what is dead.                                      *)
(***************************************************************************)

abstract == <<[s \in Starts |-> Life(s)], exited>>

LEMMA InitPromise == Init => Promise!Init
  <1> SUFFICES ASSUME Init PROVE Promise!Init
    OBVIOUS
  <1>1. \A s \in Starts : Life(s) = "none"
    BY DEF Init, Life
  <1> QED
    BY <1>1 DEF Init, Promise!Init

\* One start's child changes, and the others' do not.
LEMMA OneLife ==
    ASSUME NEW t \in Starts, NEW l, Life(t)' = l, \A s \in Starts \ {t} : Life(s)' = Life(s)
    PROVE  [s \in Starts |-> Life(s)]' = [[s \in Starts |-> Life(s)] EXCEPT ![t] = l]
  OBVIOUS

\* spawn and its caller: a fork begins a life, or fails to.
LEMMA StartPromise ==
    ASSUME IInv, NEW t \in Starts, Spawn(t) \/ Receive(t) \/ SignalGroupIfUnreaped(t)
    PROVE  Promise!Next \/ UNCHANGED abstract
  <1> USE DistinctAssumption DEF IInv
  <1>1. CASE ForkingRLock(t) \/ Register(t) \/ Receive(t) \/ SignalGroupIfUnreaped(t)
    <2>1. \A s \in Starts : Life(s)' = Life(s)
      BY <1>1 DEF ForkingRLock, Register, Receive, SignalGroupIfUnreaped, Life, TypeOK
    <2> QED
      BY <1>1, <2>1 DEF abstract, ForkingRLock, Register, Receive, SignalGroupIfUnreaped
  <1>2. ASSUME NEW p \in Pids, Fork(t, p) PROVE Promise!Next
    <2>1. pid[t] = None /\ Life(t) = "none" /\ p \notin zombie /\ holder[p] = Free
      BY <1>2 DEF Fork, Unstarted, ZombieIsChild, Life
    <2>2. Life(t)' = "alive"
      BY <1>2, <2>1 DEF Fork, Life, TypeOK
    <2>3. \A s \in Starts \ {t} : Life(s)' = Life(s)
      BY <1>2, <2>1 DEF Fork, Life, TypeOK
    <2> QED
      BY <1>2, <2>1, <2>2, <2>3, OneLife DEF Fork, Promise!Next, Promise!Begin
  <1>3. CASE ForkFails(t)
    <2>1. Life(t) = "none" /\ Life(t)' = "failed"
      BY <1>3 DEF ForkFails, Unstarted, Life, TypeOK
    <2>2. \A s \in Starts \ {t} : Life(s)' = Life(s)
      BY <1>3 DEF ForkFails, Life, TypeOK
    <2> QED
      BY <1>3, <2>1, <2>2, OneLife DEF ForkFails, Promise!Next, Promise!Begin
  <1> QED
    BY <1>1, <1>2, <1>3 DEF Spawn

\* run and reapAll: collecting changes nothing, dispatching reports.
LEMMA ReaperPromise ==
    ASSUME IInv, ReapStep
    PROVE  Promise!Next \/ UNCHANGED abstract
  <1> USE DistinctAssumption DEF IInv
  <1>1. CASE Wake \/ ForkingLock \/ NoneExited
    BY <1>1 DEF Wake, ForkingLock, NoneExited, abstract, Life
  <1>2. ASSUME NEW p \in Pids, Wait4(p) PROVE UNCHANGED abstract
    <2>1. \A s \in Starts : Life(s)' = Life(s)
      BY <1>2 DEF Wait4, Life, TypeOK
    <2> QED
      BY <1>2, <2>1 DEF abstract, Wait4
  <1>3. CASE Dispatch
    <2>1. [s \in Starts |-> Life(s)]' = [s \in Starts |-> Life(s)]
      BY <1>3 DEF Dispatch, Life
    <2>2. inHand \in Status /\ inHand.pid \in Pids /\ holder[inHand.pid] \notin Starts
      BY <1>3 DEF Dispatch, Hand, TypeOK, Status
    <2>3. CASE \E t \in Starts : waiters[inHand.pid] = t
      <3> PICK t \in Starts : waiters[inHand.pid] = t
        BY <2>3
      <3>1. inHand.of = t /\ pid[t] = inHand.pid /\ exited[t] = None /\ pc[t] \in Returned
        BY <2>2 DEF EntryIsOwed
      <3>2. Life(t) = "dead"
        BY <2>2, <3>1 DEF Life, Returned
      <3>3. exited' = [exited EXCEPT ![t] = t]
        BY <1>3, <3>1 DEF Dispatch, TypeOK
      <3> QED
        BY <2>1, <3>1, <3>2, <3>3 DEF Promise!Next, Promise!Report
    <2>4. CASE ~\E t \in Starts : waiters[inHand.pid] = t
      BY <1>3, <2>1, <2>4 DEF Dispatch, TypeOK, abstract
    <2> QED
      BY <2>3, <2>4
  <1> QED
    BY <1>1, <1>2, <1>3 DEF ReapStep

\* The kernel: a child exits, and PIDs go to others.
LEMMA KernelPromise ==
    ASSUME IInv, NEW p \in Pids, Kernel(p)
    PROVE  Promise!Next \/ UNCHANGED abstract
  <1> USE DistinctAssumption DEF IInv
  <1>1. CASE StrangerStarts(p) \/ StrangerEnds(p) \/ Reparent(p)
    <2>1. \A s \in Starts : Life(s)' = Life(s)
      BY <1>1 DEF StrangerStarts, StrangerEnds, Reparent, Life, TypeOK
    <2> QED
      BY <1>1, <2>1 DEF abstract, StrangerStarts, StrangerEnds, Reparent
  <1>2. ASSUME NEW t \in Starts, holder[p] = t, Exit(p) PROVE Promise!Next
    <2>1. pid[t] = p /\ Life(t) = "alive" /\ Life(t)' = "dead"
      BY <1>2 DEF Exit, ChildOfStart, Unstarted, Life, TypeOK
    <2>2. \A s \in Starts \ {t} : Life(s)' = Life(s)
      BY <1>2 DEF Exit, Life, TypeOK
    <2>3. [s \in Starts |-> Life(s)]' = [[s \in Starts |-> Life(s)] EXCEPT ![t] = "dead"]
      BY <1>2, <2>1, <2>2, OneLife
    <2> QED
      BY <1>2, <2>1, <2>3 DEF Exit, Promise!Next, Promise!Die
  <1>3. CASE Exit(p) /\ holder[p] \notin Starts
    <2>1. \A s \in Starts : Life(s)' = Life(s)
      BY <1>3 DEF Exit, Life, TypeOK
    <2> QED
      BY <1>3, <2>1 DEF abstract, Exit
  <1>4. CASE Exit(p)
    BY <1>2, <1>3, <1>4
  <1> QED
    BY <1>1, <1>4 DEF Kernel

\* Every step of the reaper is a step of what it promises, or none: no exit is
\* reported to another's start, twice, or before it happened, for any number of
\* starts and PIDs.
THEOREM ReaperImplementsPromise == Spec => Promise!Spec
  <1>1. IInv /\ [Next]_vars => [Promise!Next]_abstract
    <2> SUFFICES ASSUME IInv, [Next]_vars PROVE [Promise!Next]_abstract
      OBVIOUS
    <2>1. CASE UNCHANGED vars
      BY <2>1 DEF vars, abstract, Life
    <2> QED
      BY <2>1, StartPromise, ReaperPromise, KernelPromise DEF Next
  <1> QED
    BY <1>1, InitPromise, IInvHolds, PTL DEF Spec, Promise!Spec, abstract, Promise!vars
=============================================================================

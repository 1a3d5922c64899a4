------------------------------- MODULE IoProofs -----------------------------
(***************************************************************************)
(* Theorems about the two ends of the daemon that outside programs meet:   *)
(* IpcServer, its slots, its WaitGroup and Stop; LogWriter, what a rotation*)
(* interrupted anywhere leaves of a log.                                   *)
(***************************************************************************)
EXTENDS IpcServer, LogWriter, FiniteSetTheorems, TLAPS

USE IpcAssumption

-----------------------------------------------------------------------------
(***************************************************************************)
(* The slots and the WaitGroup count goroutines: that is why connections   *)
(* is zero only when there is none.  The accept loop has at most one       *)
(* connection that no goroutine serves yet.                                *)
(***************************************************************************)

Where == {"none", "queued", "held"} \cup Running
In(f, S) == {c \in Clients : f[c] \in S}
HasSlot == Serving \cup {"closed"}

LEMMA Counting ==
    ASSUME NEW f \in [Clients -> Where], NEW c \in Clients, NEW at \in Where, NEW S \in SUBSET Where
    PROVE  /\ Cardinality(In(f, S)) \in Nat
           /\ Cardinality(In([f EXCEPT ![c] = at], S)) =
                IF f[c] \in S THEN IF at \in S THEN Cardinality(In(f, S)) ELSE Cardinality(In(f, S)) - 1
                ELSE IF at \in S THEN Cardinality(In(f, S)) + 1 ELSE Cardinality(In(f, S))
           /\ f[c] \in S => Cardinality(In(f, S)) > 0
<1> DEFINE g == [f EXCEPT ![c] = at]
<1>1. IsFiniteSet(In(f, S))
  BY FS_Subset DEF In
<1>2. Cardinality(In(f, S)) \in Nat
  BY <1>1, FS_CardinalityType
<1>3. f[c] \in S => Cardinality(In(f, S)) > 0
  <2>1. f[c] \in S => In(f, S) # {}
    BY DEF In
  <2> QED BY <1>1, <1>2, <2>1, FS_EmptySet
<1>4. CASE f[c] \in S <=> at \in S
  <2>1. In(g, S) = In(f, S)
    BY <1>4 DEF In
  <2> QED BY <1>2, <1>3, <1>4, <2>1
<1>5. CASE f[c] \in S /\ at \notin S
  <2>1. In(g, S) = In(f, S) \ {c} /\ c \in In(f, S)
    BY <1>5 DEF In
  <2>2. Cardinality(In(f, S) \ {c}) = Cardinality(In(f, S)) - 1
    BY <1>1, <2>1, FS_RemoveElement
  <2> QED BY <1>2, <1>3, <1>5, <2>1, <2>2
<1>6. CASE f[c] \notin S /\ at \in S
  <2>1. In(g, S) = In(f, S) \cup {c} /\ c \notin In(f, S)
    BY <1>6 DEF In
  <2>2. Cardinality(In(f, S) \cup {c}) = Cardinality(In(f, S)) + 1
    BY <1>1, <2>1, FS_AddElement
  <2> QED BY <1>2, <1>3, <1>6, <2>1, <2>2
<1> QED BY <1>4, <1>5, <1>6

\* What a connection's move does to the two counts.
LEMMA Moves ==
    ASSUME conn \in [Clients -> Where], NEW c \in Clients, NEW at \in Where, conn' = [conn EXCEPT ![c] = at]
    PROVE  /\ Cardinality(In(conn, HasSlot)) \in Nat /\ Cardinality(In(conn, Running)) \in Nat
           /\ conn[c] \in HasSlot => Cardinality(In(conn, HasSlot)) > 0
           /\ conn[c] \in Running => Cardinality(In(conn, Running)) > 0
           /\ (conn[c] \in HasSlot <=> at \in HasSlot) => Cardinality(In(conn', HasSlot)) = Cardinality(In(conn, HasSlot))
           /\ (conn[c] \in Running <=> at \in Running) => Cardinality(In(conn', Running)) = Cardinality(In(conn, Running))
           /\ conn[c] \notin HasSlot /\ at \in HasSlot => Cardinality(In(conn', HasSlot)) = Cardinality(In(conn, HasSlot)) + 1
           /\ conn[c] \notin Running /\ at \in Running => Cardinality(In(conn', Running)) = Cardinality(In(conn, Running)) + 1
           /\ conn[c] \in HasSlot /\ at \notin HasSlot => Cardinality(In(conn', HasSlot)) = Cardinality(In(conn, HasSlot)) - 1
           /\ conn[c] \in Running /\ at \notin Running => Cardinality(In(conn', Running)) = Cardinality(In(conn, Running)) - 1
<1>1. HasSlot \in SUBSET Where /\ Running \in SUBSET Where
  BY DEF HasSlot, Running, Where
<1> DEFINE P(S) == /\ Cardinality(In(conn, S)) \in Nat
                   /\ Cardinality(In([conn EXCEPT ![c] = at], S)) =
                        IF conn[c] \in S THEN IF at \in S THEN Cardinality(In(conn, S)) ELSE Cardinality(In(conn, S)) - 1
                        ELSE IF at \in S THEN Cardinality(In(conn, S)) + 1 ELSE Cardinality(In(conn, S))
                   /\ conn[c] \in S => Cardinality(In(conn, S)) > 0
<1>2. P(HasSlot)
  BY <1>1, Counting
<1>3. P(Running)
  BY <1>1, Counting
<1> QED BY <1>2, <1>3

Types ==
    /\ client \in [Clients -> {"away", "quiet", "asks", "waits", "gone"}]
    /\ conn \in [Clients -> Where]
    /\ loop \in {"accept", "slot", "add", "backoff", "returned"}
    /\ held \in Clients \cup {None}
    /\ slots \in Nat /\ slots <= MaxSlots
    /\ stopChan \in BOOLEAN /\ listening \in BOOLEAN
    /\ stop \in {"no", "listener", "accepting", "group", "done"}

SlotsAreHeld == slots = Cardinality(In(conn, HasSlot)) + IF loop = "add" THEN 1 ELSE 0
GroupCounts == connections = Cardinality(In(conn, Running))

\* The queue has each connection once.
QueueIsTrue ==
    /\ queue \in Seq(Clients)
    /\ \A k \in 1 .. Len(queue) : conn[queue[k]] = "queued"
    /\ \A k, j \in 1 .. Len(queue) : queue[k] = queue[j] => k = j
    /\ \A c \in Clients : conn[c] = "queued" => listening

LoopHolds ==
    /\ loop \in {"slot", "add"} => held \in Clients /\ conn[held] = "held"
    /\ loop \notin {"slot", "add"} => held = None
    /\ \A c \in Clients : conn[c] = "held" => c = held

\* Stop's steps come in this order.
StopInOrder ==
    /\ listening <=> stop \in {"no", "listener"}
    /\ stop \in {"group", "done"} => loop = "returned"
    /\ stop = "done" => connections = 0

IpcInv == Types /\ SlotsAreHeld /\ GroupCounts /\ QueueIsTrue /\ LoopHolds /\ StopInOrder

LEMMA IpcInvInit == Init => IpcInv
<1> SUFFICES ASSUME Init PROVE IpcInv
  OBVIOUS
<1>1. In(conn, HasSlot) = {} /\ In(conn, Running) = {}
  BY DEF Init, In, HasSlot, Running, Serving
<1>2. Cardinality({}) = 0
  BY FS_EmptySet
<1>3. slots = 0 /\ connections = 0 /\ loop # "add"
  BY DEF Init
<1>4. SlotsAreHeld /\ GroupCounts
  BY <1>1, <1>2, <1>3 DEF SlotsAreHeld, GroupCounts
<1>5. Types
  <2>1. 0 <= MaxSlots
    OBVIOUS
  <2>2. "none" \in Where
    BY DEF Where
  <2> QED BY <2>1, <2>2 DEF Init, Types
<1>6. QueueIsTrue /\ LoopHolds /\ StopInOrder
  BY DEF Init, QueueIsTrue, LoopHolds, StopInOrder
<1> QED BY <1>4, <1>5, <1>6 DEF IpcInv

\* A step in which no connection moves.
LEMMA StillStep ==
    ASSUME IpcInv, UNCHANGED <<conn, queue, slots, connections, listening>>,
           client' \in [Clients -> {"away", "quiet", "asks", "waits", "gone"}],
           \/ UNCHANGED <<loop, held, stopChan, stop>>
           \/ AcceptFails \/ Retry \/ BeginStop \/ LoopHasReturned \/ Waited
    PROVE  IpcInv'
<1> USE DEF IpcInv
<1>1. Types'
  BY DEF Types, AcceptFails, Retry, BeginStop, LoopHasReturned, Waited, loopVars, AfterError, stopVars, clientVars
<1>2. SlotsAreHeld' /\ GroupCounts'
  BY DEF SlotsAreHeld, GroupCounts, AcceptFails, Retry, BeginStop, LoopHasReturned, Waited, loopVars, AfterError
<1>3. QueueIsTrue'
  BY DEF QueueIsTrue
<1>4. LoopHolds' /\ StopInOrder'
  BY DEF LoopHolds, StopInOrder, AcceptFails, Retry, BeginStop, LoopHasReturned, Waited, loopVars, AfterError, stopVars
<1> QED BY <1>1, <1>2, <1>3, <1>4

LEMMA ConnectStep == ASSUME IpcInv, NEW c \in Clients, Connect(c) PROVE IpcInv'
<1> USE DEF IpcInv
<1>1. conn' = [conn EXCEPT ![c] = "queued"] /\ conn[c] = "none" /\ conn \in [Clients -> Where] /\ "queued" \in Where
  BY DEF Connect, Types, Where
<1>2. "queued" \notin Running /\ "none" \notin Running /\ HasSlot \subseteq Running /\ Running \subseteq Where
  BY DEF Running, HasSlot, Serving, Where
<1>3. Types'
  BY <1>1 DEF Types, Connect, loopVars, stopVars
<1>4. SlotsAreHeld' /\ GroupCounts'
  <2>2. Cardinality(In(conn', HasSlot)) = Cardinality(In(conn, HasSlot))
    BY <1>1, <1>2, Moves
  <2>3. Cardinality(In(conn', Running)) = Cardinality(In(conn, Running))
    BY <1>1, <1>2, Moves
  <2> QED BY <2>2, <2>3 DEF SlotsAreHeld, GroupCounts, Connect, loopVars
<1>5. QueueIsTrue'
  <2>1. queue' = Append(queue, c) /\ listening /\ listening' = listening
    BY DEF Connect, stopVars
  <2>2. queue' \in Seq(Clients) /\ Len(queue') = Len(queue) + 1 /\ queue'[Len(queue) + 1] = c
        /\ \A k \in 1 .. Len(queue) : queue'[k] = queue[k] /\ queue[k] \in Clients /\ queue[k] # c
    BY <1>1, <2>1 DEF QueueIsTrue
  <2>3. \A k \in 1 .. Len(queue') : conn'[queue'[k]] = "queued"
    BY <1>1, <2>2 DEF QueueIsTrue
  <2>4. \A k, j \in 1 .. Len(queue') : queue'[k] = queue'[j] => k = j
    BY <2>2 DEF QueueIsTrue
  <2> QED BY <2>1, <2>2, <2>3, <2>4 DEF QueueIsTrue
<1>6. LoopHolds' /\ StopInOrder'
  BY <1>1 DEF LoopHolds, StopInOrder, Connect, loopVars, stopVars
<1> QED BY <1>3, <1>4, <1>5, <1>6

LEMMA AcceptStep == ASSUME IpcInv, Accept PROVE IpcInv'
<1> USE DEF IpcInv
<1> DEFINE c == Head(queue)
<1>1. /\ queue \in Seq(Clients) /\ queue # <<>> /\ c = queue[1] /\ c \in Clients /\ Len(queue) \in Nat /\ Len(queue) > 0
      /\ conn[c] = "queued"
  BY DEF Accept, QueueIsTrue
<1>2. /\ conn' = [conn EXCEPT ![c] = "held"] /\ conn \in [Clients -> Where] /\ "held" \in Where
      /\ queue' = Tail(queue) /\ held' = c /\ loop = "accept" /\ loop' = "slot" /\ held = None
      /\ UNCHANGED <<client, slots, connections, stopChan, listening, stop>>
  BY DEF Accept, Types, Where, LoopHolds, stopVars
<1>3. /\ Len(queue') = Len(queue) - 1 /\ queue' \in Seq(Clients)
      /\ \A k \in 1 .. Len(queue') : queue'[k] = queue[k + 1] /\ k + 1 \in 1 .. Len(queue)
  BY <1>1, <1>2
<1> HIDE DEF c
<1>4. Types'
  BY <1>1, <1>2 DEF Types
<1>5. SlotsAreHeld' /\ GroupCounts'
  <2>1. {"queued", "held"} \cap Running = {} /\ HasSlot \subseteq Running
    BY DEF Running, HasSlot, Serving
  <2> QED BY <1>1, <1>2, <2>1, Moves DEF SlotsAreHeld, GroupCounts
<1>6. QueueIsTrue'
  <2>1. \A k \in 1 .. Len(queue') : queue'[k] # c /\ conn[queue'[k]] = "queued" /\ queue'[k] \in Clients
    <3> SUFFICES ASSUME NEW k \in 1 .. Len(queue')
                 PROVE  queue'[k] # c /\ conn[queue'[k]] = "queued" /\ queue'[k] \in Clients
      OBVIOUS
    <3>1. queue'[k] = queue[k + 1] /\ k + 1 \in 1 .. Len(queue) /\ 1 \in 1 .. Len(queue) /\ k + 1 # 1
      BY <1>3
    <3>2. queue[k + 1] # queue[1] /\ queue[1] = c /\ queue[k + 1] \in Clients
      BY <1>1, <3>1 DEF QueueIsTrue
    <3> QED BY <1>1, <3>1, <3>2 DEF QueueIsTrue
  <2>2. \A k \in 1 .. Len(queue') : conn'[queue'[k]] = "queued"
    BY <1>2, <2>1
  <2>3. ASSUME NEW k \in 1 .. Len(queue'), NEW j \in 1 .. Len(queue'), queue'[k] = queue'[j] PROVE k = j
    <3>1. queue[k + 1] = queue[j + 1] /\ k + 1 \in 1 .. Len(queue) /\ j + 1 \in 1 .. Len(queue)
      BY <1>3, <2>3
    <3>2. k + 1 = j + 1 /\ k \in Nat /\ j \in Nat
      BY <3>1 DEF QueueIsTrue
    <3> QED BY <3>2
  <2>4. \A d \in Clients : conn'[d] = "queued" => listening'
    BY <1>2 DEF QueueIsTrue
  <2> QED BY <1>3, <2>2, <2>3, <2>4 DEF QueueIsTrue
<1>7. LoopHolds' /\ StopInOrder'
  BY <1>1, <1>2 DEF LoopHolds, StopInOrder
<1> QED BY <1>4, <1>5, <1>6, <1>7

LEMMA TakeSlotStep == ASSUME IpcInv, TakeSlot PROVE IpcInv'
<1> USE DEF IpcInv
<1>1. Types' /\ QueueIsTrue' /\ GroupCounts'
  BY DEF TakeSlot, Types, QueueIsTrue, GroupCounts, clientVars, stopVars
<1>2. Cardinality(In(conn, HasSlot)) \in Nat
  <2>1. IsFiniteSet(In(conn, HasSlot))
    BY FS_Subset DEF In
  <2> QED BY <2>1, FS_CardinalityType
<1>3. SlotsAreHeld'
  BY <1>2 DEF TakeSlot, SlotsAreHeld, clientVars
<1>4. LoopHolds' /\ StopInOrder'
  BY DEF TakeSlot, LoopHolds, StopInOrder, clientVars, stopVars
<1> QED BY <1>1, <1>3, <1>4

\* A connection that is neither queued nor held moves, and nothing else does.
LEMMA GoroutineStep ==
    ASSUME IpcInv, NEW c \in Clients, NEW at \in Running \cup {"none"}, conn[c] \in Running,
           conn' = [conn EXCEPT ![c] = at],
           client' \in [Clients -> {"away", "quiet", "asks", "waits", "gone"}],
           UNCHANGED <<queue, loop, held, stopChan, listening, stop>>,
           slots' = IF conn[c] \in HasSlot /\ at \notin HasSlot THEN slots - 1 ELSE slots,
           connections' = IF at \notin Running THEN connections - 1 ELSE connections,
           at \in HasSlot => conn[c] \in HasSlot
    PROVE  IpcInv'
<1> USE DEF IpcInv
<1>1. /\ conn \in [Clients -> Where] /\ at \in Where /\ at \notin {"queued", "held"}
      /\ conn[c] \notin {"queued", "held"} /\ HasSlot \subseteq Running
  BY DEF Types, Where, Running, HasSlot, Serving
<1>2. SlotsAreHeld' /\ Cardinality(In(conn', HasSlot)) <= Cardinality(In(conn, HasSlot)) /\ Cardinality(In(conn', HasSlot)) \in Nat
  <2> DEFINE before == Cardinality(In(conn, HasSlot))
             after == Cardinality(In(conn', HasSlot))
  <2>1. before \in Nat /\ (conn[c] \in HasSlot => before > 0)
    BY <1>1, Moves
  <2>2. after = IF conn[c] \in HasSlot /\ at \notin HasSlot THEN before - 1 ELSE before
    BY <1>1, Moves
  <2>3. slots = before + IF loop = "add" THEN 1 ELSE 0
    BY DEF SlotsAreHeld
  <2> HIDE DEF before, after
  <2>4. slots' = after + (IF loop = "add" THEN 1 ELSE 0) /\ after <= before /\ after \in Nat
    BY <2>1, <2>2, <2>3
  <2> QED BY <2>4 DEF SlotsAreHeld, before, after
<1>3. GroupCounts'
  BY <1>1, Moves DEF GroupCounts
<1>4. Types'
  <2>1. slots' \in Nat /\ slots' <= slots
    BY <1>1, <1>2, Moves DEF SlotsAreHeld, Types
  <2> QED BY <1>1, <2>1 DEF Types
<1>5. QueueIsTrue'
  BY <1>1 DEF QueueIsTrue
<1>6. LoopHolds'
  BY <1>1 DEF LoopHolds
<1>7. StopInOrder'
  <2>1. Cardinality(In(conn, Running)) > 0
    BY <1>1, Moves
  <2> QED BY <2>1 DEF StopInOrder, GroupCounts
<1> QED BY <1>2, <1>3, <1>4, <1>5, <1>6, <1>7

LEMMA ConnectionStep == ASSUME IpcInv, NEW c \in Clients, Connection(c) PROVE IpcInv'
<1> USE DEF IpcInv
<1> USE DEF Handler, GoesTo, loopVars, stopVars, Gone
<1>1. /\ conn \in [Clients -> Where] /\ client \in [Clients -> {"away", "quiet", "asks", "waits", "gone"}]
      /\ {"reading", "handling", "answering", "closed"} = HasSlot /\ Running = HasSlot \cup {"released"}
      /\ "released" \notin HasSlot /\ "none" \notin Running
  BY DEF Types, HasSlot, Running, Serving
<1>2. CASE Read(c)
  <2>1. client' \in [Clients -> {"away", "quiet", "asks", "waits", "gone"}]
    BY <1>1, <1>2 DEF Read
  <2> QED BY <1>1, <1>2, <2>1, GoroutineStep DEF Read
<1>3. CASE ReadFails(c)
  BY <1>1, <1>3, GoroutineStep DEF ReadFails
<1>4. CASE Handle(c)
  BY <1>1, <1>4, GoroutineStep DEF Handle
<1>5. CASE Answer(c)
  <2>1. client' \in [Clients -> {"away", "quiet", "asks", "waits", "gone"}]
    BY <1>1, <1>5 DEF Answer
  <2> QED BY <1>1, <1>5, <2>1, GoroutineStep DEF Answer
<1>6. CASE AnswerFails(c)
  BY <1>1, <1>6, GoroutineStep DEF AnswerFails
<1>7. CASE ReleaseSlot(c)
  BY <1>1, <1>7, GoroutineStep DEF ReleaseSlot, SlotFreed
<1>8. CASE Done(c)
  <2>1. client' \in [Clients -> {"away", "quiet", "asks", "waits", "gone"}]
    BY <1>1, <1>8 DEF Done
  <2> QED BY <1>1, <1>8, <2>1, GoroutineStep DEF Done
<1> QED BY <1>2, <1>3, <1>4, <1>5, <1>6, <1>7, <1>8 DEF Connection

LEMMA ServeStep == ASSUME IpcInv, Serve PROVE IpcInv'
<1> USE DEF IpcInv
<1>1. /\ conn \in [Clients -> Where] /\ conn' = [conn EXCEPT ![held] = "reading"] /\ held \in Clients /\ conn[held] = "held"
      /\ loop = "add" /\ loop' = "accept" /\ held' = None /\ connections' = connections + 1
      /\ UNCHANGED <<client, queue, slots, stopChan, listening, stop>>
  BY DEF Serve, Types, LoopHolds, stopVars
<1>2. "held" \notin Running /\ "held" \notin HasSlot /\ "reading" \in Where /\ "reading" \in Running /\ "reading" \in HasSlot
  BY DEF Running, HasSlot, Serving, Where
<1>3. Types'
  BY <1>1, <1>2 DEF Types
<1>4. SlotsAreHeld'
  <2>1. Cardinality(In(conn', HasSlot)) = Cardinality(In(conn, HasSlot)) + 1 /\ Cardinality(In(conn, HasSlot)) \in Nat
    BY <1>1, <1>2, Moves
  <2> QED BY <1>1, <2>1 DEF SlotsAreHeld
<1>5. GroupCounts'
  <2>1. Cardinality(In(conn', Running)) = Cardinality(In(conn, Running)) + 1
    BY <1>1, <1>2, Moves
  <2> QED BY <1>1, <2>1 DEF GroupCounts
<1>6. QueueIsTrue' /\ LoopHolds' /\ StopInOrder'
  BY <1>1 DEF QueueIsTrue, LoopHolds, StopInOrder
<1> QED BY <1>3, <1>4, <1>5, <1>6

LEMMA StopsHoldingStep == ASSUME IpcInv, StopsHolding PROVE IpcInv'
<1> USE DEF IpcInv
<1>1. /\ conn \in [Clients -> Where] /\ conn' = [conn EXCEPT ![held] = "none"] /\ held \in Clients /\ conn[held] = "held"
      /\ loop = "slot" /\ loop' = "returned" /\ held' = None
      /\ client' \in [Clients -> {"away", "quiet", "asks", "waits", "gone"}]
      /\ UNCHANGED <<queue, slots, connections, stopChan, listening, stop>>
  BY DEF StopsHolding, Types, LoopHolds, stopVars, Gone
<1>2. {"held", "none"} \cap Running = {} /\ {"held", "none"} \cap HasSlot = {} /\ "none" \in Where
  BY DEF Running, HasSlot, Serving, Where
<1>3. Types'
  BY <1>1, <1>2 DEF Types
<1>4. SlotsAreHeld' /\ GroupCounts'
  <2>1. Cardinality(In(conn', HasSlot)) = Cardinality(In(conn, HasSlot)) /\ Cardinality(In(conn', Running)) = Cardinality(In(conn, Running))
    BY <1>1, <1>2, Moves
  <2> QED BY <1>1, <2>1 DEF SlotsAreHeld, GroupCounts
<1>5. QueueIsTrue' /\ LoopHolds' /\ StopInOrder'
  BY <1>1 DEF QueueIsTrue, LoopHolds, StopInOrder
<1> QED BY <1>3, <1>4, <1>5

LEMMA CloseListenerStep == ASSUME IpcInv, CloseListener PROVE IpcInv'
<1> USE DEF IpcInv
<1>1. /\ conn \in [Clients -> Where] /\ conn' = [c \in Clients |-> IF conn[c] = "queued" THEN "none" ELSE conn[c]]
      /\ queue' = <<>> /\ ~listening' /\ stop = "listener" /\ stop' = "accepting"
      /\ UNCHANGED <<loop, held, slots, connections, stopChan>>
  BY DEF CloseListener, Types, AfterClose, loopVars
<1>2. {"queued", "none"} \cap Running = {} /\ {"queued", "none"} \cap HasSlot = {} /\ "none" \in Where
  BY DEF Running, HasSlot, Serving, Where
<1>3. client' \in [Clients -> {"away", "quiet", "asks", "waits", "gone"}] /\ listening' \in BOOLEAN
  BY DEF CloseListener, Types
<1>4. Types'
  BY <1>1, <1>2, <1>3 DEF Types
<1>5. SlotsAreHeld' /\ GroupCounts'
  <2>1. In(conn', HasSlot) = In(conn, HasSlot) /\ In(conn', Running) = In(conn, Running)
    BY <1>1, <1>2 DEF In
  <2> QED BY <1>1, <2>1 DEF SlotsAreHeld, GroupCounts
<1>6. QueueIsTrue'
  BY <1>1 DEF QueueIsTrue
<1>7. LoopHolds' /\ StopInOrder'
  BY <1>1 DEF LoopHolds, StopInOrder
<1> QED BY <1>4, <1>5, <1>6, <1>7

LEMMA IpcInvStep == IpcInv /\ [Next]_vars => IpcInv'
<1> SUFFICES ASSUME IpcInv, [Next]_vars PROVE IpcInv'
  OBVIOUS
<1>1. client \in [Clients -> {"away", "quiet", "asks", "waits", "gone"}]
  BY DEF IpcInv, Types
<1>2. CASE UNCHANGED vars \/ Ended
  BY <1>1, <1>2, StillStep DEF vars, Ended
<1>3. ASSUME NEW c \in Clients, Connect(c) PROVE IpcInv'
  BY <1>3, ConnectStep
<1>4. ASSUME NEW c \in Clients, Ask(c) \/ Leave(c) PROVE IpcInv'
  <2>1. client' \in [Clients -> {"away", "quiet", "asks", "waits", "gone"}]
    BY <1>1, <1>4 DEF Ask, Leave
  <2> QED BY <1>4, <2>1, StillStep DEF Ask, Leave, loopVars, stopVars
<1>5. ASSUME NEW c \in Clients, Connection(c) PROVE IpcInv'
  BY <1>5, ConnectionStep
<1>6. CASE AcceptFails \/ Retry
  BY <1>1, <1>6, StillStep DEF AcceptFails, Retry, clientVars, stopVars
<1>7. CASE AcceptLoop
  BY <1>6, <1>7, AcceptStep, TakeSlotStep, StopsHoldingStep, ServeStep DEF AcceptLoop
<1>8. CASE BeginStop \/ LoopHasReturned \/ Waited
  BY <1>1, <1>8, StillStep DEF BeginStop, LoopHasReturned, Waited, clientVars
<1>9. CASE Stop
  BY <1>8, <1>9, CloseListenerStep DEF Stop
<1> QED BY <1>2, <1>3, <1>4, <1>5, <1>7, <1>8, <1>9 DEF Next

\* The counters included, every variable keeps its type: no more clients are
\* served than there are slots (ipc.go:29-31).
THEOREM IpcTypeOK == Spec => []TypeOK
<1>1. IpcInv => TypeOK
  <2> SUFFICES ASSUME IpcInv PROVE TypeOK
    OBVIOUS
  <2>1. IsFiniteSet(In(conn, Running))
    BY FS_Subset DEF In
  <2>2. connections \in Nat
    BY <2>1, FS_CardinalityType DEF IpcInv, GroupCounts
  <2>3. slots \in 0 .. MaxSlots
    BY DEF IpcInv, Types
  <2> QED BY <2>2, <2>3 DEF TypeOK, IpcInv, Types, QueueIsTrue, Where
<1> QED BY <1>1, IpcInvInit, IpcInvStep, PTL DEF Spec

\* Stop returns when nothing of the server runs any more (ipc.go:153-160).
THEOREM IpcNothingIsCutOff == Spec => []NothingIsCutOff
<1>1. IpcInv => NothingIsCutOff
  <2> SUFFICES ASSUME IpcInv, stop = "done" PROVE loop = "returned" /\ held = None /\ \A c \in Clients : conn[c] = "none"
    BY DEF NothingIsCutOff
  <2>1. loop = "returned" /\ held = None /\ ~listening
    BY DEF IpcInv, StopInOrder, LoopHolds
  <2>2. IsFiniteSet(In(conn, Running)) /\ Cardinality(In(conn, Running)) = 0
    BY FS_Subset DEF In, IpcInv, StopInOrder, GroupCounts
  <2>3. In(conn, Running) = {}
    BY <2>2, FS_EmptySet
  <2>4. \A c \in Clients : conn[c] \in Where /\ conn[c] \notin Running /\ conn[c] # "queued" /\ conn[c] # "held"
    BY <2>1, <2>3 DEF In, IpcInv, Types, QueueIsTrue, LoopHolds
  <2> QED BY <2>1, <2>4 DEF Where
<1> QED BY <1>1, IpcInvInit, IpcInvStep, PTL DEF Spec

\* The WaitGroup is not misused, whatever connects while Stop waits (ipc.go:153-157).
THEOREM IpcNoAddDuringWait == Spec => NoAddDuringWait
<1>1. IpcInv /\ [Next]_vars => [stop = "group" => connections' <= connections]_vars
  <2> SUFFICES ASSUME IpcInv, Next, stop = "group" PROVE connections' <= connections
    OBVIOUS
  <2>1. loop = "returned"
    BY DEF IpcInv, StopInOrder
  <2>2. connections \in Nat
    <3>1. IsFiniteSet(In(conn, Running))
      BY FS_Subset DEF In
    <3> QED BY <3>1, FS_CardinalityType DEF IpcInv, GroupCounts
  <2>3. connections' = connections \/ connections' = connections - 1
    BY <2>1 DEF Next, Connect, Ask, Leave, Connection, Read, ReadFails, Handle, Answer, AnswerFails, ReleaseSlot, Done, Handler,
       AcceptLoop, Accept, AcceptFails, Retry, TakeSlot, StopsHolding, Serve, BeginStop, Stop, CloseListener, LoopHasReturned,
       Waited, Ended, vars
  <2> QED BY <2>2, <2>3
<1> QED BY <1>1, IpcInvInit, IpcInvStep, PTL DEF Spec, NoAddDuringWait

-----------------------------------------------------------------------------
(***************************************************************************)
(* The log.  What the rotations rely on: the name a file is moved to is    *)
(* free, or holds the oldest one (ChainHasRoom); what is past the count    *)
(* has been removed when a rotation begins, and is removed from the old    *)
(* end (Removing); the size the next rotation is decided by is that of the *)
(* file (Counted).                                                         *)
(***************************************************************************)

InWrite == {"close", "shift", "reopen", "write"}

Counted ==
    /\ \A n \in Files : Content(disk[n]).bytes = 0 <=> Lines(n) = <<>>
    /\ SizeIsTrue
    /\ file = "open" => disk[0] # Absent /\ pc \notin {"closed", "shift", "reopen"}
    /\ file = "dead" => faults > 0

Phases ==
    /\ pc \in {"closed", "idle", "ended"} => line = 0
    /\ pc \in InWrite => line \in Lengths
    /\ line # 0 => written < MaxLines
    /\ pc \in {"idle", "close", "prune", "remove"} => file = "open"
    /\ due \subseteq Files \ {0} /\ (pc # "remove" => due = {})
    /\ pc = "shift" => i = 0 \/ i < backups

Ordered ==
    /\ InOrder /\ \A n \in Filled : Newest(n) <= written
    /\ 0 \in Filled => Newest(0) = written

NoneLostBetween ==
    \A n \in Filled \ due : Newest(n) = written \/ \E m \in Filled : m < n /\ Oldest(m) = Newest(n) + 1

Removing ==
    /\ \A m \in due, n \in Filled : n > m => n \in due
    /\ pc \in InWrite \cup {"idle", "remove"} => \A n \in Filled : n > backups => n \in due

ChainHasRoom == pc = "shift" /\ i + 1 < backups => i + 1 \notin Filled

Bounded ==
    faults = 0 /\ MaxBytes > 0 =>
        /\ \A n \in Files : Content(disk[n]).bytes <= MaxBytes \/ Len(Lines(n)) = 1
        /\ pc = "reopen" => disk[0] = Absent
        /\ pc \in {"prune", "remove"} /\ line # 0 => size = 0
        /\ pc = "write" => size = 0 \/ size + line <= MaxBytes

LogInv ==
    /\ LogTypeOK /\ Counted /\ Phases /\ Ordered
    /\ ~torn => NoneLostBetween /\ Removing /\ ChainHasRoom
    /\ Bounded

USE LogAssumption

LEMMA LogTypeStep == ASSUME LogInv, [LogNext]_logVars PROVE LogTypeOK'
<1> USE DEF LogInv, LogTypeOK
<1>1. Files \in SUBSET Nat /\ 0 \in Files
  BY DEF Files
<1>2. \A f \in LogFile \cup {Absent} : Content(f) \in LogFile
  BY DEF Content, Empty, LogFile
<1>3. \A f \in LogFile : f.bytes \in Nat /\ f.lines \in Seq(Nat)
  BY DEF LogFile
<1>4. CASE Open
  <2>1. Content(disk[0]) \in LogFile
    BY <1>1, <1>2
  <2>2. disk' \in [Files -> LogFile \cup {Absent}]
    BY <2>1, <1>4 DEF Open
  <2> QED BY <1>3, <1>4, <2>1, <2>2 DEF Open
<1>5. CASE Line
  BY <1>5 DEF Line
<1>6. CASE CloseLog
  <2>1. backups > 0 => backups - 1 \in Files
    BY DEF Files
  <2> QED BY <1>1, <1>6, <2>1 DEF CloseLog
<1>20. CASE CloseLogFails
  BY <1>20 DEF CloseLogFails, Fails
<1>7. CASE Shift
  <2>1. i - 1 \in Files /\ (disk[i] # Absent => i + 1 \in Files)
    BY <1>7 DEF Shift, Files, Phases
  <2> QED BY <1>7, <2>1 DEF Shift
<1>8. CASE ShiftFails
  <2>1. i - 1 \in Files
    BY <1>8 DEF ShiftFails, Files
  <2> QED BY <1>8, <2>1 DEF ShiftFails, Fails, AfterFailedRename
<1>9. CASE ShiftCurrent
  <2>1. backups # 0 => 1 \in Files
    BY DEF Files
  <2> QED BY <1>1, <1>9, <2>1 DEF ShiftCurrent
<1>10. CASE ShiftCurrentFails
  BY <1>10 DEF ShiftCurrentFails, Fails
<1>11. CASE Reopen
  <2>1. Content(disk[0]) \in LogFile
    BY <1>1, <1>2
  <2>2. disk' \in [Files -> LogFile \cup {Absent}]
    BY <2>1, <1>11 DEF Reopen
  <2> QED BY <1>3, <1>11, <2>1, <2>2 DEF Reopen, SizeOnReopen
<1>12. CASE ReopenFails
  BY <1>12 DEF ReopenFails, Fails
<1>13. CASE Prune \/ PruneEnds
  BY <1>13 DEF Prune, PruneEnds
<1>14. CASE Remove
  BY <1>14 DEF Remove
<1>15. CASE RemoveFails
  BY <1>15 DEF RemoveFails, Fails
<1>16. CASE WriteLine
  <2>1. disk[0] \in LogFile /\ line \in Lengths /\ written < MaxLines
    BY <1>1, <1>16 DEF WriteLine, Counted, Phases, InWrite
  <2>2. /\ Append(disk[0].lines, written + 1) \in Seq(Nat) /\ disk[0].bytes + line \in Nat
        /\ size + line \in Nat /\ written + 1 \in 0 .. MaxLines
    BY <2>1, <1>3
  <2>3. [lines |-> Append(disk[0].lines, written + 1), bytes |-> disk[0].bytes + line] \in LogFile
    BY <2>2 DEF LogFile
  <2>4. disk' \in [Files -> LogFile \cup {Absent}]
    BY <2>3, <1>16 DEF WriteLine
  <2> QED BY <1>16, <2>2, <2>4 DEF WriteLine
<1>17. CASE WriteFails
  BY <1>17 DEF WriteFails, Fails
<1>18. CASE Close \/ Killed
  BY <1>18 DEF Close, Killed
<1>19. CASE UNCHANGED logVars
  BY <1>19 DEF logVars
<1> QED
  BY <1>4, <1>5, <1>6, <1>7, <1>8, <1>9, <1>10, <1>11, <1>12, <1>13, <1>14, <1>15, <1>16, <1>17,
     <1>18, <1>19, <1>20 DEF LogNext

\* What a step makes of a file is seen in its content.
LEMMA ContentFacts ==
    ASSUME LogInv
    PROVE  /\ Files \in SUBSET Nat /\ 0 \in Files
           /\ \A n \in Files : /\ Content(disk[n]) \in LogFile /\ Content(disk[n]).bytes \in Nat
                              /\ Lines(n) \in Seq(Nat)
           /\ Empty \in LogFile /\ Empty.lines = <<>> /\ Empty.bytes = 0
           /\ \A f \in LogFile : Content(f) = f
           /\ Content(Absent) = Empty
           /\ line \in Nat /\ written \in Nat /\ size \in Nat
<1>1. line \in Nat /\ size \in Nat
  BY DEF LogInv, LogTypeOK
<1>2. written \in Nat
  BY DEF LogInv, LogTypeOK
<1>3. Files \in SUBSET Nat /\ 0 \in Files
  BY DEF Files
<1>4. /\ Empty \in LogFile /\ Empty.lines = <<>> /\ Empty.bytes = 0 /\ Content(Absent) = Empty
      /\ \A f \in LogFile : Content(f) = f /\ f.bytes \in Nat /\ f.lines \in Seq(Nat)
  BY DEF Content, Empty, LogFile
<1>5. \A n \in Files : Content(disk[n]) \in LogFile
  BY <1>4 DEF LogInv, LogTypeOK, Content
<1> QED BY <1>1, <1>2, <1>3, <1>4, <1>5 DEF Lines

LEMMA FileFacts ==
    ASSUME LogInv, NEW n \in Filled
    PROVE  /\ n \in Nat /\ Len(Lines(n)) \in Nat \ {0}
           /\ Oldest(n) \in Nat /\ Newest(n) \in Nat /\ Oldest(n) <= Newest(n)
<1>1. n \in Nat /\ Lines(n) \in Seq(Nat) /\ Lines(n) # <<>>
  BY ContentFacts DEF Filled
<1>2. Len(Lines(n)) \in Nat \ {0} /\ 1 \in DOMAIN Lines(n) /\ Len(Lines(n)) \in DOMAIN Lines(n)
  BY <1>1
<1>3. Oldest(n) \in Nat /\ Newest(n) \in Nat
  BY <1>1, <1>2 DEF Oldest, Newest
<1>4. Oldest(n) + Len(Lines(n)) = Newest(n) + 1
  BY <1>2 DEF LogInv, Ordered, InOrder, Oldest
<1> QED BY <1>1, <1>2, <1>3, <1>4

Same == \A n \in Files : Content(disk[n])' = Content(disk[n])
\* A file is gone.
Removed(k) == \A n \in Files : Content(disk[n])' = IF n = k THEN Empty ELSE Content(disk[n])
\* A file has the next higher number, and what had that is gone.
Up(k) ==
    /\ k + 1 \in Files
    /\ \A n \in Files : Content(disk[n])' = IF n = k + 1 THEN Content(disk[k])
                                          ELSE IF n = k THEN Empty ELSE Content(disk[n])
Grown ==
    \A n \in Files : Content(disk[n])' =
        IF n = 0 THEN [lines |-> Append(Lines(0), written + 1), bytes |-> Content(disk[0]).bytes + line]
        ELSE Content(disk[n])

LEMMA DiskSteps ==
    ASSUME LogInv, [LogNext]_logVars
    PROVE  \/ Same /\ written' = written /\ ~Remove
           \/ Shift /\ Up(i) /\ written' = written
           \/ ShiftCurrent /\ backups # 0 /\ Up(0) /\ written' = written
           \/ ShiftCurrent /\ backups = 0 /\ Removed(0) /\ written' = written
           \/ Remove /\ (\E n \in due : Removed(n) /\ due' = due \ {n}) /\ written' = written
           \/ WriteLine /\ Grown
<1>0. disk \in [Files -> LogFile \cup {Absent}] /\ 0 \in Files /\ i \in Files /\ backups \in Files
  BY ContentFacts DEF LogInv, LogTypeOK
<1>1. CASE UNCHANGED disk /\ written' = written /\ ~Remove
  BY <1>1 DEF Same
<1>2. CASE (Open \/ Reopen) /\ ~Remove
  <2>1. disk' = [disk EXCEPT ![0] = Content(disk[0])] /\ written' = written
    BY <1>2 DEF Open, Reopen
  <2>2. Content(Content(disk[0])) = Content(disk[0])
    BY <1>0, ContentFacts
  <2> QED BY <1>0, <1>2, <2>1, <2>2 DEF Same
<1>3. CASE Shift /\ ~Remove
  <2>1. CASE disk[i] = Absent
    BY <1>3, <2>1 DEF Shift, Same
  <2>2. CASE disk[i] # Absent
    <3>1. i + 1 \in Files /\ i + 1 # i
      BY <1>0, <1>3 DEF Shift, LogInv, Phases, Files
    <3>2. disk' = [disk EXCEPT ![i + 1] = disk[i], ![i] = Absent] /\ written' = written
      BY <1>3, <2>2 DEF Shift
    <3>3. \A n \in Files : disk'[n] = IF n = i + 1 THEN disk[i] ELSE IF n = i THEN Absent ELSE disk[n]
      BY <1>0, <3>1, <3>2
    <3>4. Up(i)
      BY <3>1, <3>3, ContentFacts DEF Up
    <3> QED BY <1>3, <3>2, <3>4
  <2> QED BY <2>1, <2>2
<1>4. CASE ShiftCurrent
  <2>1. CASE backups = 0
    <3>1. disk' = [disk EXCEPT ![0] = Absent] /\ written' = written
      BY <1>4, <2>1 DEF ShiftCurrent
    <3>2. Removed(0)
      BY <1>0, <3>1, ContentFacts DEF Removed
    <3> QED BY <1>4, <2>1, <3>1, <3>2
  <2>2. CASE backups # 0
    <3>1. 0 + 1 \in Files /\ 0 + 1 = 1
      BY <1>0, <2>2 DEF Files
    <3>2. disk' = [disk EXCEPT ![1] = disk[0], ![0] = Absent] /\ written' = written
      BY <1>4, <2>2 DEF ShiftCurrent
    <3>3. \A n \in Files : disk'[n] = IF n = 1 THEN disk[0] ELSE IF n = 0 THEN Absent ELSE disk[n]
      BY <1>0, <3>1, <3>2
    <3>4. Up(0)
      BY <3>1, <3>3, ContentFacts DEF Up
    <3> QED BY <1>4, <2>2, <3>2, <3>4
  <2> QED BY <2>1, <2>2
<1>5. CASE Remove
  <2>1. PICK n \in due : disk' = [disk EXCEPT ![n] = Absent] /\ due' = due \ {n} /\ written' = written
    BY <1>5 DEF Remove
  <2>2. Removed(n)
    BY <1>0, <2>1, ContentFacts DEF Removed
  <2> QED BY <1>5, <2>1, <2>2
<1>6. CASE WriteLine
  <2>1. disk[0] \in LogFile
    BY <1>0, <1>6 DEF WriteLine, LogInv, Counted
  <2>2. line \in Nat /\ written \in Nat
    BY ContentFacts
  <2>3. Content(disk[0]) = disk[0] /\ disk[0].lines = Lines(0) /\ disk[0].lines \in Seq(Nat) /\ disk[0].bytes \in Nat
    BY <2>1, ContentFacts DEF Lines, LogFile
  <2>4. [lines |-> Append(disk[0].lines, written + 1), bytes |-> disk[0].bytes + line] \in LogFile
    BY <2>2, <2>3 DEF LogFile
  <2>5. disk' = [disk EXCEPT ![0] = [lines |-> Append(disk[0].lines, written + 1), bytes |-> disk[0].bytes + line]]
    BY <1>6 DEF WriteLine
  <2>6. Grown
    BY <1>0, <2>3, <2>4, <2>5, ContentFacts DEF Grown
  <2> QED BY <1>6, <2>6
<1>7. \/ UNCHANGED disk /\ written' = written
      \/ Open \/ Reopen \/ Shift \/ ShiftCurrent \/ Remove \/ WriteLine
  BY
  DEF LogNext, Line, CloseLog, CloseLogFails, ShiftFails, ShiftCurrentFails, ReopenFails, Prune,
      RemoveFails, PruneEnds, WriteFails, Close, Killed, logVars
<1>8. CASE Remove
  BY <1>5, <1>8
<1>9. CASE ~Remove
  BY <1>1, <1>2, <1>3, <1>4, <1>6, <1>7, <1>9
<1> QED BY <1>8, <1>9

-----------------------------------------------------------------------------
LEMMA SameFiles ==
    ASSUME LogInv, Same
    PROVE  /\ \A n \in Files : Lines(n)' = Lines(n) /\ Oldest(n)' = Oldest(n) /\ Newest(n)' = Newest(n)
           /\ Filled' = Filled
  BY DEF Same, Lines, Filled, Oldest, Newest, Files

LEMMA RemovedFiles ==
    ASSUME LogInv, NEW k \in Files, Removed(k)
    PROVE  /\ \A n \in Files \ {k} : Lines(n)' = Lines(n) /\ Oldest(n)' = Oldest(n) /\ Newest(n)' = Newest(n)
           /\ Filled' = Filled \ {k} /\ Lines(k)' = <<>>
  BY ContentFacts DEF Removed, Lines, Filled, Oldest, Newest, Files

LEMMA UpFiles ==
    ASSUME LogInv, NEW k \in Files, Up(k)
    PROVE  /\ \A n \in Files \ {k, k + 1} :
                  Lines(n)' = Lines(n) /\ Oldest(n)' = Oldest(n) /\ Newest(n)' = Newest(n)
           /\ Lines(k + 1)' = Lines(k) /\ Oldest(k + 1)' = Oldest(k) /\ Newest(k + 1)' = Newest(k)
           /\ Lines(k)' = <<>> /\ k + 1 \in Files /\ k + 1 > k
           /\ Filled' = (Filled \ {k, k + 1}) \cup {n \in {k + 1} : k \in Filled}
<1>1. k + 1 \in Files /\ k + 1 > k /\ k + 1 # k
  BY ContentFacts DEF Up
<1>2. /\ Lines(k + 1)' = Lines(k) /\ Lines(k)' = <<>>
      /\ \A n \in Files \ {k, k + 1} : Lines(n)' = Lines(n)
  BY <1>1, ContentFacts DEF Up, Lines
<1>3. Filled' = (Filled \ {k, k + 1}) \cup {n \in {k + 1} : k \in Filled}
  BY <1>1, <1>2 DEF Filled, Files
<1> QED BY <1>1, <1>2, <1>3 DEF Oldest, Newest

LEMMA Appended ==
    ASSUME NEW S, NEW s \in Seq(S), NEW e \in S
    PROVE  /\ Len(Append(s, e)) = Len(s) + 1 /\ Append(s, e) # <<>>
           /\ \A m \in DOMAIN s : Append(s, e)[m] = s[m]
           /\ Append(s, e)[Len(s) + 1] = e
<1>1. Append(s, e) \in Seq(S) /\ Len(Append(s, e)) = Len(s) + 1 /\ Len(s) \in Nat
  OBVIOUS
<1>2. Append(s, e) # <<>>
  BY <1>1
<1>3. \A m \in DOMAIN s : Append(s, e)[m] = s[m]
  OBVIOUS
<1>4. Append(s, e)[Len(s) + 1] = e
  OBVIOUS
<1> QED BY <1>1, <1>2, <1>3, <1>4

LEMMA GrownFiles ==
    ASSUME LogInv, Grown, WriteLine
    PROVE  /\ \A n \in Files \ {0} : Lines(n)' = Lines(n) /\ Oldest(n)' = Oldest(n) /\ Newest(n)' = Newest(n)
           /\ Lines(0)' = Append(Lines(0), written + 1) /\ Newest(0)' = written + 1
           /\ Oldest(0)' = IF 0 \in Filled THEN Oldest(0) ELSE written + 1
           /\ Len(Lines(0)') = Len(Lines(0)) + 1
           /\ \A m \in DOMAIN Lines(0) : Lines(0)'[m] = Lines(0)[m]
           /\ Filled' = Filled \cup {0}
<1>1. Lines(0) \in Seq(Nat) /\ written \in Nat /\ 0 \in Files
  BY ContentFacts
<1>2. /\ Lines(0)' = Append(Lines(0), written + 1)
      /\ \A n \in Files \ {0} : Lines(n)' = Lines(n)
  BY <1>1 DEF Grown, Lines
<1>3. /\ Len(Lines(0)') = Len(Lines(0)) + 1 /\ Lines(0)' # <<>>
      /\ \A m \in DOMAIN Lines(0) : Lines(0)'[m] = Lines(0)[m]
      /\ Lines(0)'[Len(Lines(0)) + 1] = written + 1
  <2> DEFINE s == Lines(0)
             e == written + 1
  <2>1. s \in Seq(Nat) /\ e \in Nat
    BY <1>1
  <2> HIDE DEF s, e
  <2>2. /\ Len(Append(s, e)) = Len(s) + 1 /\ Append(s, e) # <<>>
        /\ \A m \in DOMAIN s : Append(s, e)[m] = s[m]
        /\ Append(s, e)[Len(s) + 1] = e
    BY <2>1, Appended
  <2> QED BY <1>2, <2>2 DEF s, e
<1>4. Filled' = Filled \cup {0}
  BY <1>1, <1>2, <1>3 DEF Filled, Files
<1>5. Newest(0)' = written + 1
  BY <1>3 DEF Newest
<1>6. Oldest(0)' = IF 0 \in Filled THEN Oldest(0) ELSE written + 1
  <2>1. CASE 0 \in Filled
    BY <1>1, <1>3, <2>1 DEF Oldest, Filled
  <2>2. CASE 0 \notin Filled
    BY <1>1, <1>2, <2>2 DEF Oldest, Filled
  <2> QED BY <2>1, <2>2
<1> QED BY <1>2, <1>3, <1>4, <1>5, <1>6 DEF Oldest, Newest

-----------------------------------------------------------------------------
LEMMA OrderedStep == ASSUME LogInv, [LogNext]_logVars PROVE Ordered'
<1>1. Ordered
  BY DEF LogInv
<1>2. CASE Same /\ written' = written
  <2>1. Filled \subseteq Files
    BY DEF Filled
  <2> QED BY <1>1, <1>2, <2>1, SameFiles, ContentFacts DEF Ordered, InOrder
<1>3. ASSUME NEW k \in Files, Up(k), written' = written PROVE Ordered'
  <2>1. \A n \in Filled' \ {k + 1} : /\ n \in Filled /\ n \in Nat /\ n # k
                                   /\ Lines(n)' = Lines(n) /\ Oldest(n)' = Oldest(n) /\ Newest(n)' = Newest(n)
    BY <1>3, UpFiles, ContentFacts DEF Filled
  <2>2. k + 1 \in Filled' => /\ k \in Filled /\ k \in Nat /\ Lines(k + 1)' = Lines(k)
                             /\ Oldest(k + 1)' = Oldest(k) /\ Newest(k + 1)' = Newest(k)
    BY <1>3, UpFiles, ContentFacts
  <2>3. ASSUME NEW n \in Filled'
        PROVE  /\ \A m \in DOMAIN Lines(n)' : Lines(n)'[m] + Len(Lines(n)') = Newest(n)' + m
               /\ Newest(n)' <= written'
    <3>1. CASE n = k + 1
      BY <1>1, <1>3, <2>2, <3>1 DEF Ordered, InOrder
    <3>2. CASE n # k + 1
      BY <1>1, <1>3, <2>1, <3>2 DEF Ordered, InOrder
    <3> QED BY <3>1, <3>2
  <2>4. ASSUME NEW m \in Filled', NEW n \in Filled', m < n PROVE Newest(n)' < Oldest(m)'
    <3>1. CASE m = k + 1
      <4>1. n \in Filled /\ k \in Filled /\ k < n
        BY <2>1, <2>2, <2>4, <3>1
      <4> QED BY <1>1, <2>1, <2>2, <2>4, <3>1, <4>1 DEF Ordered, InOrder
    <3>2. CASE n = k + 1
      <4>1. m \in Filled /\ k \in Filled /\ m < k
        BY <2>1, <2>2, <2>4, <3>2
      <4> QED BY <1>1, <2>1, <2>2, <2>4, <3>2, <4>1 DEF Ordered, InOrder
    <3>3. CASE m # k + 1 /\ n # k + 1
      BY <1>1, <2>1, <2>4, <3>3 DEF Ordered, InOrder
    <3> QED BY <3>1, <3>2, <3>3
  <2>5. 0 \in Filled' => Newest(0)' = written'
    <3>1. k + 1 # 0
      BY ContentFacts
    <3> QED BY <1>1, <1>3, <2>1, <3>1 DEF Ordered
  <2> QED BY <2>3, <2>4, <2>5 DEF Ordered, InOrder
<1>4. ASSUME NEW k \in Files, Removed(k), written' = written PROVE Ordered'
  <2>1. \A n \in Filled' : /\ n \in Filled
                           /\ Lines(n)' = Lines(n) /\ Oldest(n)' = Oldest(n) /\ Newest(n)' = Newest(n)
    BY <1>4, RemovedFiles DEF Filled
  <2> QED BY <1>1, <1>4, <2>1 DEF Ordered, InOrder
<1>5. CASE WriteLine /\ Grown
  <2>1. written \in Nat /\ written' = written + 1 /\ Lines(0) \in Seq(Nat)
    BY <1>5, ContentFacts DEF WriteLine
  <2>2. ASSUME NEW n \in Filled', n # 0
        PROVE  /\ n \in Filled /\ n \in Nat
               /\ Lines(n)' = Lines(n) /\ Oldest(n)' = Oldest(n) /\ Newest(n)' = Newest(n)
    BY <1>5, <2>2, GrownFiles, ContentFacts DEF Filled
  <2>3. \A n \in Filled : /\ n \in Nat /\ Newest(n) \in Nat /\ Oldest(n) \in Nat
                          /\ Oldest(n) <= Newest(n) /\ Newest(n) <= written
    BY <1>1, FileFacts DEF Ordered
  <2>4. Newest(0)' = written' /\ Len(Lines(0)') = Len(Lines(0)) + 1
    BY <1>5, <2>1, GrownFiles
  <2>5. \A m \in DOMAIN Lines(0)' : Lines(0)'[m] + Len(Lines(0)') = Newest(0)' + m
    <3>1. \A m \in DOMAIN Lines(0) : Lines(0)[m] + Len(Lines(0)) = written + m
      <4>1. CASE 0 \in Filled
        BY <1>1, <4>1 DEF Ordered, InOrder
      <4>2. CASE 0 \notin Filled
        BY <4>2, ContentFacts DEF Filled
      <4> QED BY <4>1, <4>2
    <3> SUFFICES ASSUME NEW m \in DOMAIN Lines(0)' PROVE Lines(0)'[m] + Len(Lines(0)') = Newest(0)' + m
      OBVIOUS
    <3>2. Lines(0)' = Append(Lines(0), written + 1)
      BY <1>5, GrownFiles
    <3>3. m \in DOMAIN Lines(0) \/ m = Len(Lines(0)) + 1
      BY <2>1, <3>2
    <3>4. CASE m \in DOMAIN Lines(0)
      <4>1. Lines(0)'[m] = Lines(0)[m] /\ Lines(0)[m] \in Nat /\ m \in Nat /\ Len(Lines(0)) \in Nat
        BY <1>5, <2>1, <3>4, GrownFiles
      <4>2. Lines(0)[m] + Len(Lines(0)) = written + m
        BY <3>1, <3>4
      <4>3. \A x, y \in Nat : x + y = written + m => x + (y + 1) = (written + 1) + m
        BY <2>1, <4>1
      <4>4. Lines(0)[m] + (Len(Lines(0)) + 1) = (written + 1) + m
        BY <4>1, <4>2, <4>3
      <4> QED BY <2>1, <2>4, <4>1, <4>4
    <3>5. CASE m = Len(Lines(0)) + 1
      <4>1. Lines(0)'[m] = written + 1 /\ Len(Lines(0)) \in Nat
        BY <2>1, <3>2, <3>5
      <4> QED BY <2>1, <2>4, <3>5, <4>1
    <3> QED BY <3>3, <3>4, <3>5
  <2>6. \A m, n \in Filled' : m < n => Newest(n)' < Oldest(m)'
    <3> SUFFICES ASSUME NEW m \in Filled', NEW n \in Filled', m < n PROVE Newest(n)' < Oldest(m)'
      OBVIOUS
    <3>1. m \in Nat /\ n \in Nat /\ n # 0
      BY <1>5, GrownFiles, <2>3
    <3>2. n \in Filled /\ Newest(n)' = Newest(n)
      BY <2>2, <3>1
    <3>3. CASE m \in Filled
      <4>1. Oldest(m)' = Oldest(m)
        BY <1>5, <2>2, <3>3, GrownFiles
      <4> QED BY <1>1, <3>2, <3>3, <4>1 DEF Ordered, InOrder
    <3>4. CASE m \notin Filled
      <4>1. Oldest(m)' = written + 1
        BY <1>5, <2>2, <3>4, GrownFiles
      <4> QED BY <2>1, <2>3, <3>2, <4>1
    <3> QED BY <3>3, <3>4
  <2>7. ASSUME NEW n \in Filled'
        PROVE  /\ \A m \in DOMAIN Lines(n)' : Lines(n)'[m] + Len(Lines(n)') = Newest(n)' + m
               /\ Newest(n)' <= written'
    <3>1. CASE n = 0
      BY <2>1, <2>4, <2>5, <3>1
    <3>2. CASE n # 0
      <4>1. n \in Filled /\ Lines(n)' = Lines(n) /\ Newest(n)' = Newest(n)
        BY <2>2, <3>2
      <4>2. Newest(n)' <= written'
        BY <2>1, <2>3, <4>1
      <4> QED BY <1>1, <4>1, <4>2 DEF Ordered, InOrder
    <3> QED BY <3>1, <3>2
  <2> QED BY <2>4, <2>6, <2>7 DEF Ordered, InOrder
<1>6. i \in Files /\ 0 \in Files /\ due \subseteq Files
  BY ContentFacts DEF LogInv, LogTypeOK
<1> QED BY <1>2, <1>3, <1>4, <1>5, <1>6, DiskSteps

-----------------------------------------------------------------------------
\* A hole that a prune leaves stays: torn is not taken back.
LEMMA TornStays == ASSUME LogInv, [LogNext]_logVars, ~torn' PROVE ~torn
  BY DEF LogNext, Open, Line, CloseLog, CloseLogFails, Shift, ShiftFails, ShiftCurrent,
         ShiftCurrentFails, Reopen, ReopenFails, Prune, Remove, RemoveFails, PruneEnds, WriteLine,
         WriteFails, Close, Killed, logVars

\* What is due is empty but in the loop of prune, which takes files off it.
LEMMA DueFacts ==
    ASSUME LogInv, [LogNext]_logVars, ~torn'
    PROVE  /\ due \subseteq Files \ {0}
           /\ Prune \/ due' = due \/ (Remove /\ \E n \in due : due' = due \ {n})
           /\ Prune => due = {}
           /\ Shift \/ ShiftCurrent \/ WriteLine => due = {} /\ due' = {}
<1>1. due \subseteq Files \ {0} /\ (pc # "remove" => due = {})
  BY DEF LogInv, Phases
<1>2. Killed \/ UNCHANGED logVars => due' = due
  <2>1. Killed => due = {} /\ due' = {}
    BY DEF Killed
  <2> QED BY <2>1 DEF logVars
<1>3. Remove => \E n \in due : due' = due \ {n}
  BY DEF Remove
<1>4. Shift \/ ShiftCurrent \/ WriteLine => due' = due /\ pc # "remove"
  BY DEF Shift, ShiftCurrent, WriteLine
<1>5. Open \/ Line \/ CloseLog \/ CloseLogFails \/ ShiftFails \/ ShiftCurrentFails \/ Reopen
      \/ ReopenFails \/ PruneEnds \/ WriteFails \/ Close => due' = due
  BY DEF Open, Line, CloseLog, CloseLogFails, ShiftFails, ShiftCurrentFails, Reopen, ReopenFails,
         PruneEnds, WriteFails, Close
<1>6. ~RemoveFails
  BY DEF RemoveFails
<1>7. Prune => due = {}
  BY <1>1 DEF Prune
<1> QED BY <1>1, <1>2, <1>3, <1>4, <1>5, <1>6, <1>7 DEF LogNext

LEMMA NoneLostStep == ASSUME LogInv, [LogNext]_logVars, ~torn' PROVE NoneLostBetween'
<1>1. ~torn /\ NoneLostBetween /\ Removing /\ ChainHasRoom
  BY TornStays DEF LogInv
<1>2. Filled \subseteq Files /\ Files \subseteq Nat
  BY ContentFacts DEF Filled
<1>3. CASE Same /\ written' = written /\ ~Remove
  <2>1. due \subseteq due'
    BY <1>3, DueFacts
  <2> QED BY <1>1, <1>2, <1>3, <2>1, SameFiles DEF NoneLostBetween
<1>4. ASSUME NEW k \in Files, Up(k), written' = written, due = {}, due' = {},
             k + 1 \in Filled => k + 1 = backups, \A n \in Filled : n <= backups
      PROVE  NoneLostBetween'
  <2>1. k \in Nat /\ k + 1 \in Nat /\ k + 1 > k
    BY <1>2, <1>4
  <2>2. \A n \in Filled' \ {k + 1} : n \in Filled \ {k} /\ n \in Nat /\ Newest(n)' = Newest(n)
    BY <1>4, <1>2, UpFiles
  <2>3. \A n \in Filled \ {k, k + 1} : n \in Filled' /\ Oldest(n)' = Oldest(n)
    BY <1>4, <1>2, UpFiles
  <2>4. /\ k + 1 \in Filled' <=> k \in Filled
        /\ Oldest(k + 1)' = Oldest(k) /\ Newest(k + 1)' = Newest(k)
    BY <1>4, <2>1, UpFiles
  <2> SUFFICES ASSUME NEW n \in Filled', Newest(n)' # written
               PROVE  \E m \in Filled' : m < n /\ Oldest(m)' = Newest(n)' + 1
    BY <1>4 DEF NoneLostBetween
  <2>5. CASE n = k + 1
    <3>1. PICK m \in Filled : m < k /\ Oldest(m) = Newest(k) + 1
      BY <1>1, <1>4, <2>4, <2>5 DEF NoneLostBetween
    <3>2. m \in Nat /\ m # k /\ m # k + 1 /\ m < k + 1
      BY <1>2, <2>1, <3>1
    <3> QED BY <2>3, <2>4, <2>5, <3>1, <3>2
  <2>6. CASE n # k + 1
    <3>1. n \in Filled /\ n \in Nat /\ n # k /\ Newest(n)' = Newest(n)
      BY <2>2, <2>6
    <3>2. PICK m \in Filled : m < n /\ Oldest(m) = Newest(n) + 1
      BY <1>1, <1>4, <3>1 DEF NoneLostBetween
    <3>3. m \in Nat
      BY <1>2
    <3>4. CASE m = k
      <4>1. k + 1 < n
        BY <2>1, <2>6, <3>1, <3>2, <3>4
      <4> QED BY <2>4, <3>1, <3>2, <3>4, <4>1
    <3>5. m # k + 1
      <4>1. backups \in Nat /\ n <= backups
        BY <1>2, <1>4, <3>1 DEF LogInv, LogTypeOK
      <4> QED BY <1>4, <2>1, <3>1, <3>2, <4>1
    <3>6. CASE m # k
      BY <2>3, <3>1, <3>2, <3>5, <3>6
    <3> QED BY <3>4, <3>6
  <2> QED BY <2>5, <2>6
<1>5. CASE Shift /\ Up(i) /\ written' = written
  <2>1. due = {} /\ due' = {} /\ pc = "shift"
    BY <1>5, DueFacts DEF Shift
  <2>2. \A n \in Filled : n <= backups
    BY <1>1, <1>2, <2>1 DEF Removing, InWrite, LogInv, LogTypeOK
  <2>3. i \in Files /\ i \in Nat /\ backups \in Nat /\ i < backups
    BY <1>2, <1>5, <2>1 DEF LogInv, LogTypeOK, Phases, Shift
  <2>4. i + 1 \in Filled => i + 1 = backups
    BY <1>1, <2>1, <2>3 DEF ChainHasRoom
  <2> QED BY <1>4, <1>5, <2>1, <2>2, <2>3, <2>4
<1>6. CASE ShiftCurrent /\ Up(0) /\ written' = written
  <2>1. due = {} /\ due' = {} /\ pc = "shift" /\ i = 0 /\ 0 \in Files
    BY <1>6, DueFacts, ContentFacts DEF ShiftCurrent
  <2>2. \A n \in Filled : n <= backups
    BY <1>1, <1>2, <2>1 DEF Removing, InWrite, LogInv, LogTypeOK
  <2>3. backups \in Nat
    BY <1>2 DEF LogInv, LogTypeOK
  <2>4. 0 + 1 \in Filled => 0 + 1 = backups
    BY <1>1, <2>1, <2>2, <2>3 DEF ChainHasRoom
  <2> QED BY <1>4, <1>6, <2>1, <2>2, <2>4
<1>7. CASE ShiftCurrent /\ backups = 0 /\ Removed(0) /\ written' = written
  <2>1. due = {} /\ pc = "shift" /\ 0 \in Files
    BY <1>7, DueFacts, ContentFacts DEF ShiftCurrent
  <2>2. Filled \subseteq {0}
    BY <1>1, <1>2, <1>7, <2>1 DEF Removing, InWrite
  <2>3. Filled' = {}
    BY <1>7, <2>1, <2>2, RemovedFiles
  <2> QED BY <2>3 DEF NoneLostBetween
<1>8. CASE Remove /\ (\E n \in due : Removed(n) /\ due' = due \ {n}) /\ written' = written
  <2>1. PICK k \in due : Removed(k) /\ due' = due \ {k}
    BY <1>8
  <2>2. k \in Files
    BY DueFacts
  <2>3. \A n \in Filled \ {k} : n \in Filled' /\ Oldest(n)' = Oldest(n) /\ Newest(n)' = Newest(n)
    BY <1>2, <2>1, <2>2, RemovedFiles
  <2>4. Filled' = Filled \ {k}
    BY <2>1, <2>2, RemovedFiles
  <2> SUFFICES ASSUME NEW n \in Filled', n \notin due', Newest(n)' # written
               PROVE  \E m \in Filled' : m < n /\ Oldest(m)' = Newest(n)' + 1
    BY <1>8 DEF NoneLostBetween
  <2>5. n \in Filled /\ n \notin due /\ n # k /\ Newest(n)' = Newest(n)
    BY <2>1, <2>3, <2>4
  <2>6. PICK m \in Filled : m < n /\ Oldest(m) = Newest(n) + 1
    BY <1>1, <2>5 DEF NoneLostBetween
  <2>7. m # k
    BY <1>1, <1>2, <2>5, <2>6 DEF Removing
  <2> QED BY <2>3, <2>5, <2>6, <2>7
<1>9. CASE WriteLine /\ Grown
  <2>1. due = {} /\ due' = {} /\ written \in Nat /\ written' = written + 1 /\ 0 \in Files
    BY <1>9, DueFacts, ContentFacts DEF WriteLine
  <2>2. \A n \in Filled : /\ n \in Filled' /\ Oldest(n)' = Oldest(n)
                          /\ n # 0 => Newest(n)' = Newest(n)
    BY <1>2, <1>9, GrownFiles
  <2>3. Newest(0)' = written' /\ 0 \in Filled' /\ Filled' = Filled \cup {0}
    BY <1>9, <2>1, GrownFiles
  <2> SUFFICES ASSUME NEW n \in Filled', n # 0
               PROVE  \E m \in Filled' : m < n /\ Oldest(m)' = Newest(n)' + 1
    BY <2>3 DEF NoneLostBetween
  <2>4. n \in Filled /\ n \in Nat /\ n > 0 /\ Newest(n)' = Newest(n)
    BY <1>2, <2>2, <2>3
  <2>5. CASE \E m \in Filled : m < n /\ Oldest(m) = Newest(n) + 1
    BY <2>2, <2>4, <2>5
  <2>6. CASE Newest(n) = written /\ 0 \notin Filled
    <3>1. Oldest(0)' = written + 1
      BY <1>9, <2>6, GrownFiles
    <3> QED BY <2>3, <2>4, <2>6, <3>1
  \* What is in the log is newer than what is in a backup.
  <2>7. CASE Newest(n) = written /\ 0 \in Filled
    <3>1. Newest(n) < Oldest(0) /\ Newest(0) = written
      BY <2>4, <2>7 DEF LogInv, Ordered, InOrder
    <3>2. Oldest(0) \in Nat /\ Newest(0) \in Nat /\ Oldest(0) <= Newest(0)
      BY <2>7, FileFacts
    <3> QED BY <2>1, <2>7, <3>1, <3>2
  <2> QED BY <1>1, <2>1, <2>4, <2>5, <2>6, <2>7 DEF NoneLostBetween
<1> QED BY <1>3, <1>5, <1>6, <1>7, <1>8, <1>9, DiskSteps

LEMMA RemovingStep == ASSUME LogInv, [LogNext]_logVars, ~torn' PROVE Removing'
<1>1. ~torn /\ Removing
  BY TornStays DEF LogInv
<1>2. /\ Filled \subseteq Files /\ Files \subseteq Nat /\ due \subseteq Files \ {0}
      /\ backups \in Nat /\ i \in Nat
  BY ContentFacts, DueFacts DEF Filled, LogInv, LogTypeOK
<1>3. \A n \in Filled : disk[n] # Absent
  BY ContentFacts DEF Filled, Lines
<1>4. CASE Prune
  <2>1. PICK cut \in 1 .. MaxBackups + 1 :
             due' = {n \in Files \ {0} : disk[n] # Absent /\ Expired(n, cut)}
    BY <1>4 DEF Prune
  <2>2. disk' = disk /\ backups' = backups /\ cut \in Nat
    BY <1>4 DEF Prune
  <2>3. Filled' = Filled
    BY <2>2 DEF Filled, Lines
  <2> QED BY <1>2, <1>3, <2>1, <2>2, <2>3 DEF Removing, Expired
<1>5. CASE Same /\ due' = due /\ ~Prune /\ ~Remove
  <2>1. Filled' = Filled
    BY <1>5, SameFiles
  <2>2. \/ pc' \notin InWrite \cup {"idle", "remove"}
        \/ pc \in InWrite \cup {"idle", "remove"} /\ backups' = backups
    BY <1>5 DEF LogNext, Open, Line, CloseLog, CloseLogFails, Shift, ShiftFails, ShiftCurrent,
                ShiftCurrentFails, Reopen, ReopenFails, RemoveFails, PruneEnds, WriteLine, WriteFails,
                Close, Killed, logVars, InWrite, AfterFailedRename
  <2> QED BY <1>1, <1>5, <2>1, <2>2 DEF Removing
<1>6. CASE (Shift /\ Up(i)) \/ (ShiftCurrent /\ backups # 0 /\ Up(0))
  <2>1. PICK k \in Files : Up(k) /\ k + 1 <= backups
    <3>1. Shift => i + 1 <= backups
      BY <1>2 DEF Shift, LogInv, Phases
    <3>2. backups # 0 => 0 + 1 <= backups
      BY <1>2
    <3>3. i \in Files /\ 0 \in Files
      BY ContentFacts DEF LogInv, LogTypeOK
    <3> QED BY <1>6, <3>1, <3>2, <3>3
  <2>2. due = {} /\ due' = {} /\ backups' = backups /\ pc = "shift"
    BY <1>6, DueFacts DEF Shift, ShiftCurrent
  <2>3. \A n \in Filled : n <= backups
    BY <1>1, <1>2, <2>2 DEF Removing, InWrite
  <2>4. \A n \in Filled' : n <= backups
    BY <2>1, <2>3, UpFiles
  <2>5. Filled' \subseteq Nat
    BY <1>2, <2>1, UpFiles
  <2>6. \A n \in Filled' : ~ n > backups
    BY <1>2, <2>4, <2>5
  <2> QED BY <2>2, <2>6 DEF Removing
<1>7. CASE ShiftCurrent /\ backups = 0 /\ Removed(0)
  <2>1. due = {} /\ due' = {} /\ backups' = backups /\ pc = "shift"
    BY <1>7, DueFacts DEF ShiftCurrent
  <2>2. Filled' \subseteq Filled
    BY <1>7, RemovedFiles, ContentFacts
  <2> QED BY <1>1, <2>1, <2>2 DEF Removing, InWrite
<1>8. CASE Remove /\ \E n \in due : Removed(n) /\ due' = due \ {n}
  <2>1. PICK k \in due : Removed(k) /\ due' = due \ {k}
    BY <1>8
  <2>2. Filled' = Filled \ {k}
    BY <1>2, <2>1, RemovedFiles
  <2>3. backups' = backups /\ pc' = pc
    BY <1>8 DEF Remove
  <2> QED BY <1>1, <2>1, <2>2, <2>3 DEF Removing
<1>9. CASE WriteLine /\ Grown
  <2>1. due = {} /\ due' = {} /\ backups' = backups /\ pc = "write"
    BY <1>9, DueFacts DEF WriteLine
  <2>2. Filled' = Filled \cup {0}
    BY <1>9, GrownFiles
  <2> QED BY <1>1, <1>2, <2>1, <2>2 DEF Removing, InWrite
<1> QED BY <1>4, <1>5, <1>6, <1>7, <1>8, <1>9, DiskSteps, DueFacts

LEMMA RoomStep == ASSUME LogInv, [LogNext]_logVars, ~torn' PROVE ChainHasRoom'
<1>1. ~torn /\ ChainHasRoom
  BY TornStays DEF LogInv
<1>2. i \in Nat /\ backups \in Nat /\ i \in Files
  BY ContentFacts DEF LogInv, LogTypeOK
<1>3. CASE CloseLog
  BY <1>2, <1>3 DEF CloseLog, ChainHasRoom
<1>4. CASE Shift
  <2>1. i' + 1 = i
    BY <1>2, <1>4 DEF Shift
  <2>2. CASE disk[i] = Absent
    <3>1. i \notin Filled'
      BY <1>2, <1>4, <2>2, ContentFacts DEF Shift, Filled, Lines
    <3> QED BY <2>1, <3>1 DEF ChainHasRoom
  <2>3. CASE disk[i] # Absent
    <3>1. i + 1 # i /\ disk' = [disk EXCEPT ![i + 1] = disk[i], ![i] = Absent]
      BY <1>2, <1>4, <2>3 DEF Shift
    <3>2. disk'[i] = Absent
      BY <1>2, <3>1 DEF LogInv, LogTypeOK
    <3>3. i \notin Filled'
      BY <3>2, ContentFacts DEF Filled, Lines
    <3> QED BY <2>1, <3>3 DEF ChainHasRoom
  <2> QED BY <2>2, <2>3
<1>5. CASE UNCHANGED logVars
  BY <1>1, <1>5 DEF ChainHasRoom, Filled, Lines, logVars
<1>6. CASE LogNext /\ ~CloseLog /\ ~Shift
  <2>1. pc' # "shift"
    BY <1>6 DEF LogNext, Open, Line, CloseLogFails, ShiftFails, ShiftCurrent, ShiftCurrentFails, Reopen,
                ReopenFails, Prune, Remove, RemoveFails, PruneEnds, WriteLine, WriteFails, Close, Killed,
                AfterFailedRename
  <2> QED BY <2>1 DEF ChainHasRoom
<1> QED BY <1>3, <1>4, <1>5, <1>6

LEMMA PhasesStep == ASSUME LogInv, [LogNext]_logVars PROVE Phases'
<1>1. Phases /\ LogTypeOK
  BY DEF LogInv
<1>2. line \in Nat /\ written \in Nat /\ i \in Nat /\ backups \in Nat /\ \A len \in Lengths : len # 0
  BY ContentFacts DEF LogInv, LogTypeOK
<1> USE DEF Phases, InWrite
<1>3. CASE Open \/ Close
  BY <1>1, <1>3 DEF Open, Close
<1>4. CASE Line
  BY <1>1, <1>2, <1>4 DEF Line
<1>5. CASE CloseLog
  BY <1>1, <1>2, <1>5 DEF CloseLog
<1>6. CASE CloseLogFails
  BY <1>1, <1>6 DEF CloseLogFails
<1>7. CASE Shift
  BY <1>1, <1>2, <1>7 DEF Shift
<1>8. CASE ShiftFails \/ ShiftCurrent \/ ShiftCurrentFails
  BY <1>1, <1>8 DEF ShiftFails, ShiftCurrent, ShiftCurrentFails, AfterFailedRename
<1>9. CASE Reopen \/ ReopenFails
  BY <1>1, <1>9 DEF Reopen, ReopenFails
<1>10. CASE Prune
  <2>1. due' \subseteq Files \ {0}
    BY <1>10 DEF Prune
  <2> QED BY <1>1, <1>10, <2>1 DEF Prune
<1>11. CASE Remove \/ RemoveFails
  <2>1. due' \subseteq due
    BY <1>11 DEF Remove, RemoveFails
  <2> QED BY <1>1, <1>11, <2>1 DEF Remove, RemoveFails
<1>12. CASE PruneEnds
  BY <1>1, <1>12 DEF PruneEnds, LogTypeOK
<1>13. CASE WriteLine \/ WriteFails
  BY <1>1, <1>13 DEF WriteLine, WriteFails
<1>14. CASE Killed
  BY <1>1, <1>14 DEF Killed
<1>15. CASE UNCHANGED logVars
  BY <1>1, <1>15 DEF logVars
<1> QED BY <1>3, <1>4, <1>5, <1>6, <1>7, <1>8, <1>9, <1>10, <1>11, <1>12, <1>13, <1>14, <1>15 DEF LogNext

LEMMA CountedStep == ASSUME LogInv, [LogNext]_logVars PROVE Counted'
<1>1. Counted /\ Phases /\ LogTypeOK
  BY DEF LogInv
<1>2. 0 \in Files /\ i \in Files /\ due \subseteq Files /\ disk \in [Files -> LogFile \cup {Absent}]
  BY <1>1, ContentFacts DEF LogTypeOK
<1>3. \A n \in Files : Content(disk[n])'.bytes = 0 <=> Lines(n)' = <<>>
  <2>1. CASE Same
    BY <1>1, <2>1 DEF Same, Counted, Lines
  <2>2. ASSUME NEW k \in Files, Up(k) PROVE <1>3!:
    BY <1>1, <2>2, ContentFacts DEF Up, Counted, Lines
  <2>3. ASSUME NEW k \in Files, Removed(k) PROVE <1>3!:
    BY <1>1, <2>3, ContentFacts DEF Removed, Counted, Lines
  <2>4. CASE WriteLine /\ Grown
    <3>1. line \in Nat \ {0} /\ Content(disk[0]).bytes \in Nat /\ Lines(0) \in Seq(Nat) /\ written \in Nat
      BY <1>1, <2>4, ContentFacts DEF WriteLine, Phases, InWrite
    <3>2. Content(disk[0]).bytes + line # 0
      BY <3>1
    <3>3. Lines(0)' # <<>>
      BY <2>4, GrownFiles DEF Filled
    <3>4. /\ Content(disk[0])'.bytes = Content(disk[0]).bytes + line
          /\ \A n \in Files \ {0} : Content(disk[n])' = Content(disk[n])
      BY <1>2, <2>4 DEF Grown
    <3> QED BY <1>1, <3>2, <3>3, <3>4 DEF Counted, Lines
  <2> QED BY <1>2, <2>1, <2>2, <2>3, <2>4, DiskSteps
<1>4. file' = "dead" => faults' > 0
  <2>1. faults \in Nat
    BY <1>1 DEF LogTypeOK
  <2>2. file' = "dead" => CloseLogFails \/ file = "dead"
    BY DEF LogNext, Open, Line, CloseLog, CloseLogFails, Shift, ShiftFails, ShiftCurrent,
           ShiftCurrentFails, Reopen, ReopenFails, Prune, Remove, RemoveFails, PruneEnds, WriteLine,
           WriteFails, Close, Killed, logVars
  <2>3. faults' = faults \/ faults' = faults + 1
    BY DEF LogNext, Open, Line, CloseLog, CloseLogFails, Shift, ShiftFails, ShiftCurrent,
           ShiftCurrentFails, Reopen, ReopenFails, Prune, Remove, RemoveFails, PruneEnds, WriteLine,
           WriteFails, Close, Killed, logVars, Fails
  <2>4. CloseLogFails => faults' = faults + 1
    BY DEF CloseLogFails, Fails
  <2> QED BY <1>1, <2>1, <2>2, <2>3, <2>4 DEF Counted
<1>5. file' = "open" => /\ disk'[0] # Absent /\ pc' \notin {"closed", "shift", "reopen"}
                        /\ size' = Content(disk'[0]).bytes
  <2>1. CASE Open \/ Reopen
    <3>1. disk'[0] = Content(disk[0]) /\ size' = Content(disk[0]).bytes /\ pc' = "prune"
      BY <1>2, <2>1 DEF Open, Reopen, SizeOnReopen
    <3>2. Content(disk[0]) \in LogFile /\ Content(Content(disk[0])) = Content(disk[0])
      BY <1>2, ContentFacts
    <3> QED BY <3>1, <3>2
  <2>2. CASE WriteLine
    <3>1. disk[0] \in LogFile /\ Content(disk[0]) = disk[0]
      BY <1>1, <1>2, <2>2, ContentFacts DEF WriteLine, Counted
    <3>2. disk'[0] = [lines |-> Append(disk[0].lines, written + 1), bytes |-> disk[0].bytes + line]
      BY <1>2, <2>2 DEF WriteLine
    <3>3. disk'[0] \in LogFile
      <4>1. Append(disk[0].lines, written + 1) \in Seq(Nat) /\ disk[0].bytes + line \in Nat
        BY <3>1, ContentFacts DEF LogFile
      <4> QED BY <3>2, <4>1 DEF LogFile
    <3>4. Content(disk'[0]) = disk'[0]
      BY <3>3, ContentFacts
    <3>5. disk'[0].bytes = disk[0].bytes + line
      BY <3>2
    <3>6. size = disk[0].bytes /\ size' = size + line /\ pc' = "idle"
      BY <1>1, <2>2, <3>1 DEF WriteLine, Counted, SizeIsTrue
    <3>7. disk'[0] # Absent
      BY <3>3
    <3> QED BY <3>4, <3>5, <3>6, <3>7
  <2>3. CASE Remove
    <3>1. disk'[0] = disk[0] /\ size' = size /\ file' = file /\ pc' = pc
      BY <1>1, <1>2, <2>3 DEF Remove, Phases
    <3> QED BY <1>1, <3>1 DEF Counted, SizeIsTrue
  <2>4. CASE Shift \/ ShiftCurrent
    BY <1>1, <2>4 DEF Shift, ShiftCurrent, Counted
  <2>5. CASE CloseLog \/ CloseLogFails \/ Close \/ Killed
    BY <2>5 DEF CloseLog, CloseLogFails, Close, Killed
  <2>6. CASE Line \/ ShiftFails \/ ShiftCurrentFails \/ ReopenFails \/ Prune \/ RemoveFails \/ PruneEnds
             \/ WriteFails
    <3>1. UNCHANGED <<disk, size, file>>
      BY <2>6 DEF Line, ShiftFails, ShiftCurrentFails, ReopenFails, Prune, RemoveFails, PruneEnds, WriteFails
    <3>2. pc \in {"shift", "reopen"} \/ pc' \notin {"closed", "shift", "reopen"}
      BY <2>6 DEF Line, ShiftFails, ShiftCurrentFails, ReopenFails, Prune, RemoveFails, PruneEnds, WriteFails
    <3> QED BY <1>1, <3>1, <3>2 DEF Counted, SizeIsTrue
  <2>7. CASE UNCHANGED logVars
    BY <1>1, <2>7 DEF logVars, Counted, SizeIsTrue
  <2> QED BY <2>1, <2>2, <2>3, <2>4, <2>5, <2>6, <2>7 DEF LogNext
<1> QED BY <1>3, <1>4, <1>5 DEF Counted, SizeIsTrue

LEMMA BoundedStep == ASSUME LogInv, [LogNext]_logVars PROVE Bounded'
<1>1. Bounded /\ Counted /\ Phases /\ LogTypeOK
  BY DEF LogInv
<1>2. /\ Files \subseteq Nat /\ 0 \in Files /\ i \in Files /\ due \subseteq Files /\ faults \in Nat
      /\ line \in Nat /\ size \in Nat /\ written \in Nat
      /\ disk \in [Files -> LogFile \cup {Absent}]
  BY <1>1, ContentFacts DEF LogTypeOK
<1> SUFFICES ASSUME faults' = 0, MaxBytes > 0
             PROVE  /\ \A n \in Files : Content(disk[n])'.bytes <= MaxBytes \/ Len(Lines(n)') = 1
                    /\ pc' = "reopen" => disk'[0] = Absent
                    /\ pc' \in {"prune", "remove"} /\ line' # 0 => size' = 0
                    /\ pc' = "write" => size' = 0 \/ size' + line' <= MaxBytes
  BY DEF Bounded, Lines
<1>3. faults = 0 /\ ~Fails /\ ~WriteFails
  <2>1. faults' = faults \/ faults' = faults + 1
    BY DEF LogNext, Open, Line, CloseLog, CloseLogFails, Shift, ShiftFails, ShiftCurrent,
           ShiftCurrentFails, Reopen, ReopenFails, Prune, Remove, RemoveFails, PruneEnds, WriteLine,
           WriteFails, Close, Killed, logVars, Fails
  <2>2. faults = 0 /\ ~Fails
    BY <1>2, <2>1 DEF Fails
  <2> QED BY <1>1, <2>2 DEF WriteFails, Counted
<1>4. /\ \A n \in Files : Content(disk[n]).bytes <= MaxBytes \/ Len(Lines(n)) = 1
      /\ pc = "reopen" => disk[0] = Absent
      /\ pc \in {"prune", "remove"} /\ line # 0 => size = 0
      /\ pc = "write" => size = 0 \/ size + line <= MaxBytes
  BY <1>1, <1>3 DEF Bounded
<1>5. \A n \in Files : Content(disk[n])'.bytes <= MaxBytes \/ Len(Lines(n)') = 1
  <2>1. CASE Same
    BY <1>4, <2>1 DEF Same, Lines
  <2>2. ASSUME NEW k \in Files, Up(k) PROVE <1>5!:
    <3>1. Empty.bytes <= MaxBytes
      BY ContentFacts, LogAssumption
    <3>2. ASSUME NEW n \in Files PROVE Content(disk[n])' \in {Empty, Content(disk[k]), Content(disk[n])}
      BY <2>2 DEF Up
    <3> QED BY <1>4, <3>1, <3>2 DEF Lines
  <2>3. ASSUME NEW k \in Files, Removed(k) PROVE <1>5!:
    BY <1>4, <2>3, ContentFacts DEF Removed, Lines
  <2>4. CASE WriteLine /\ Grown
    <3>1. pc = "write" /\ size = Content(disk[0]).bytes /\ Lines(0) \in Seq(Nat)
      BY <1>1, <1>2, <2>4, ContentFacts DEF WriteLine, Counted, SizeIsTrue
    <3>2. /\ Content(disk[0])'.bytes = Content(disk[0]).bytes + line
          /\ Lines(0)' = Append(Lines(0), written + 1)
          /\ \A n \in Files \ {0} : Content(disk[n])' = Content(disk[n])
      BY <1>2, <2>4 DEF Grown, Lines
    <3>3. Content(disk[0])'.bytes <= MaxBytes \/ Len(Lines(0)') = 1
      <4>1. CASE size = 0
        <5>1. Lines(0) = <<>>
          BY <1>1, <1>2, <3>1, <4>1 DEF Counted
        <5>2. Len(Append(Lines(0), written + 1)) = 1
          BY <1>2, <5>1
        <5> QED BY <3>2, <5>2
      <4>2. CASE size + line <= MaxBytes
        BY <3>1, <3>2, <4>2
      <4> QED BY <1>4, <3>1, <4>1, <4>2
    <3> QED BY <1>4, <3>2, <3>3 DEF Lines
  <2> QED BY <1>2, <2>1, <2>2, <2>3, <2>4, DiskSteps
<1>6. pc' = "reopen" => disk'[0] = Absent
  <2>1. CASE ShiftCurrent
    <3>1. backups # 0 => 1 \in Files
      BY <1>1 DEF LogTypeOK, Files
    <3> QED BY <1>2, <2>1, <3>1 DEF ShiftCurrent
  <2>2. pc' = "reopen" => ShiftCurrent \/ (pc = "reopen" /\ disk' = disk)
    BY <1>3 DEF LogNext, Open, Line, CloseLog, CloseLogFails, Shift, ShiftFails, ShiftCurrent,
           ShiftCurrentFails, Reopen, ReopenFails, Prune, Remove, RemoveFails, PruneEnds, WriteLine,
           WriteFails, Close, Killed, logVars
  <2> QED BY <1>4, <2>1, <2>2
<1>7. pc' \in {"prune", "remove"} /\ line' # 0 => size' = 0
  <2>1. CASE Open
    BY <1>1, <2>1 DEF Open, Phases
  <2>2. CASE Reopen
    BY <1>4, <2>2, ContentFacts DEF Reopen, SizeOnReopen
  <2>3. pc' \in {"prune", "remove"} =>
            Open \/ Reopen \/ (pc \in {"prune", "remove"} /\ line' = line /\ size' = size)
    <3>1. CASE Prune \/ Remove \/ RemoveFails \/ UNCHANGED logVars
      BY <3>1 DEF Prune, Remove, RemoveFails, logVars
    <3>2. CASE Line \/ Shift \/ PruneEnds
      BY <3>2 DEF Line, Shift, PruneEnds
    <3>3. CASE CloseLog \/ CloseLogFails \/ ShiftFails \/ ShiftCurrent \/ ShiftCurrentFails
               \/ ReopenFails \/ WriteLine \/ WriteFails \/ Close \/ Killed
      BY <3>3 DEF CloseLog, CloseLogFails, ShiftFails, ShiftCurrent, ShiftCurrentFails, ReopenFails,
                  WriteLine, WriteFails, Close, Killed, AfterFailedRename
    <3> QED BY <3>1, <3>2, <3>3 DEF LogNext
  <2> QED BY <1>4, <2>1, <2>2, <2>3
<1>8. pc' = "write" => size' = 0 \/ size' + line' <= MaxBytes
  <2>1. CASE Line
    <3>1. PICK len \in Lengths : line' = len /\ pc' = IF NeedsRotation(len) THEN "close" ELSE "write"
      BY <2>1 DEF Line
    <3>2. size' = size /\ len \in Nat
      BY <2>1 DEF Line
    <3>3. pc' = "write" => ~NeedsRotation(len)
      BY <3>1
    <3> QED BY <1>2, <3>1, <3>2, <3>3 DEF NeedsRotation
  <2>2. CASE PruneEnds
    BY <1>4, <2>2 DEF PruneEnds
  <2>3. pc' = "write" => Line \/ PruneEnds \/ (pc = "write" /\ line' = line /\ size' = size)
    BY <1>3 DEF LogNext, Open, CloseLog, CloseLogFails, Shift, ShiftFails, ShiftCurrent,
           ShiftCurrentFails, Reopen, ReopenFails, Prune, Remove, RemoveFails, WriteLine,
           WriteFails, Close, Killed, logVars, AfterFailedRename
  <2> QED BY <1>4, <2>1, <2>2, <2>3
<1> QED BY <1>5, <1>6, <1>7, <1>8

LEMMA LogInvInit == ASSUME LogInit PROVE LogInv
<1>1. Files \subseteq Nat /\ 0 \in Files
  BY DEF Files
<1>2. \A n \in Files : disk[n] = Absent /\ Content(disk[n]) = Empty /\ Lines(n) = <<>>
  BY DEF LogInit, Lines, Content, Empty
<1>3. Filled = {}
  BY <1>2 DEF Filled
<1>4. Empty.bytes = 0 /\ Empty.lines = <<>>
  BY DEF Empty
<1>5. LogTypeOK
  <2>1. disk \in [Files -> LogFile \cup {Absent}]
    BY DEF LogInit
  <2>2. /\ written \in 0 .. MaxLines /\ faults \in 0 .. MaxFaults /\ opens \in 0 .. MaxOpens
        /\ line \in Lengths \cup {0} /\ size \in Nat
    BY DEF LogInit, LogAssumption
  <2>3. backups \in Files /\ i \in Files /\ due \subseteq Files
    BY <1>1 DEF LogInit
  <2> QED BY <2>1, <2>2, <2>3 DEF LogInit, LogTypeOK
<1>6. Counted /\ Phases
  BY <1>1, <1>2, <1>4 DEF LogInit, Counted, Phases, SizeIsTrue, InWrite
<1>7. Ordered /\ NoneLostBetween /\ Removing /\ ChainHasRoom
  BY <1>3 DEF LogInit, Ordered, InOrder, NoneLostBetween, Removing, ChainHasRoom
<1>8. Bounded
  BY <1>2, <1>4 DEF LogInit, Bounded
<1> QED BY <1>5, <1>6, <1>7, <1>8 DEF LogInv

LEMMA LogInvStep == ASSUME LogInv, [LogNext]_logVars PROVE LogInv'
<1>1. LogTypeOK' /\ Counted' /\ Phases' /\ Ordered' /\ Bounded'
  BY LogTypeStep, CountedStep, PhasesStep, OrderedStep, BoundedStep
<1>2. ~torn' => NoneLostBetween' /\ Removing' /\ ChainHasRoom'
  BY NoneLostStep, RemovingStep, RoomStep
<1> QED BY <1>1, <1>2 DEF LogInv

\* Of every log, with any maximum size, whatever fails and wherever the daemon is
\* killed: LogInv, the state in which rotate and prune find the files.
THEOREM LogInvariance == LogSpec => []LogInv
<1>1. LogInit => LogInv
  BY LogInvInit
<1>2. LogInv /\ [LogNext]_logVars => LogInv'
  BY LogInvStep
<1> QED BY <1>1, <1>2, PTL DEF LogSpec

\* The writer's variables keep their types: a file has whole lines and a size.
THEOREM LogTypesHold == LogSpec => []LogTypeOK
<1>1. LogInv => LogTypeOK
  BY DEF LogInv
<1> QED BY <1>1, LogInvariance, PTL

\* rotate and prune lose only the oldest lines: what is on disk is in order, and
\* is the end of what Write accepted, with nothing missing in the middle.
THEOREM LogKeepsTheTail == LogSpec => []KeepsTheTail
<1>1. LogInv => KeepsTheTail
  BY DEF LogInv, Ordered, NoneLostBetween, KeepsTheTail
<1> QED BY <1>1, LogInvariance, PTL

\* Writer.size, which decides the next rotation, is the size of the file.
THEOREM LogSizeIsTrue == LogSpec => []SizeIsTrue
<1>1. LogInv => SizeIsTrue
  BY DEF LogInv, Counted
<1> QED BY <1>1, LogInvariance, PTL

\* As long as nothing fails, no file is past the maximum but by a single line.
THEOREM LogFilesBounded == LogSpec => []FilesBounded
<1>1. LogInv => FilesBounded
  BY DEF LogInv, Bounded, FilesBounded
<1> QED BY <1>1, LogInvariance, PTL
=============================================================================

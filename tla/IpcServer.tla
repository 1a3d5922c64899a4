------------------------------ MODULE IpcServer -----------------------------
(***************************************************************************)
(* internal/server/ipc.go: the accept loop, a goroutine for every          *)
(* connection, the slots that bound them, and Stop.                        *)
(*                                                                         *)
(* What a request does is Supervisor's and Reload's; here it takes its     *)
(* time and ends.  Start, which runs before there is anything concurrent,  *)
(* has succeeded; the socket's path is left out.                           *)
(***************************************************************************)
EXTENDS Naturals, FiniteSets, Sequences

CONSTANTS Clients,   \* who may connect, any number of times
          MaxSlots,  \* maxConnections
          None

ASSUME IpcAssumption ==
    /\ IsFiniteSet(Clients) /\ None \notin Clients
    /\ MaxSlots \in Nat \ {0}

VARIABLES
    client,       \* what each client does: "away", "quiet", "asks", "waits", "gone"
    conn,         \* where its connection is: "none", "queued", "held" or with its goroutine
    queue,        \* the kernel's, of connections not accepted yet
    loop,         \* acceptConnections: "accept", "slot", "add", "backoff", "returned"
    held,         \* the connection it has accepted
    slots,        \* IPCServer.slots: how many are taken
    connections,  \* IPCServer.connections, the WaitGroup's counter
    stopChan,     \* IPCServer.stopChan is closed
    listening,    \* IPCServer.listener is open
    stop          \* Stop: "no", "listener", "accepting", "group", "done"

clientVars == <<client, conn, queue>>
loopVars == <<loop, held>>
stopVars == <<stopChan, listening, stop>>
vars == <<client, conn, queue, loop, held, slots, connections, stopChan, listening, stop>>

Serving == {"reading", "handling", "answering"}
\* The goroutine of a connection has not called connections.Done.
Running == Serving \cup {"closed", "released"}

TypeOK ==
    /\ client \in [Clients -> {"away", "quiet", "asks", "waits", "gone"}]
    /\ conn \in [Clients -> {"none", "queued", "held"} \cup Running]
    /\ queue \in Seq(Clients)
    /\ loop \in {"accept", "slot", "add", "backoff", "returned"}
    /\ held \in Clients \cup {None}
    /\ slots \in 0 .. MaxSlots
    /\ connections \in Nat
    /\ stopChan \in BOOLEAN /\ listening \in BOOLEAN
    /\ stop \in {"no", "listener", "accepting", "group", "done"}

Init ==
    /\ client = [c \in Clients |-> "away"] /\ conn = [c \in Clients |-> "none"] /\ queue = <<>>
    /\ loop = "accept" /\ held = None
    /\ slots = 0 /\ connections = 0
    /\ stopChan = FALSE /\ listening = TRUE /\ stop = "no"

-----------------------------------------------------------------------------
(* Clients, and the kernel's queue of the socket. *)

Connect(c) ==
    /\ listening /\ client[c] = "away" /\ conn[c] = "none"
    /\ client' = [client EXCEPT ![c] = "quiet"]
    /\ conn' = [conn EXCEPT ![c] = "queued"] /\ queue' = Append(queue, c)
    /\ UNCHANGED <<loopVars, slots, connections, stopVars>>

Ask(c) ==
    /\ client[c] = "quiet" /\ conn[c] # "none"
    /\ client' = [client EXCEPT ![c] = "asks"]
    /\ UNCHANGED <<conn, queue, loopVars, slots, connections, stopVars>>

\* A client goes, waiting for an answer or not, or sees the daemon's end closed.
Leave(c) ==
    /\ client[c] \notin {"away", "gone"}
    /\ client' = [client EXCEPT ![c] = IF conn[c] \in {"none", "closed", "released"} THEN "away" ELSE "gone"]
    /\ UNCHANGED <<conn, queue, loopVars, slots, connections, stopVars>>

-----------------------------------------------------------------------------
(* acceptConnections *)

Accept ==
    /\ loop = "accept" /\ queue # <<>> /\ loop' = "slot"
    /\ held' = Head(queue) /\ queue' = Tail(queue) /\ conn' = [conn EXCEPT ![Head(queue)] = "held"]
    /\ UNCHANGED <<client, slots, connections, stopVars>>

\* The listener is closed, or the process is out of descriptors.
AfterErrorRetried == "backoff"
AfterError == IF stopChan THEN "returned" ELSE "backoff"

AcceptFails ==
    /\ loop = "accept" /\ loop' = AfterError
    /\ UNCHANGED <<clientVars, held, slots, connections, stopVars>>

Retry ==
    /\ loop = "backoff" /\ loop' = "accept"
    /\ UNCHANGED <<clientVars, held, slots, connections, stopVars>>

TakeSlot ==
    /\ loop = "slot" /\ slots < MaxSlots /\ slots' = slots + 1 /\ loop' = "add"
    /\ UNCHANGED <<clientVars, held, connections, stopVars>>

\* The connection is closed: what the kernel had of the client goes with it.
Gone(c) == /\ conn' = [conn EXCEPT ![c] = "none"]
           /\ client' = [client EXCEPT ![c] = IF @ = "gone" THEN "away" ELSE @]

StopsHolding ==
    /\ loop = "slot" /\ stopChan /\ Gone(held) /\ held' = None /\ loop' = "returned"
    /\ UNCHANGED <<queue, slots, connections, stopVars>>

\* Add, and the go statement.
Serve ==
    /\ loop = "add" /\ connections' = connections + 1
    /\ conn' = [conn EXCEPT ![held] = "reading"]
    /\ held' = None /\ loop' = "accept"
    /\ UNCHANGED <<client, queue, slots, stopVars>>

AcceptLoop == Accept \/ AcceptFails \/ Retry \/ TakeSlot \/ StopsHolding \/ Serve

-----------------------------------------------------------------------------
(* handleConnection, and the goroutine's deferred calls. *)

GoesTo(c, at) == conn' = [conn EXCEPT ![c] = at]
Handler == UNCHANGED <<queue, loopVars, stopVars>>

Read(c) ==
    /\ conn[c] = "reading" /\ client[c] = "asks"
    /\ GoesTo(c, "handling") /\ client' = [client EXCEPT ![c] = "waits"]
    /\ Handler /\ UNCHANGED <<slots, connections>>

\* End of file, the deadline of a client that says nothing, or no request.
ReadFails(c) ==
    /\ conn[c] = "reading" /\ GoesTo(c, "closed")
    /\ Handler /\ UNCHANGED <<client, slots, connections>>

Handle(c) ==
    /\ conn[c] = "handling" /\ GoesTo(c, "answering")
    /\ Handler /\ UNCHANGED <<client, slots, connections>>

Answer(c) ==
    /\ conn[c] = "answering" /\ client[c] = "waits"
    /\ GoesTo(c, "reading") /\ client' = [client EXCEPT ![c] = "quiet"]
    /\ Handler /\ UNCHANGED <<slots, connections>>

\* The client has gone, or the deadline that was set before the request has passed.
AnswerFails(c) ==
    /\ conn[c] = "answering" /\ GoesTo(c, "closed")
    /\ Handler /\ UNCHANGED <<client, slots, connections>>

SlotKept == slots
SlotFreed == slots - 1

ReleaseSlot(c) ==
    /\ conn[c] = "closed" /\ GoesTo(c, "released") /\ slots' = SlotFreed
    /\ Handler /\ UNCHANGED <<client, connections>>

Done(c) ==
    /\ conn[c] = "released" /\ Gone(c) /\ connections' = connections - 1
    /\ Handler /\ UNCHANGED slots

Connection(c) == Read(c) \/ ReadFails(c) \/ Handle(c) \/ Answer(c) \/ AnswerFails(c) \/ ReleaseSlot(c) \/ Done(c)

-----------------------------------------------------------------------------
(* Stop *)

BeginStop ==
    /\ stop = "no" /\ stop' = "listener" /\ stopChan' = TRUE
    /\ UNCHANGED <<clientVars, loopVars, slots, connections, listening>>

\* Close: who is in the queue is turned away.
AfterCloseUnawaited == "group"
AfterClose == "accepting"

CloseListener ==
    /\ stop = "listener" /\ stop' = AfterClose /\ listening' = FALSE /\ queue' = <<>>
    /\ conn' = [c \in Clients |-> IF conn[c] = "queued" THEN "none" ELSE conn[c]]
    /\ client' = [c \in Clients |-> IF conn[c] = "queued" /\ client[c] = "gone" THEN "away" ELSE client[c]]
    /\ UNCHANGED <<loopVars, slots, connections, stopChan>>

LoopHasReturned ==
    /\ stop = "accepting" /\ loop = "returned" /\ stop' = "group"
    /\ UNCHANGED <<clientVars, loopVars, slots, connections, stopChan, listening>>

\* connections.Wait
Waited ==
    /\ stop = "group" /\ connections = 0 /\ stop' = "done"
    /\ UNCHANGED <<clientVars, loopVars, slots, connections, stopChan, listening>>

Stop == CloseListener \/ LoopHasReturned \/ Waited

\* Server.Stop goes on and the daemon ends.
Ended == stop = "done" /\ UNCHANGED vars

Next ==
    \/ \E c \in Clients : Connect(c) \/ Ask(c) \/ Leave(c) \/ Connection(c)
    \/ AcceptLoop \/ BeginStop \/ Stop \/ Ended

Spec == Init /\ [][Next]_vars

\* Goroutines run; a request is answered, and a client's silence has its deadline.
\* Accepting succeeds in the end while somebody is queued, and select takes
\* what stays ready.
Fairness ==
    /\ \A c \in Clients : WF_vars(Connection(c))
    /\ WF_vars(AcceptLoop) /\ SF_vars(Accept) /\ SF_vars(TakeSlot)
    /\ WF_vars(Stop)

FairSpec == Spec /\ Fairness

-----------------------------------------------------------------------------
(* Properties. *)

\* "an Add that starts while the counter is zero and a Wait is already running
\* is a WaitGroup misuse" (ipc.go:163-167): none starts while Stop is in Wait.
NoAddDuringWait == [][stop = "group" => connections' <= connections]_vars

\* Stop leaves no goroutine behind: a request that has been read is through, and
\* its client answered or given up, when the daemon goes on to its end, also one
\* that was only being accepted as Stop was called (ipc.go:161-170).
NothingIsCutOff == stop = "done" => /\ loop = "returned" /\ held = None
                                    /\ \A c \in Clients : conn[c] = "none"

\* A client that asks over and over keeps its connection for as long as it does;
\* sctl asks once.
TheyFallSilent == \A c \in Clients : <>[][~Ask(c)]_vars

\* "Hold the client rather than dropping it, so that a burst queues instead of
\* failing" (ipc.go:196-197): a slot comes free for it, unless the daemon stops.
BurstIsServed ==
    TheyFallSilent => \A c \in Clients : conn[c] \in {"queued", "held"} ~> conn[c] \in Serving \/ stop # "no"

\* Stop ends: the loop notices, and the clients that are connected, the silent
\* ones too, are let go of (ipc.go:35-37, 155-177).
StopEnds == TheyFallSilent => (stop # "no" ~> stop = "done")
=============================================================================

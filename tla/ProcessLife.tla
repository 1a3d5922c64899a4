---------------------------- MODULE ProcessLife -----------------------------
(***************************************************************************)
(* What internal/process promises the rest of the daemon of one program,   *)
(* with no goroutines, no runs and no locks, as long as no Stop overlaps a *)
(* start: the state others read, whether a child is alive, and whether the *)
(* last run has completed.  A program that rests is started, one child at  *)
(* a time; every state that says the run is over comes after its exit.     *)
(***************************************************************************)
VARIABLES state,     \* what GetState tells
          alive,     \* whether there is a child
          completed  \* what HasCompleted tells

vars == <<state, alive, completed>>

\* What may be started: at rest, about to be retried, or left in STOPPING by a
\* Stop that wrote it after the exit had been settled.
Resting == state \in {"STOPPED", "BACKOFF", "STOPPING"} /\ ~alive
Starting == state \in {"STARTING", "RUNNING"}

Init == state = "STOPPED" /\ alive = FALSE /\ completed = FALSE

\* Start: the latch of the last run is reset, the state is published, and then
\* there is a child, or the start has failed.
Resets == Resting /\ completed' = FALSE /\ UNCHANGED <<state, alive>>
Starts == Resting /\ ~completed /\ state' = "STARTING" /\ UNCHANGED <<alive, completed>>
Forks == Starting /\ ~alive /\ ~completed /\ alive' = TRUE /\ UNCHANGED <<state, completed>>
Fails == Starting /\ ~alive /\ ~completed /\ state' = "FATAL" /\ UNCHANGED <<alive, completed>>

ComesUp == state = "STARTING" /\ state' = "RUNNING" /\ UNCHANGED <<alive, completed>>

\* The exit, and what the monitor makes of it.
Dies == alive /\ alive' = FALSE /\ UNCHANGED <<state, completed>>

Over == ~alive /\ (Starting \/ state = "STOPPING")
Completes == Over /\ completed' = TRUE /\ UNCHANGED <<state, alive>>
Exits == Over /\ state' = "EXITED" /\ UNCHANGED <<alive, completed>>

Retries == ~alive /\ state = "EXITED" /\ state' = "BACKOFF" /\ UNCHANGED <<alive, completed>>
GivesUp ==
    /\ ~alive /\ state \in {"EXITED", "STOPPING"} /\ state' = "FATAL"
    /\ UNCHANGED <<alive, completed>>

\* Stop: from STOPPING on, and STOPPED when there is no child.
Stopping == state # "BACKOFF" /\ state' = "STOPPING" /\ UNCHANGED <<alive, completed>>
Stopped == ~alive /\ state # "BACKOFF" /\ state' = "STOPPED" /\ UNCHANGED <<alive, completed>>

Next ==
    \/ Resets \/ Starts \/ Forks \/ Fails \/ ComesUp
    \/ Dies \/ Completes \/ Exits \/ Retries \/ GivesUp
    \/ Stopping \/ Stopped

Spec == Init /\ [][Next]_vars
=============================================================================

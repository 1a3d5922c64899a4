----------------------------- MODULE ChildExits -----------------------------
(***************************************************************************)
(* What internal/process/reaper.go promises the rest of the daemon, with   *)
(* no PIDs, no registrations and no locks: every start that succeeds has a *)
(* child, and its exit is reported to that start, once, after it happened. *)
(* It is all that Process, for one, relies on.                             *)
(***************************************************************************)
CONSTANTS Starts,  \* calls of spawn
          None

VARIABLES life,    \* [Starts -> "none", "failed", or what the child is: "alive", "dead"]
          report   \* [Starts -> whose exit has been reported to it]

vars == <<life, report>>

Init == life = [s \in Starts |-> "none"] /\ report = [s \in Starts |-> None]

Begin(s) ==
    /\ life[s] = "none" /\ \E l \in {"alive", "failed"} : life' = [life EXCEPT ![s] = l]
    /\ UNCHANGED report

Die(s) ==
    /\ life[s] = "alive" /\ life' = [life EXCEPT ![s] = "dead"]
    /\ UNCHANGED report

Report(s) ==
    /\ life[s] = "dead" /\ report[s] = None /\ report' = [report EXCEPT ![s] = s]
    /\ UNCHANGED life

Next == \E s \in Starts : Begin(s) \/ Die(s) \/ Report(s)

Spec == Init /\ [][Next]_vars

FairSpec == Spec /\ \A s \in Starts : WF_vars(Report(s))
=============================================================================

------------------------------ MODULE MCReload ------------------------------
(* Instances of Reload. *)
EXTENDS Reload

CONSTANTS a, b, x, y

\* One program, which comes, goes and is redefined.
OneFile == [{a} -> {x, y, None}]

\* The same beside one that is in every file, and is not started by itself.
TwoFiles == {[n \in {a, b} |-> IF n = b THEN y ELSE d] : d \in {x, y, None}}

\* The daemon is started on a file whose program is not started by itself; it
\* is started by an operator, or after a reload, and then swapped.
InitFromRest == Init /\ config = [n \in Names |-> y]

FromRest == InitFromRest /\ [][Next]_vars /\ Fairness
=============================================================================

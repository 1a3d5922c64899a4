------------------------------ MODULE MCDaemon ------------------------------
(* Instances of Daemon. *)
EXTENDS Daemon, TLC

\* Daemons differ in nothing, nor do the files at one path, nor PIDs.
Symmetry == Permutations(Daemons) \cup Permutations(Inodes) \cup Permutations(Pids)

\* Two processes in a boot, on one PID or on two.
TwoInABoot == \A p, q \in Pids : p # q => uses[p] + uses[q] <= 2
=============================================================================

---------------------------- MODULE MCConfigCheck ----------------------------
(* Instances of ConfigCheck: up to two entries in each depends_on, all of them *)
(* waited for in the same way; one log path for each program.                  *)
EXTENDS ConfigCheck, TLC

CONSTANTS a, b, c, x, here, there

Lists(cond) ==
    {[i \in 1 .. n |-> [on |-> f[i], cond |-> cond]] :
         n \in 0 .. 2, f \in [1 .. 2 -> Names]}

ConfigsWith(logs) ==
    {[deps |-> d, logs |-> l] :
         d \in UNION {[Programs -> Lists(cond)] : cond \in {"started", "completed"}},
         l \in logs}

\* here and there are two files, or two ways to write the path of one.
Files == here :> 1 @@ there :> 2
OneFile == here :> 1 @@ there :> 1

Apart == (a :> {here}) @@ (b :> {there}) @@ (c :> {})
Together == (a :> {here}) @@ (b :> {here, there}) @@ (c :> {})

AllConfigs == ConfigsWith({Apart, Together})
ApartConfigs == ConfigsWith({Apart})
=============================================================================

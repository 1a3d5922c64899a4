----------------------------- MODULE ConfigCheck -----------------------------
(***************************************************************************)
(* internal/config: Validate, which every configuration passes before the  *)
(* daemon starts with it or reloads it: the depth-first search for a       *)
(* circular dependency, then the checks of the dependencies themselves and *)
(* of the log paths.                                                       *)
(***************************************************************************)
EXTENDS Naturals, Sequences, FiniteSets

CONSTANTS Programs,
          Missing,       \* names that depends_on may hold and no program has
          Configs,       \* the configurations to validate
          HealthChecked, \* the programs with a health_check
          Always,        \* the programs with autorestart: always
          File           \* [log path as it is written -> the file it leads to]

Names == Programs \cup Missing
Conditions == {"started", "healthy", "completed"}

\* A configuration: depends_on, and the log paths of the two streams.
Configuration ==
    [deps : [Programs -> Seq([on : Names, cond : Conditions])],
     logs : [Programs -> SUBSET DOMAIN File]]

ASSUME ConfigAssumption ==
    /\ Programs \cap Missing = {} /\ IsFiniteSet(Names)
    /\ Configs \subseteq Configuration
    /\ HealthChecked \subseteq Programs /\ Always \subseteq Programs

VARIABLES
    config,
    visited,   \* checkCircularDependency's two maps ...
    recStack,
    calls,     \* ... and its calls in progress: sequence of [name, i], i the
               \* entry of depends_on that is next
    verdict    \* "none" yet, "accepted", or what the error says

vars == <<config, visited, recStack, calls, verdict>>

Verdicts == {"none", "accepted", "circular", "missing", "unreachable", "shared log"}

TypeOK ==
    /\ config \in Configuration
    /\ visited \subseteq Names /\ recStack \subseteq visited
    /\ calls \in Seq([name : visited, i : Nat])
    /\ Len(calls) <= Cardinality(Names)
    /\ verdict \in Verdicts

Init ==
    /\ config \in Configs
    /\ visited = {} /\ recStack = {}
    /\ calls = <<>>
    /\ verdict = "none"

Entries(n) == IF n \in Programs THEN config.deps[n] ELSE <<>>

-----------------------------------------------------------------------------
\* Changed forms of definitions below, each a plausible wrong edit of the code;
\* no action of the specification uses them.
OnStackNever(n) == FALSE
ClearedNothing(n) == recStack

-----------------------------------------------------------------------------
(* checkCircularDependency *)

Call == calls[Len(calls)]
Callers == SubSeq(calls, 1, Len(calls) - 1)
Entry == Entries(Call.name)[Call.i].on

Checking == verdict = "none" /\ calls # <<>>

\* The Validate loop, over the map of programs in any order.
Marked(n) == visited \cup {n}

Begin(n) ==
    /\ verdict = "none" /\ calls = <<>>
    /\ n \notin visited
    /\ visited' = Marked(n) /\ recStack' = recStack \cup {n}
    /\ calls' = <<[name |-> n, i |-> 1]>>
    /\ UNCHANGED <<config, verdict>>

\* No such program: nothing more to do, and recStack keeps the name.
NoSuchProgram ==
    /\ Checking /\ Call.name \notin Programs
    /\ calls' = Callers
    /\ UNCHANGED <<config, visited, recStack, verdict>>

HasEntry == Checking /\ Call.name \in Programs /\ Call.i <= Len(Entries(Call.name))
Advanced == Append(Callers, [Call EXCEPT !.i = @ + 1])

Descend ==
    /\ HasEntry /\ Entry \notin visited
    /\ visited' = Marked(Entry) /\ recStack' = recStack \cup {Entry}
    /\ calls' = Append(Advanced, [name |-> Entry, i |-> 1])
    /\ UNCHANGED <<config, verdict>>

OnStack(n) == n \in recStack

PassOver ==
    /\ HasEntry /\ Entry \in visited /\ ~OnStack(Entry)
    /\ calls' = Advanced
    /\ UNCHANGED <<config, visited, recStack, verdict>>

RefuseCircular ==
    /\ HasEntry /\ Entry \in visited /\ OnStack(Entry)
    /\ verdict' = "circular"
    /\ UNCHANGED <<config, visited, recStack, calls>>

Cleared(n) == recStack \ {n}

Return ==
    /\ Checking /\ Call.name \in Programs /\ Call.i > Len(Entries(Call.name))
    /\ recStack' = Cleared(Call.name)
    /\ calls' = Callers
    /\ UNCHANGED <<config, visited, verdict>>

-----------------------------------------------------------------------------
(* The rest of Validate *)

Named(n) == {Entries(n)[i] : i \in DOMAIN Entries(n)}

\* No program of that name; a condition the dependency never reaches.
Absent(d) == d.on \notin Programs
Unreachable(d) ==
    \/ d.cond = "healthy" /\ d.on \notin HealthChecked
    \/ d.cond = "completed" /\ d.on \in Always

\* validateLogPaths compares the paths as they are written.
Shared == \E p, q \in Programs : p # q /\ config.logs[p] \cap config.logs[q] # {}

\* The dependencies are looked at one by one in the order of the names, which
\* decides only which of several errors is the one reported.
CheckRest ==
    /\ verdict = "none" /\ calls = <<>> /\ Programs \subseteq visited
    /\ LET all == UNION {Named(p) : p \in Programs} IN
           \/ (\E d \in all : Absent(d)) /\ verdict' = "missing"
           \/ (\E d \in all : ~Absent(d) /\ Unreachable(d)) /\ verdict' = "unreachable"
           \/ /\ \A d \in all : ~Absent(d) /\ ~Unreachable(d)
              /\ verdict' = IF Shared THEN "shared log" ELSE "accepted"
    /\ UNCHANGED <<config, visited, recStack, calls>>

Done == verdict # "none" /\ UNCHANGED vars

Next ==
    \/ (\E n \in Programs : Begin(n))
    \/ NoSuchProgram \/ Descend \/ PassOver \/ RefuseCircular \/ Return
    \/ CheckRest \/ Done

Spec == Init /\ [][Next]_vars /\ WF_vars(Next)

-----------------------------------------------------------------------------
(* Properties *)

\* checkCircularDependency: a program it is done with leads only to programs it
\* is done with, so none of these is looked at twice and none is on a cycle. The
\* search is over all programs, not one per start.
DoneStaysDone ==
    \A n \in visited \ recStack : \A d \in Named(n) :
        d.on \in visited /\ (d.on \in Programs => d.on \notin recStack)

\* A set of programs none of which can start before another of them has.
WaitOnEachOther(S) == \A n \in S : \E d \in Named(n) : d.on \in S

\* Validate: with a configuration that is accepted, every program can come up.
\* No programs wait on each other, or for a program that is not there, or for
\* what a program never does.
AcceptedCanAllStart ==
    verdict = "accepted" =>
        \A S \in (SUBSET Programs) \ {{}} :
            \E n \in S : \A d \in Named(n) :
                /\ d.on \in Programs \ S
                /\ ~Unreachable(d)

\* checkCircularDependency: where every name exists, "circular dependency
\* detected" is said only of a configuration that has one.
CircularIsReal ==
    verdict = "circular" /\ (\A p \in Programs : \A d \in Named(p) : ~Absent(d)) =>
        \E S \in SUBSET Programs : S # {} /\ WaitOnEachOther(S)

\* Validate comes to a verdict: the search ends on any graph, cyclic or not.
EndsWithVerdict == <>(verdict # "none")

\* The claims below are the source's own and do not hold of it.

\* Validate: a circular dependency is reported where there is one, and a name no
\* program has by the check "that all dependencies exist".
CircularIsCircular ==
    verdict = "circular" => \E S \in SUBSET Programs : S # {} /\ WaitOnEachOther(S)

\* validateLogPaths: each log file belongs to one program (README: "Two different
\* programs may not share a log file"). Two ways to write one path get past it.
LogsHaveOneOwner ==
    verdict = "accepted" =>
        \A p, q \in Programs : p # q =>
            {File[l] : l \in config.logs[p]} \cap {File[l] : l \in config.logs[q]} = {}
=============================================================================

--------------------------- MODULE DependencyGraph ---------------------------
(***************************************************************************)
(* internal/dependency: the graph built from the depends_on lists, its     *)
(* topological sort, which decides whether a configuration is accepted,    *)
(* and its tiers, which decide the order of a shutdown.                    *)
(*                                                                         *)
(* The graph keeps every edge twice, as the list a node was added with and *)
(* as an entry of the other end's Dependents. The loops over Go maps and   *)
(* the queue of the sort pick from a set in any order.                     *)
(***************************************************************************)
EXTENDS Naturals, Sequences, FiniteSets

CONSTANTS Names,
          MaxDeps,     \* bound: entries of a depends_on list
          MaxAdds,     \* bound: calls of AddNode
          Duplicates   \* whether a list may name a program twice

ASSUME GraphAssumption ==
    MaxDeps \in Nat /\ MaxAdds \in Nat /\ Duplicates \in BOOLEAN

VARIABLES
    nodes,        \* the names added
    deps,         \* [Names -> sequence of names], Node.Dependencies
    dependents,   \* [Names -> set of names], Node.Dependents (never twice the same)
    adds,
    pc,           \* "build", "sort", "sorted", "tiers", "tiered"
    inDegree,     \* [Names -> Nat]
    ready,        \* TopologicalSort's queue, or the tier that Tiers is at
    result,       \* TopologicalSort's result
    tiers         \* Tiers' result: a sequence of sets

vars == <<nodes, deps, dependents, adds, pc, inDegree, ready, result, tiers>>

Lists == {l \in UNION {[1 .. n -> Names] : n \in 0 .. MaxDeps} :
              Duplicates \/ \A i, j \in DOMAIN l : l[i] = l[j] => i = j}
Named(n) == {deps[n][i] : i \in DOMAIN deps[n]}

TypeOK ==
    /\ nodes \subseteq Names
    /\ deps \in [Names -> Lists]
    /\ dependents \in [Names -> SUBSET Names]
    /\ adds \in 0 .. MaxAdds
    /\ pc \in {"build", "sort", "sorted", "tiers", "tiered"}
    /\ inDegree \in [Names -> 0 .. MaxDeps]
    /\ ready \subseteq nodes
    /\ result \in Seq(nodes)
    /\ tiers \in Seq(SUBSET nodes)

Init ==
    /\ nodes = {}
    /\ deps = [n \in Names |-> <<>>]
    /\ dependents = [n \in Names |-> {}]
    /\ adds = 0
    /\ pc = "build"
    /\ inDegree = [n \in Names |-> 0]
    /\ ready = {}
    /\ result = <<>>
    /\ tiers = <<>>

-----------------------------------------------------------------------------
\* Changed forms of definitions below, each a plausible wrong edit of the code;
\* no action of the specification uses them.
LinkedOnlyEarlier(name, list, old) ==
    [n \in Names |-> IF n \in nodes /\ (\E i \in DOMAIN list : list[i] = n)
                     THEN old[n] \cup {name} ELSE old[n]]
DegreesOfAll == [n \in Names |-> Len(deps[n])]
TierLoweredToZero ==
    [m \in Names |-> IF \E n \in ready : m \in dependents[n] THEN 0 ELSE inDegree[m]]

-----------------------------------------------------------------------------
(* AddNode *)

\* The name leaves the Dependents of what it used to depend on.
Unlinked(name) ==
    [n \in Names |-> IF name \in nodes /\ n \in nodes /\ n \in Named(name)
                     THEN dependents[n] \ {name} ELSE dependents[n]]

\* It joins those of what it depends on now, and its own gain every node that
\* named it before it was there.
Linked(name, list, old) ==
    LET present == nodes \cup {name}
        Names1  == {list[i] : i \in DOMAIN list}
    IN  [n \in Names |->
            old[n] \cup (IF n \in present \cap Names1 THEN {name} ELSE {})
                   \cup (IF n = name THEN {m \in nodes \ {name} : name \in Named(m)} ELSE {})]

AddNode(name, list) ==
    /\ pc = "build" /\ adds < MaxAdds
    /\ adds' = adds + 1
    /\ nodes' = nodes \cup {name}
    /\ deps' = [deps EXCEPT ![name] = list]
    /\ dependents' = Linked(name, list, Unlinked(name))
    /\ UNCHANGED <<pc, inDegree, ready, result, tiers>>

-----------------------------------------------------------------------------
(* TopologicalSort and Tiers *)

\* One for every entry of the list that names a node, a repeated one included.
Degrees ==
    [n \in Names |-> IF n \in nodes
                     THEN Cardinality({i \in DOMAIN deps[n] : deps[n][i] \in nodes})
                     ELSE 0]

\* inDegree[dependent]-- for every dependent of n
Lowered(n) == [m \in Names |-> IF m \in dependents[n] THEN inDegree[m] - 1 ELSE inDegree[m]]

BeginSort ==
    /\ pc = "build"
    /\ pc' = "sort"
    /\ inDegree' = Degrees
    /\ ready' = {n \in nodes : Degrees[n] = 0}
    /\ UNCHANGED <<nodes, deps, dependents, adds, result, tiers>>

SortNext(n) ==
    /\ pc = "sort" /\ n \in ready
    /\ result' = Append(result, n)
    /\ inDegree' = Lowered(n)
    /\ ready' = (ready \ {n}) \cup {m \in dependents[n] : inDegree'[m] = 0}
    /\ UNCHANGED <<nodes, deps, dependents, adds, pc, tiers>>

SortEnds ==
    /\ pc = "sort" /\ ready = {}
    /\ pc' = "sorted"
    /\ UNCHANGED <<nodes, deps, dependents, adds, inDegree, ready, result, tiers>>

\* A configuration whose sort fails is refused.
Accepted == Len(result) = Cardinality(nodes)

BeginTiers ==
    /\ pc = "sorted" /\ Accepted
    /\ pc' = "tiers"
    /\ inDegree' = Degrees
    /\ ready' = {n \in nodes : Degrees[n] = 0}
    /\ UNCHANGED <<nodes, deps, dependents, adds, result, tiers>>

\* The whole tier lowers its dependents before the next one is looked at.
TierLowered ==
    [m \in Names |-> inDegree[m] - Cardinality({n \in ready : m \in dependents[n]})]

NextTier ==
    /\ pc = "tiers" /\ ready # {}
    /\ tiers' = Append(tiers, ready)
    /\ inDegree' = TierLowered
    /\ ready' = {m \in nodes : inDegree[m] > 0 /\ inDegree'[m] = 0}
    /\ UNCHANGED <<nodes, deps, dependents, adds, pc, result>>

TiersEnd ==
    /\ pc = "tiers" /\ ready = {}
    /\ pc' = "tiered"
    /\ UNCHANGED <<nodes, deps, dependents, adds, inDegree, ready, result, tiers>>

Next ==
    \/ \E name \in Names, list \in Lists : AddNode(name, list)
    \/ BeginSort \/ (\E n \in Names : SortNext(n)) \/ SortEnds
    \/ BeginTiers \/ NextTier \/ TiersEnd

Spec == Init /\ [][Next]_vars

-----------------------------------------------------------------------------
(* Properties *)

\* AddNode keeps the two records of an edge in step, whatever the order the
\* nodes come in and whether a node is added again: the sort reads one and
\* lowers by the other.
DependentsMirror ==
    \A m, n \in Names :
        m \in dependents[n] <=> m \in nodes /\ n \in nodes /\ n \in Named(m)

\* TopologicalSort: a node follows everything it depends on.
SortFollowsDependencies ==
    \A i \in DOMAIN result : \A d \in Named(result[i]) \cap nodes :
        \E j \in 1 .. i - 1 : result[j] = d

\* No set of nodes keeps itself waiting: the reference for "no cycle".
Acyclic ==
    \A S \in SUBSET nodes : S # {} => \E n \in S : Named(n) \cap S = {}

\* TopologicalSort "returns an error if a circular dependency is detected", and
\* for no other reason.
RefusesOnlyCycles == pc = "sorted" => (Accepted <=> Acyclic)

TierOf(n) == {k \in DOMAIN tiers : n \in tiers[k]}

\* Tiers: each node is in one tier, after everything it depends on, and no later
\* than it has to be (stopAllProcesses stops a whole tier at once, from the last).
TiersAreTight ==
    pc = "tiered" =>
        \A n \in nodes : \E k \in DOMAIN tiers :
            /\ TierOf(n) = {k}
            /\ \A d \in Named(n) \cap nodes : \A l \in TierOf(d) : l < k
            /\ k > 1 => \E d \in Named(n) \cap nodes : d \in tiers[k - 1]
=============================================================================

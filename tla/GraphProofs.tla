----------------------------- MODULE GraphProofs -----------------------------
(* Theorems about DependencyGraph, for any names and any bounds. *)
EXTENDS DependencyGraph, FiniteSetTheorems, TLAPS

\* What the induction needs of the variables' types.
Shapes ==
    /\ nodes \subseteq Names
    /\ deps \in [Names -> Lists]
    /\ dependents \in [Names -> SUBSET Names]

MirrorInv == Shapes /\ DependentsMirror

\* AddNode, for a new name and for one that is there already.
LEMMA AddKeepsMirror ==
    ASSUME MirrorInv, NEW name \in Names, NEW list \in Lists, AddNode(name, list)
    PROVE  MirrorInv'
  <1> DEFINE Listed == {list[i] : i \in DOMAIN list}
  <1>1. nodes' = nodes \cup {name} /\ deps' = [deps EXCEPT ![name] = list]
    BY DEF AddNode
  <1>2. \A n \in Names :
            dependents'[n] = Unlinked(name)[n]
                \cup (IF n \in nodes' \cap Listed THEN {name} ELSE {})
                \cup (IF n = name THEN {m \in nodes \ {name} : name \in Named(m)} ELSE {})
    BY <1>1 DEF AddNode, Linked
  <1>3. \A n \in Names :
            Unlinked(name)[n] = IF name \in nodes /\ n \in nodes /\ n \in Named(name)
                                THEN dependents[n] \ {name} ELSE dependents[n]
    BY DEF Unlinked
  <1>4. Shapes'
    <2>1. nodes' \subseteq Names /\ deps' \in [Names -> Lists]
      BY <1>1 DEF MirrorInv, Shapes
    <2>2. dependents' = Linked(name, list, Unlinked(name))
      BY DEF AddNode
    <2>3. \A n \in Names : dependents'[n] \in SUBSET Names
      BY <1>2, <1>3 DEF MirrorInv, Shapes
    <2> QED
      BY <2>1, <2>2, <2>3 DEF Shapes, Linked
  <1>5. Named(name)' = Listed
    BY <1>1 DEF Named, MirrorInv, Shapes
  <1>6. \A m \in Names : m # name => Named(m)' = Named(m)
    BY <1>1 DEF Named, MirrorInv, Shapes
  <1>7. DependentsMirror'
    <2> SUFFICES ASSUME NEW m \in Names, NEW n \in Names
                 PROVE  m \in dependents'[n] <=> m \in nodes' /\ n \in nodes' /\ n \in Named(m)'
      BY DEF DependentsMirror, Named
    <2>0. m \in dependents[n] <=> m \in nodes /\ n \in nodes /\ n \in Named(m)
      BY DEF MirrorInv, DependentsMirror
    <2>1. CASE m = name
      <3>1. name \notin Unlinked(name)[n]
        BY <1>3, <2>0, <2>1
      <3> QED
        BY <3>1, <1>1, <1>2, <1>5, <2>1
    <2>2. CASE m # name
      <3>1. m \in Unlinked(name)[n] <=> m \in dependents[n]
        BY <1>3, <2>2
      <3> QED
        BY <3>1, <1>1, <1>2, <1>6, <2>0, <2>2
    <2> QED
      BY <2>1, <2>2
  <1> QED
    BY <1>4, <1>7 DEF MirrorInv

\* AddNode keeps the two records of an edge in step, in whatever order the nodes
\* come; the sorts leave them alone.
THEOREM GraphDependentsMirror == Spec => []DependentsMirror
  <1>1. Init => MirrorInv
    <2> SUFFICES ASSUME Init PROVE MirrorInv
      OBVIOUS
    <2>1. <<>> \in Lists
      BY GraphAssumption DEF Lists
    <2> QED
      BY <2>1 DEF Init, MirrorInv, Shapes, DependentsMirror
  <1>2. MirrorInv /\ [Next]_vars => MirrorInv'
    <2> SUFFICES ASSUME MirrorInv, [Next]_vars PROVE MirrorInv'
      OBVIOUS
    <2>1. CASE \E name \in Names, list \in Lists : AddNode(name, list)
      BY <2>1, AddKeepsMirror
    <2>2. CASE UNCHANGED <<nodes, deps, dependents>>
      BY <2>2 DEF MirrorInv, Shapes, DependentsMirror, Named
    <2>3. ASSUME \/ BeginSort \/ (\E n \in Names : SortNext(n)) \/ SortEnds
                 \/ BeginTiers \/ NextTier \/ TiersEnd \/ UNCHANGED vars
          PROVE  UNCHANGED <<nodes, deps, dependents>>
      BY <2>3 DEF BeginSort, SortNext, SortEnds, BeginTiers, NextTier, TiersEnd, vars
    <2> QED
      BY <2>1, <2>2, <2>3 DEF Next
  <1>3. MirrorInv => DependentsMirror
    BY DEF MirrorInv
  <1> QED
    BY <1>1, <1>2, <1>3, PTL DEF Spec

-----------------------------------------------------------------------------
(* What a node is still behind: what it depends on and is not done yet *)

Behind(n, done) == (Named(n) \cap nodes) \ done

Out == {result[i] : i \in DOMAIN result}

\* The counts of the two loops, done being what they are through with: a node's
\* count is no less than what it is behind, and just that where no list repeats
\* a name; those that may go next are those whose count is zero.
Counts(done) ==
    /\ done \subseteq nodes
    /\ inDegree \in [Names -> 0 .. MaxDeps]
    /\ \A n \in nodes : Cardinality(Behind(n, done)) <= inDegree[n]
    /\ ~Duplicates => \A n \in nodes : inDegree[n] = Cardinality(Behind(n, done))
    /\ \A n \in done : inDegree[n] = 0
    /\ ready = {n \in nodes \ done : inDegree[n] = 0}

\* No nodes that are in the result wait on each other.
OutIsAcyclic == \A S \in SUBSET Out : S # {} => \E n \in S : Named(n) \cap S = {}

OutIsClosed == \A n \in Out : Named(n) \cap nodes \subseteq Out

\* What the sort keeps, and what it leaves behind when it ends.
SortInv ==
    /\ MirrorInv /\ IsFiniteSet(nodes)
    /\ pc \in {"build", "sort", "sorted", "tiers", "tiered"}
    /\ result \in Seq(nodes)
    /\ \A i, j \in DOMAIN result : result[i] = result[j] => i = j
    /\ pc = "build" => result = <<>> /\ ready = {} /\ inDegree = [n \in Names |-> 0]
    /\ SortFollowsDependencies /\ OutIsClosed /\ OutIsAcyclic
    /\ pc = "sort" => Counts(Out)
    /\ pc = "sorted" => ready = {} /\ inDegree \in [Names -> 0 .. MaxDeps]
    /\ pc # "build" /\ pc # "sort" /\ ~Duplicates =>
           \A n \in nodes \ Out : Behind(n, Out) # {}
    /\ pc \in {"tiers", "tiered"} => Accepted

LEMMA ListFacts ==
    ASSUME Shapes, NEW n \in Names
    PROVE  \E k \in 0 .. MaxDeps :
               /\ deps[n] \in [1 .. k -> Names]
               /\ Duplicates \/ \A i, j \in 1 .. k : deps[n][i] = deps[n][j] => i = j
  <1>1. deps[n] \in Lists
    BY DEF Shapes
  <1>2. PICK k \in 0 .. MaxDeps : deps[n] \in [1 .. k -> Names]
    BY <1>1 DEF Lists
  <1>3. Duplicates \/ \A i, j \in DOMAIN deps[n] : deps[n][i] = deps[n][j] => i = j
    BY <1>1 DEF Lists
  <1> QED
    BY <1>2, <1>3

LEMMA BehindFacts ==
    ASSUME Shapes, IsFiniteSet(nodes), NEW n \in Names, NEW done
    PROVE  /\ IsFiniteSet(Behind(n, done)) /\ Cardinality(Behind(n, done)) \in Nat
           /\ Cardinality(Behind(n, done)) = 0 <=> Behind(n, done) = {}
  <1>1. IsFiniteSet(Behind(n, done))
    <2>1. Behind(n, done) \in SUBSET nodes
      BY DEF Behind
    <2> QED
      BY <2>1, FS_Subset
  <1> QED
    BY <1>1, FS_CardinalityType, FS_EmptySet

\* The counts that both loops begin with: a repeated entry counts again.
LEMMA DegreesCount ==
    ASSUME Shapes, IsFiniteSet(nodes), NEW n \in nodes
    PROVE  /\ Degrees[n] \in 0 .. MaxDeps
           /\ Cardinality(Behind(n, {})) <= Degrees[n]
           /\ ~Duplicates => Degrees[n] = Cardinality(Behind(n, {}))
  <1> DEFINE I == {i \in DOMAIN deps[n] : deps[n][i] \in nodes}
             B == Behind(n, {})
  <1>0. n \in Names /\ Degrees[n] = Cardinality(I)
    BY DEF Shapes, Degrees
  <1>1. PICK k \in 0 .. MaxDeps :
            /\ deps[n] \in [1 .. k -> Names]
            /\ Duplicates \/ \A i, j \in 1 .. k : deps[n][i] = deps[n][j] => i = j
    BY <1>0, ListFacts
  <1>2. k \in Nat /\ k <= MaxDeps /\ MaxDeps \in Nat
    BY <1>1, GraphAssumption
  <1>3. IsFiniteSet(1 .. k) /\ Cardinality(1 .. k) = k
    BY <1>2, FS_Interval
  <1>4. I \in SUBSET (1 .. k)
    BY <1>1
  <1>5. IsFiniteSet(I) /\ Cardinality(I) <= k /\ Cardinality(I) \in Nat
    BY <1>3, <1>4, FS_Subset, FS_CardinalityType
  <1> DEFINE f == [i \in I |-> deps[n][i]]
  <1>6. f \in Surjection(I, B)
    BY <1>1 DEF Surjection, Behind, Named
  <1>7. Cardinality(B) <= Cardinality(I)
    BY <1>5, <1>6, FS_Surjection
  <1>8. ASSUME ~Duplicates PROVE Cardinality(I) = Cardinality(B)
    <2>1. f \in Injection(I, B)
      BY <1>1, <1>4, <1>6, <1>8 DEF Surjection, Injection, IsInjective
    <2>2. f \in Bijection(I, B)
      BY <2>1, <1>6 DEF Bijection
    <2> QED
      BY <2>2, <1>5, FS_Bijection DEF ExistsBijection
  <1> QED
    BY <1>0, <1>2, <1>5, <1>7, <1>8

\* Both loops begin with nothing done.
LEMMA BeginCounts ==
    ASSUME SortInv, inDegree' = Degrees, ready' = {n \in nodes : Degrees[n] = 0},
           UNCHANGED <<nodes, deps>>
    PROVE  Counts({})'
  <1>0. Shapes /\ IsFiniteSet(nodes)
    BY DEF SortInv, MirrorInv
  <1>1. Degrees \in [Names -> 0 .. MaxDeps]
    <2>1. \A n \in Names : Degrees[n] \in 0 .. MaxDeps
      <3> SUFFICES ASSUME NEW n \in Names PROVE Degrees[n] \in 0 .. MaxDeps
        OBVIOUS
      <3>1. CASE n \in nodes
        BY <3>1, <1>0, DegreesCount
      <3>2. CASE n \notin nodes
        BY <3>2, GraphAssumption DEF Degrees
      <3> QED
        BY <3>1, <3>2
    <2> QED
      BY <2>1 DEF Degrees
  <1>2. \A n : Behind(n, {})' = Behind(n, {})
    BY DEF Behind, Named
  <1>3. \A n \in nodes :
            /\ Cardinality(Behind(n, {})) <= Degrees[n]
            /\ ~Duplicates => Degrees[n] = Cardinality(Behind(n, {}))
    BY <1>0, DegreesCount
  <1>4. ready' = {n \in nodes' \ {} : inDegree'[n] = 0}
    OBVIOUS
  <1>5. \A n \in {} : inDegree'[n] = 0
    OBVIOUS
  <1>6. ~Duplicates => \A n \in nodes' : inDegree'[n] = Cardinality(Behind(n, {})')
    BY <1>2, <1>3
  <1>7. \A n \in nodes' : Cardinality(Behind(n, {})') <= inDegree'[n]
    BY <1>2, <1>3
  <1>8. {} \subseteq nodes' /\ inDegree' \in [Names -> 0 .. MaxDeps]
    BY <1>1
  <1> QED
    BY <1>4, <1>5, <1>6, <1>7, <1>8, Zenon DEF Counts

\* The counts once those in R are done.
Fallen(R) ==
    [m \in Names |-> inDegree[m] - Cardinality({n \in R : m \in dependents[n]})]

\* Both loops go on with some of those that may: they join what is done, and the
\* count of each node falls by as many of them as it depends on.
LEMMA LowerCounts ==
    ASSUME SortInv, NEW done, Counts(done), NEW R \in SUBSET ready
    PROVE  /\ Fallen(R) \in [Names -> 0 .. MaxDeps]
           /\ \A n \in nodes : Cardinality(Behind(n, done \cup R)) <= Fallen(R)[n]
           /\ ~Duplicates =>
                  \A n \in nodes : Fallen(R)[n] = Cardinality(Behind(n, done \cup R))
           /\ \A n \in done \cup ready :
                  Fallen(R)[n] = 0 /\ \A m \in R : n \notin dependents[m]
           /\ \A n \in Names : inDegree[n] # Fallen(R)[n] => \E m \in R : n \in dependents[m]
           /\ \A n \in nodes, m \in R : m \in Named(n) <=> n \in dependents[m]
  <1> DEFINE Lost(n) == {m \in R : n \in dependents[m]}
  <1>0. /\ Shapes /\ IsFiniteSet(nodes) /\ nodes \subseteq Names
        /\ ready \subseteq nodes /\ R \subseteq nodes
        /\ \A m \in R : m \notin done
        /\ inDegree \in [Names -> 0 .. MaxDeps] /\ MaxDeps \in Nat
    BY GraphAssumption DEF SortInv, MirrorInv, Shapes, Counts
  <1>1. \A n \in Names, m \in R : n \in dependents[m] <=> n \in nodes /\ m \in Named(n)
    BY <1>0 DEF SortInv, MirrorInv, DependentsMirror
  <1>2. \A n \in nodes : Lost(n) = Behind(n, done) \cap R
    BY <1>0, <1>1 DEF Behind
  <1>3. \A n \in Names \ nodes : Lost(n) = {}
    BY <1>1
  <1>4. \A n \in nodes : Behind(n, done \cup R) = Behind(n, done) \ R
    BY DEF Behind
  <1>5. ASSUME NEW n \in nodes
        PROVE  /\ Cardinality(Lost(n)) \in Nat /\ Cardinality(Lost(n)) <= Cardinality(Behind(n, done))
               /\ Cardinality(Behind(n, done)) \in Nat
               /\ Cardinality(Behind(n, done \cup R)) =
                      Cardinality(Behind(n, done)) - Cardinality(Lost(n))
               /\ Cardinality(Lost(n)) = 0 <=> Lost(n) = {}
    <2>1. IsFiniteSet(Behind(n, done)) /\ Cardinality(Behind(n, done)) \in Nat
      BY <1>0, BehindFacts
    <2>2. Lost(n) = Behind(n, done) \cap R /\ Lost(n) \in SUBSET Behind(n, done)
      BY <1>2
    <2>3. IsFiniteSet(Lost(n)) /\ Cardinality(Lost(n)) <= Cardinality(Behind(n, done))
      BY <2>1, <2>2, FS_Subset
    <2>4. Cardinality(Lost(n)) \in Nat /\ (Cardinality(Lost(n)) = 0 <=> Lost(n) = {})
      BY <2>3, FS_CardinalityType, FS_EmptySet
    <2>5. Cardinality(Behind(n, done) \ R) =
              Cardinality(Behind(n, done)) - Cardinality(Behind(n, done) \cap R)
      BY <2>1, FS_Difference
    <2> QED
      BY <2>1, <2>2, <2>3, <2>4, <2>5, <1>4
  <1>6. \A n \in Names : Fallen(R)[n] = inDegree[n] - Cardinality(Lost(n))
    BY DEF Fallen
  <1>7. \A n \in Names \ nodes : Cardinality(Lost(n)) = 0
    BY <1>3, FS_EmptySet
  <1> HIDE DEF Lost
  <1>8. \A n \in Names : inDegree[n] \in 0 .. MaxDeps
    BY <1>0
  <1>9. \A n \in nodes : Cardinality(Behind(n, done)) <= inDegree[n]
    BY DEF Counts
  <1>10. \A n \in nodes : Fallen(R)[n] \in 0 .. MaxDeps
    BY <1>0, <1>5, <1>6, <1>8, <1>9
  <1>11. \A n \in Names \ nodes : Fallen(R)[n] \in 0 .. MaxDeps
    BY <1>0, <1>6, <1>7, <1>8
  <1>12. Fallen(R) \in [Names -> 0 .. MaxDeps]
    BY <1>10, <1>11 DEF Fallen
  <1>13. ASSUME NEW n \in nodes
         PROVE  Cardinality(Behind(n, done \cup R)) <= Fallen(R)[n]
    <2>1. inDegree[n] \in Nat /\ Fallen(R)[n] = inDegree[n] - Cardinality(Lost(n))
      BY <1>0, <1>6, <1>8
    <2>2. Cardinality(Behind(n, done)) <= inDegree[n]
      BY <1>9
    <2>3. /\ Cardinality(Lost(n)) \in Nat /\ Cardinality(Behind(n, done)) \in Nat
          /\ Cardinality(Behind(n, done \cup R)) =
                 Cardinality(Behind(n, done)) - Cardinality(Lost(n))
      BY <1>5
    <2> QED
      BY <2>1, <2>2, <2>3
  <1>14. ~Duplicates => \A n \in nodes : Fallen(R)[n] = Cardinality(Behind(n, done \cup R))
    BY <1>0, <1>5, <1>6 DEF Counts
  <1>15. ASSUME NEW n \in done \cup ready
         PROVE  Fallen(R)[n] = 0 /\ \A m \in R : n \notin dependents[m]
    <2>1. n \in nodes /\ inDegree[n] = 0
      BY DEF Counts
    <2>2. Cardinality(Lost(n)) = 0 /\ Lost(n) = {}
      BY <2>1, <1>5, <1>9
    <2> QED
      BY <2>1, <2>2, <1>0, <1>6 DEF Lost
  <1>16. ASSUME NEW n \in Names, inDegree[n] # Fallen(R)[n]
         PROVE  \E m \in R : n \in dependents[m]
    <2>1. Cardinality(Lost(n)) # 0
      BY <1>6, <1>8, <1>16
    <2>2. n \in nodes /\ Lost(n) # {}
      BY <2>1, <1>5, <1>7
    <2> QED
      BY <2>2 DEF Lost
  <1>17. \A n \in nodes, m \in R : m \in Named(n) <=> n \in dependents[m]
    BY <1>0, <1>1
  <1> QED
    BY <1>12, <1>13, <1>14, <1>15, <1>16, <1>17

-----------------------------------------------------------------------------
(* TopologicalSort *)

LEMMA NamedStays ==
    ASSUME UNCHANGED <<nodes, deps>>
    PROVE  \A n : Named(n)' = Named(n) /\ \A d : Behind(n, d)' = Behind(n, d)
  <1>1. \A n : Named(n)' = Named(n)
    BY DEF Named
  <1>2. \A n, d : Behind(n, d)' = Behind(n, d)
    BY DEF Named, Behind
  <1> QED
    BY <1>1, <1>2

\* What concerns the result alone stays while the graph and the result do.
LEMMA ResultStays ==
    ASSUME SortInv, UNCHANGED <<nodes, deps, dependents, result>>
    PROVE  /\ MirrorInv' /\ IsFiniteSet(nodes') /\ result' \in Seq(nodes')
           /\ \A i, j \in DOMAIN result' : result'[i] = result'[j] => i = j
           /\ SortFollowsDependencies' /\ OutIsClosed' /\ OutIsAcyclic'
           /\ Out' = Out /\ Accepted' = Accepted
  <1>1. MirrorInv'
    BY NamedStays DEF SortInv, MirrorInv, Shapes, DependentsMirror
  <1>2. Out' = Out /\ Accepted' = Accepted
    BY DEF Out, Accepted
  <1>3. SortFollowsDependencies' /\ OutIsClosed' /\ OutIsAcyclic'
    BY <1>2, NamedStays DEF SortInv, SortFollowsDependencies, OutIsClosed, OutIsAcyclic
  <1> QED
    BY <1>1, <1>2, <1>3 DEF SortInv

LEMMA AddKeepsSort ==
    ASSUME SortInv, NEW name \in Names, NEW list \in Lists, AddNode(name, list)
    PROVE  SortInv'
  <1>1. /\ MirrorInv /\ IsFiniteSet(nodes) /\ pc = "build" /\ pc' = "build"
        /\ result' = <<>> /\ ready' = {} /\ inDegree' = [n \in Names |-> 0]
        /\ nodes' = nodes \cup {name}
    BY DEF SortInv, AddNode
  <1>2. MirrorInv'
    BY <1>1, AddKeepsMirror
  <1>3. IsFiniteSet(nodes')
    BY <1>1, FS_AddElement
  <1>4. DOMAIN result' = {} /\ Out' = {} /\ result' \in Seq(nodes')
    BY <1>1 DEF Out
  <1>5. SortFollowsDependencies' /\ OutIsClosed' /\ OutIsAcyclic'
    BY <1>4 DEF SortFollowsDependencies, OutIsClosed, OutIsAcyclic
  <1> QED
    BY <1>1, <1>2, <1>3, <1>4, <1>5 DEF SortInv

LEMMA BeginSortKeeps ==
    ASSUME SortInv, BeginSort
    PROVE  SortInv'
  <1>1. /\ UNCHANGED <<nodes, deps, dependents, result>> /\ pc = "build" /\ pc' = "sort"
        /\ inDegree' = Degrees /\ ready' = {n \in nodes : Degrees[n] = 0} /\ result = <<>>
    BY DEF SortInv, BeginSort
  <1>2. Counts({})'
    BY <1>1, BeginCounts
  <1>3. Out' = {}
    BY <1>1 DEF Out
  <1>4. Counts(Out)'
    BY <1>2, <1>3 DEF Counts
  <1> QED
    BY <1>1, <1>4, ResultStays DEF SortInv

LEMMA SortNextKeeps ==
    ASSUME SortInv, NEW n \in Names, SortNext(n)
    PROVE  SortInv'
  <1>0. /\ MirrorInv /\ Shapes /\ IsFiniteSet(nodes) /\ Counts(Out)
        /\ UNCHANGED <<nodes, deps, dependents>> /\ pc' = "sort" /\ n \in ready
        /\ result \in Seq(nodes) /\ result' = Append(result, n) /\ inDegree' = Lowered(n)
        /\ ready' = (ready \ {n}) \cup {m \in dependents[n] : inDegree'[m] = 0}
        /\ SortFollowsDependencies /\ OutIsClosed /\ OutIsAcyclic
        /\ \A i, j \in DOMAIN result : result[i] = result[j] => i = j
    BY DEF SortInv, SortNext, MirrorInv
  <1>1. n \in nodes /\ n \notin Out /\ inDegree[n] = 0
    BY <1>0 DEF Counts
  <1>2. /\ Len(result) \in Nat /\ DOMAIN result = 1 .. Len(result)
        /\ result' \in Seq(nodes) /\ DOMAIN result' = 1 .. Len(result) + 1
        /\ result'[Len(result) + 1] = n
        /\ \A i \in 1 .. Len(result) : result'[i] = result[i]
    BY <1>0, <1>1
  <1>3. DOMAIN result' = DOMAIN result \cup {Len(result) + 1}
    BY <1>2
  <1>4. Out' = Out \cup {n}
    BY <1>2, <1>3 DEF Out
  <1>5. Named(n) \cap nodes \subseteq Out
    <2>1. Cardinality(Behind(n, Out)) <= 0
      BY <1>0, <1>1 DEF Counts
    <2>2. Behind(n, Out) = {}
      BY <2>1, <1>0, <1>1, BehindFacts
    <2> QED
      BY <2>2 DEF Behind
  <1>6. inDegree' = Fallen({n})
    <2>1. ASSUME NEW m \in Names
          PROVE  Lowered(n)[m] = inDegree[m] - Cardinality({x \in {n} : m \in dependents[x]})
      <3>1. inDegree[m] \in Int
        BY <1>0, GraphAssumption DEF Counts
      <3>2. CASE m \in dependents[n]
        <4>1. {x \in {n} : m \in dependents[x]} = {n}
          BY <3>2
        <4> QED
          BY <4>1, <3>2, FS_Singleton DEF Lowered
      <3>3. CASE m \notin dependents[n]
        <4>1. {x \in {n} : m \in dependents[x]} = {}
          BY <3>3
        <4> QED
          BY <4>1, <3>1, <3>3, FS_EmptySet DEF Lowered
      <3> QED
        BY <3>2, <3>3
    <2> QED
      BY <2>1, <1>0 DEF Lowered, Fallen
  <1>7. /\ inDegree' \in [Names -> 0 .. MaxDeps]
        /\ \A m \in nodes : Cardinality(Behind(m, Out \cup {n})) <= inDegree'[m]
        /\ ~Duplicates =>
               \A m \in nodes : inDegree'[m] = Cardinality(Behind(m, Out \cup {n}))
        /\ \A m \in Out \cup ready : inDegree'[m] = 0 /\ m \notin dependents[n]
        /\ \A m \in Names : inDegree[m] # inDegree'[m] => m \in dependents[n]
    <2>1. {n} \in SUBSET ready
      BY <1>0
    <2>2. /\ Fallen({n}) \in [Names -> 0 .. MaxDeps]
          /\ \A m \in nodes : Cardinality(Behind(m, Out \cup {n})) <= Fallen({n})[m]
          /\ ~Duplicates =>
                 \A m \in nodes : Fallen({n})[m] = Cardinality(Behind(m, Out \cup {n}))
      BY <2>1, <1>0, LowerCounts
    <2>3. /\ \A m \in Out \cup ready :
                 Fallen({n})[m] = 0 /\ \A x \in {n} : m \notin dependents[x]
          /\ \A m \in Names : inDegree[m] # Fallen({n})[m] => \E x \in {n} : m \in dependents[x]
      BY <2>1, <1>0, LowerCounts
    <2> QED
      BY <2>2, <2>3, <1>6
  <1>8. ready' = {m \in nodes \ (Out \cup {n}) : inDegree'[m] = 0}
    <2>1. ready = {m \in nodes \ Out : inDegree[m] = 0} /\ nodes \subseteq Names
      BY <1>0 DEF Counts, Shapes
    <2>2. dependents[n] \subseteq nodes
      BY <1>0, <1>1 DEF MirrorInv, Shapes, DependentsMirror
    <2>3. ASSUME NEW m \in ready' PROVE m \in nodes \ (Out \cup {n}) /\ inDegree'[m] = 0
      <3>1. CASE m \in ready \ {n}
        BY <3>1, <2>1, <1>7
      <3>2. CASE m \in dependents[n] /\ inDegree'[m] = 0
        BY <3>2, <2>2, <1>0, <1>7
      <3> QED
        BY <3>1, <3>2, <1>0
    <2>4. ASSUME NEW m \in nodes \ (Out \cup {n}), inDegree'[m] = 0 PROVE m \in ready'
      <3>1. CASE inDegree[m] = 0
        BY <3>1, <2>1, <2>4, <1>0
      <3>2. CASE inDegree[m] # 0
        BY <3>2, <2>1, <2>4, <1>0, <1>7
      <3> QED
        BY <3>1, <3>2
    <2> QED
      BY <2>3, <2>4
  <1>9. Counts(Out)'
    <2>1. \A m : Behind(m, Out)' = Behind(m, Out \cup {n})
      BY <1>0, <1>4 DEF Behind, Named
    <2>2. \A m \in Out \cup {n} : inDegree'[m] = 0
      BY <1>0, <1>7
    <2>3. Out \cup {n} \subseteq nodes
      BY <1>0, <1>1 DEF Counts
    <2> QED
      <3>1. nodes' = nodes
        BY <1>0
      <3>2. \A m \in nodes : Cardinality(Behind(m, Out)') <= inDegree'[m]
        BY <2>1, <1>7
      <3>3. ~Duplicates => \A m \in nodes : inDegree'[m] = Cardinality(Behind(m, Out)')
        BY <2>1, <1>7
      <3>4. ready' = {m \in nodes \ Out' : inDegree'[m] = 0}
        BY <1>4, <1>8
      <3>5. Out' \subseteq nodes /\ \A m \in Out' : inDegree'[m] = 0
        BY <2>2, <2>3, <1>4
      <3> QED
        BY <3>1, <3>2, <3>3, <3>4, <3>5, <1>7 DEF Counts
  <1>10. MirrorInv'
    BY <1>0, NamedStays DEF MirrorInv, Shapes, DependentsMirror
  <1>11. \A i, j \in DOMAIN result' : result'[i] = result'[j] => i = j
    <2>1. \A i \in DOMAIN result : result'[i] # n /\ result'[i] = result[i]
      BY <1>1, <1>2 DEF Out
    <2> QED
      BY <2>1, <1>0, <1>2, <1>3
  <1>12. SortFollowsDependencies'
    <2> SUFFICES ASSUME NEW i \in DOMAIN result', NEW d \in Named(result'[i]) \cap nodes
                 PROVE  \E j \in 1 .. i - 1 : result'[j] = d
      BY <1>0, NamedStays DEF SortFollowsDependencies
    <2>1. CASE i \in DOMAIN result
      <3>1. PICK j \in 1 .. i - 1 : result[j] = d
        BY <2>1, <1>0, <1>2 DEF SortFollowsDependencies
      <3>2. j \in 1 .. Len(result)
        BY <2>1, <1>2
      <3> QED
        BY <3>1, <3>2, <1>2
    <2>2. CASE i = Len(result) + 1
      <3>1. PICK j \in DOMAIN result : result[j] = d
        BY <2>2, <1>2, <1>5 DEF Out
      <3>2. j \in 1 .. i - 1
        BY <2>2, <1>2
      <3> QED
        BY <3>1, <3>2, <1>2
    <2> QED
      BY <2>1, <2>2, <1>3
  <1>13. OutIsClosed'
    BY <1>0, <1>4, <1>5, NamedStays DEF OutIsClosed
  <1>14. OutIsAcyclic'
    <2> SUFFICES ASSUME NEW S \in SUBSET (Out \cup {n}), S # {}
                 PROVE  \E m \in S : Named(m) \cap S = {}
      BY <1>0, <1>4, NamedStays DEF OutIsAcyclic
    <2>0. \A m \in Out \cup {n} : n \notin Named(m)
      BY <1>0, <1>1, <1>5 DEF OutIsClosed
    <2>1. CASE S = {n}
      BY <2>0, <2>1
    <2>2. CASE S # {n}
      <3>1. S \ {n} \in SUBSET Out /\ S \ {n} # {}
        BY <2>2
      <3>2. PICK m \in S \ {n} : Named(m) \cap (S \ {n}) = {}
        BY <3>1, <1>0 DEF OutIsAcyclic
      <3> QED
        BY <3>2, <2>0
    <2> QED
      BY <2>1, <2>2
  <1> QED
    BY <1>0, <1>2, <1>9, <1>10, <1>11, <1>12, <1>13, <1>14 DEF SortInv

LEMMA SortEndsKeeps ==
    ASSUME SortInv, SortEnds
    PROVE  SortInv'
  <1>0. /\ UNCHANGED <<nodes, deps, dependents, result, inDegree, ready>>
        /\ pc' = "sorted" /\ ready = {} /\ Counts(Out)
    BY DEF SortInv, SortEnds
  <1>1. ASSUME ~Duplicates, NEW n \in nodes \ Out PROVE Behind(n, Out) # {}
    <2>1. inDegree[n] # 0 /\ inDegree[n] = Cardinality(Behind(n, Out)) /\ n \in Names
      BY <1>0, <1>1 DEF Counts, SortInv, MirrorInv, Shapes
    <2> QED
      BY <2>1, BehindFacts DEF SortInv, MirrorInv
  <1>2. \A n : Behind(n, Out)' = Behind(n, Out)
    BY <1>0 DEF Behind, Named, Out
  <1>3. inDegree \in [Names -> 0 .. MaxDeps]
    BY <1>0 DEF Counts
  <1> QED
    BY <1>0, <1>1, <1>2, <1>3, ResultStays DEF SortInv

\* A configuration is accepted when the sort came to every node.
LEMMA AcceptedIsAll ==
    ASSUME SortInv
    PROVE  Out \subseteq nodes /\ (Accepted <=> Out = nodes)
  <1>1. /\ Len(result) \in Nat /\ DOMAIN result = 1 .. Len(result)
        /\ \A i \in 1 .. Len(result) : result[i] \in nodes
        /\ IsFiniteSet(nodes)
    BY DEF SortInv
  <1>2. Out \in SUBSET nodes
    BY <1>1 DEF Out
  <1> DEFINE f == [i \in 1 .. Len(result) |-> result[i]]
  <1>3. f \in Bijection(1 .. Len(result), Out)
    BY <1>1 DEF SortInv, Out, Bijection, Injection, Surjection, IsInjective
  <1>4. Cardinality(Out) = Len(result)
    BY <1>1, <1>3, FS_CountingElements DEF ExistsBijection
  <1>5. Cardinality(Out) = Cardinality(nodes) => Out = nodes
    BY <1>1, <1>2, FS_Subset
  <1> QED
    BY <1>2, <1>4, <1>5 DEF Accepted

-----------------------------------------------------------------------------
(* Tiers *)

Done == UNION {tiers[k] : k \in DOMAIN tiers}

TiersApart == \A k, l \in DOMAIN tiers : k # l => tiers[k] \cap tiers[l] = {}

TiersInOrder ==
    \A k \in DOMAIN tiers : \A n \in tiers[k] : \A d \in Named(n) \cap nodes :
        \E l \in 1 .. k - 1 : d \in tiers[l]

\* Each node of a tier, the one that is next included, needs the tier before.
NeedsTier(n, k) == k > 0 => \E d \in Named(n) \cap nodes : d \in tiers[k]

TierInv ==
    /\ SortInv
    /\ adds \in 0 .. MaxAdds
    /\ tiers \in Seq(SUBSET nodes)
    /\ pc \notin {"tiers", "tiered"} => tiers = <<>>
    /\ TiersApart /\ TiersInOrder
    /\ \A k \in DOMAIN tiers : \A n \in tiers[k] : NeedsTier(n, k - 1)
    /\ pc = "tiers" => Counts(Done) /\ \A n \in ready : NeedsTier(n, Len(tiers))
    /\ pc = "tiered" =>
           /\ ready = {} /\ inDegree \in [Names -> 0 .. MaxDeps]
           /\ ~Duplicates => nodes \subseteq Done

LEMMA BeforeTiersKeeps ==
    ASSUME TierInv, SortInv', UNCHANGED tiers, adds' \in 0 .. MaxAdds,
           pc \notin {"tiers", "tiered"}, pc' \notin {"tiers", "tiered"}
    PROVE  TierInv'
  <1>1. tiers' = <<>> /\ DOMAIN tiers' = {}
    BY DEF TierInv
  <1>2. TiersApart' /\ TiersInOrder' /\ \A k \in DOMAIN tiers' : \A n \in tiers'[k] : NeedsTier(n, k - 1)'
    BY <1>1 DEF TiersApart, TiersInOrder
  <1> QED
    BY <1>1, <1>2 DEF TierInv

\* The sort's result stays as it is.
LEMMA TiersKeepSort ==
    ASSUME SortInv, UNCHANGED <<nodes, deps, dependents, result>>,
           pc \in {"sorted", "tiers", "tiered"}, pc' \in {"tiers", "tiered"}, Accepted
    PROVE  SortInv'
  <1>1. \A n \in nodes' \ Out' : ~Duplicates => Behind(n, Out)' # {}
    BY ResultStays, NamedStays DEF SortInv
  <1> QED
    BY <1>1, ResultStays DEF SortInv

LEMMA BeginTiersKeeps ==
    ASSUME TierInv, BeginTiers
    PROVE  TierInv'
  <1>1. /\ SortInv /\ UNCHANGED <<nodes, deps, dependents, result, tiers, adds>> /\ Accepted
        /\ pc = "sorted" /\ pc' = "tiers" /\ tiers' = <<>> /\ adds \in 0 .. MaxAdds
        /\ inDegree' = Degrees /\ ready' = {n \in nodes : Degrees[n] = 0}
    BY DEF TierInv, BeginTiers
  <1>2. SortInv'
    BY <1>1, TiersKeepSort
  <1>3. Counts({})' /\ Done' = {} /\ DOMAIN tiers' = {} /\ Len(tiers') = 0
    BY <1>1, BeginCounts DEF Done
  <1>4. Counts(Done)'
    BY <1>3 DEF Counts
  <1>5. TiersApart' /\ TiersInOrder' /\ \A k \in DOMAIN tiers' : \A n \in tiers'[k] : NeedsTier(n, k - 1)'
    BY <1>3 DEF TiersApart, TiersInOrder
  <1>6. \A n \in ready' : NeedsTier(n, Len(tiers))'
    BY <1>3 DEF NeedsTier
  <1>7. tiers' \in Seq(SUBSET nodes')
    BY <1>1
  <1> QED
    BY <1>1, <1>2, <1>4, <1>5, <1>6, <1>7 DEF TierInv

LEMMA NextTierKeeps ==
    ASSUME TierInv, NextTier
    PROVE  TierInv'
  <1> DEFINE K == Len(tiers)
  <1>0. /\ SortInv /\ Counts(Done) /\ Accepted /\ pc' = "tiers" /\ adds' \in 0 .. MaxAdds
        /\ UNCHANGED <<nodes, deps, dependents, result>> /\ pc = "tiers"
        /\ tiers \in Seq(SUBSET nodes) /\ tiers' = Append(tiers, ready)
        /\ inDegree' = TierLowered
        /\ ready' = {m \in nodes : inDegree[m] > 0 /\ inDegree'[m] = 0}
        /\ TiersApart /\ TiersInOrder
        /\ \A k \in DOMAIN tiers : \A n \in tiers[k] : NeedsTier(n, k - 1)
        /\ \A n \in ready : NeedsTier(n, K)
        /\ Shapes /\ IsFiniteSet(nodes)
    BY DEF TierInv, SortInv, MirrorInv, NextTier
  <1>1. /\ ready = {n \in nodes \ Done : inDegree[n] = 0} /\ ready \in SUBSET nodes
        /\ nodes \subseteq Names /\ MaxDeps \in Nat /\ Done \subseteq nodes
        /\ inDegree \in [Names -> 0 .. MaxDeps]
    BY <1>0, GraphAssumption DEF Counts, Shapes
  <1>2. /\ K \in Nat /\ DOMAIN tiers = 1 .. K
        /\ tiers' \in Seq(SUBSET nodes) /\ DOMAIN tiers' = 1 .. K + 1 /\ Len(tiers') = K + 1
        /\ tiers'[K + 1] = ready
        /\ \A k \in 1 .. K : tiers'[k] = tiers[k]
    BY <1>0, <1>1
  <1>3. DOMAIN tiers' = DOMAIN tiers \cup {K + 1}
    BY <1>2
  <1>4. Done' = Done \cup ready
    BY <1>2, <1>3 DEF Done
  <1>5. SortInv'
    BY <1>0, TiersKeepSort
  <1>6. inDegree' = Fallen(ready)
    BY <1>0 DEF TierLowered, Fallen
  <1>7. /\ inDegree' \in [Names -> 0 .. MaxDeps]
        /\ \A m \in nodes : Cardinality(Behind(m, Done \cup ready)) <= inDegree'[m]
        /\ ~Duplicates =>
               \A m \in nodes : inDegree'[m] = Cardinality(Behind(m, Done \cup ready))
        /\ \A m \in Done \cup ready : inDegree'[m] = 0
        /\ \A m \in Names : inDegree[m] # inDegree'[m] => \E x \in ready : m \in dependents[x]
        /\ \A n \in nodes, m \in ready : m \in Named(n) <=> n \in dependents[m]
    <2>1. ready \in SUBSET ready
      OBVIOUS
    <2>2. /\ Fallen(ready) \in [Names -> 0 .. MaxDeps]
          /\ \A m \in nodes : Cardinality(Behind(m, Done \cup ready)) <= Fallen(ready)[m]
          /\ ~Duplicates =>
                 \A m \in nodes : Fallen(ready)[m] = Cardinality(Behind(m, Done \cup ready))
      BY <2>1, <1>0, LowerCounts
    <2>3. /\ \A m \in Done \cup ready : Fallen(ready)[m] = 0
          /\ \A m \in Names : inDegree[m] # Fallen(ready)[m] => \E x \in ready : m \in dependents[x]
          /\ \A n \in nodes, m \in ready : m \in Named(n) <=> n \in dependents[m]
      BY <2>1, <1>0, LowerCounts
    <2> QED
      BY <2>2, <2>3, <1>6
  <1>8. ready' = {m \in nodes \ (Done \cup ready) : inDegree'[m] = 0}
    <2>1. \A m \in nodes : inDegree[m] \in Nat
      BY <1>1
    <2>2. \A m \in Done \cup ready : inDegree[m] = 0
      BY <1>0, <1>1 DEF Counts
    <2> QED
      BY <2>1, <2>2, <1>0, <1>1
  <1>9. Counts(Done)'
    <2>1. \A m : Behind(m, Done)' = Behind(m, Done \cup ready)
      BY <1>0, <1>4 DEF Behind, Named
    <2>2. Done \cup ready \subseteq nodes
      BY <1>1
    <2> QED
      BY <2>1, <2>2, <1>0, <1>4, <1>7, <1>8 DEF Counts
  <1>10. TiersApart'
    <2>1. \A k \in DOMAIN tiers : tiers'[k] = tiers[k] /\ tiers'[k] \cap ready = {}
      BY <1>1, <1>2 DEF Done
    <2> QED
      BY <2>1, <1>0, <1>2, <1>3 DEF TiersApart
  <1>11. TiersInOrder'
    <2> SUFFICES ASSUME NEW k \in DOMAIN tiers', NEW n \in tiers'[k],
                        NEW d \in Named(n) \cap nodes
                 PROVE  \E l \in 1 .. k - 1 : d \in tiers'[l]
      BY <1>0, NamedStays DEF TiersInOrder
    <2>1. CASE k \in DOMAIN tiers
      <3>1. PICK l \in 1 .. k - 1 : d \in tiers[l]
        BY <2>1, <1>0, <1>2 DEF TiersInOrder
      <3>2. l \in 1 .. K
        BY <2>1, <1>2
      <3> QED
        BY <3>1, <3>2, <1>2
    <2>2. CASE k = K + 1
      <3>1. n \in nodes /\ inDegree[n] = 0
        BY <2>2, <1>1, <1>2
      <3>2. Cardinality(Behind(n, Done)) <= 0
        BY <3>1, <1>0 DEF Counts
      <3>3. Behind(n, Done) = {}
        BY <3>1, <3>2, <1>0, <1>1, BehindFacts
      <3>4. PICK l \in DOMAIN tiers : d \in tiers[l]
        BY <3>3 DEF Behind, Done
      <3>5. l \in 1 .. k - 1
        BY <2>2, <1>2
      <3> QED
        BY <3>4, <3>5, <1>2
    <2> QED
      BY <2>1, <2>2, <1>3
  <1>12. ASSUME NEW k \in DOMAIN tiers', NEW n \in tiers'[k], k - 1 > 0
         PROVE  \E d \in Named(n) \cap nodes : d \in tiers'[k - 1]
    <2>1. k - 1 \in 1 .. K
      BY <1>2, <1>12
    <2>2. CASE k \in DOMAIN tiers
      <3>1. NeedsTier(n, k - 1)
        BY <2>2, <1>0, <1>2
      <3> QED
        BY <3>1, <2>1, <1>2, <1>12 DEF NeedsTier
    <2>3. CASE k = K + 1
      <3>1. NeedsTier(n, K) /\ k - 1 = K
        BY <2>3, <1>0, <1>2
      <3> QED
        BY <3>1, <2>1, <1>2, <1>12 DEF NeedsTier
    <2> QED
      BY <2>2, <2>3, <1>3
  <1>13. \A k \in DOMAIN tiers' : \A n \in tiers'[k] : NeedsTier(n, k - 1)'
    BY <1>0, <1>12, NamedStays DEF NeedsTier
  <1>14. \A n \in ready' : NeedsTier(n, Len(tiers))'
    <2> SUFFICES ASSUME NEW n \in ready'
                 PROVE  \E d \in Named(n) \cap nodes : d \in tiers'[K + 1]
      BY <1>0, <1>2, NamedStays DEF NeedsTier
    <2>1. n \in nodes /\ inDegree[n] # inDegree'[n]
      BY <1>0, <1>1
    <2>2. PICK x \in ready : n \in dependents[x]
      BY <2>1, <1>1, <1>7
    <2> QED
      BY <2>1, <2>2, <1>1, <1>2, <1>7
  <1> QED
    BY <1>0, <1>2, <1>5, <1>9, <1>10, <1>11, <1>13, <1>14 DEF TierInv

\* When no node may go next, all have gone: what is left would be a circle.
LEMMA TiersEndKeeps ==
    ASSUME TierInv, TiersEnd
    PROVE  TierInv'
  <1>0. /\ SortInv /\ Counts(Done) /\ Accepted /\ ready = {} /\ pc = "tiers" /\ pc' = "tiered"
        /\ UNCHANGED <<nodes, deps, dependents, result, tiers, adds, inDegree, ready>>
    BY DEF TierInv, SortInv, TiersEnd
  <1>1. SortInv'
    BY <1>0, TiersKeepSort
  <1>2. ASSUME ~Duplicates PROVE nodes \subseteq Done
    <2> DEFINE S == nodes \ Done
    <2> SUFFICES ASSUME S # {} PROVE FALSE
      OBVIOUS
    <2>1. PICK n \in S : Named(n) \cap S = {}
      BY <1>0, AcceptedIsAll DEF SortInv, OutIsAcyclic
    <2>2. Behind(n, Done) = {} /\ n \in Names
      BY <2>1, <1>0 DEF Behind, SortInv, MirrorInv, Shapes
    <2>3. inDegree[n] = 0
      BY <2>2, <1>0, <1>2, FS_EmptySet DEF Counts
    <2> QED
      BY <2>3, <1>0 DEF Counts
  <1>3. /\ Done' = Done /\ TiersApart' /\ TiersInOrder'
        /\ \A k \in DOMAIN tiers' : \A n \in tiers'[k] : NeedsTier(n, k - 1)'
    BY <1>0, NamedStays DEF TierInv, Done, TiersApart, TiersInOrder, NeedsTier
  <1>4. inDegree' \in [Names -> 0 .. MaxDeps]
    BY <1>0 DEF Counts
  <1> QED
    BY <1>0, <1>1, <1>2, <1>3, <1>4 DEF TierInv

-----------------------------------------------------------------------------
(* Theorems about the sorts *)

LEMMA TierInvHolds == Spec => []TierInv
  <1>1. Init => TierInv
    <2> SUFFICES ASSUME Init PROVE TierInv
      OBVIOUS
    <2>1. <<>> \in Lists
      BY GraphAssumption DEF Lists
    <2>2. MirrorInv /\ IsFiniteSet(nodes)
      BY <2>1, FS_EmptySet DEF Init, MirrorInv, Shapes, DependentsMirror
    <2>3. DOMAIN result = {} /\ Out = {} /\ DOMAIN tiers = {}
      BY DEF Init, Out
    <2>4. SortInv
      BY <2>2, <2>3 DEF Init, SortInv, SortFollowsDependencies, OutIsClosed, OutIsAcyclic
    <2>5. adds \in 0 .. MaxAdds
      BY GraphAssumption DEF Init
    <2> QED
      BY <2>3, <2>4, <2>5 DEF Init, TierInv, TiersApart, TiersInOrder
  <1>2. TierInv /\ [Next]_vars => TierInv'
    <2> SUFFICES ASSUME TierInv, [Next]_vars PROVE TierInv'
      OBVIOUS
    <2>0. SortInv /\ adds \in 0 .. MaxAdds /\ MaxAdds \in Nat
      BY GraphAssumption DEF TierInv
    <2>1. ASSUME NEW name \in Names, NEW list \in Lists, AddNode(name, list)
          PROVE  TierInv'
      <3>1. /\ UNCHANGED tiers /\ adds' \in 0 .. MaxAdds
            /\ pc \notin {"tiers", "tiered"} /\ pc' \notin {"tiers", "tiered"}
        BY <2>0, <2>1 DEF AddNode
      <3> QED
        BY <2>0, <2>1, <3>1, AddKeepsSort, BeforeTiersKeeps
    <2>2. CASE BeginSort
      BY <2>0, <2>2, BeginSortKeeps, BeforeTiersKeeps DEF BeginSort
    <2>3. ASSUME NEW n \in Names, SortNext(n) PROVE TierInv'
      <3>1. /\ UNCHANGED <<tiers, adds>>
            /\ pc \notin {"tiers", "tiered"} /\ pc' \notin {"tiers", "tiered"}
        BY <2>3 DEF SortNext
      <3> QED
        BY <2>0, <2>3, <3>1, SortNextKeeps, BeforeTiersKeeps
    <2>4. CASE SortEnds
      BY <2>0, <2>4, SortEndsKeeps, BeforeTiersKeeps DEF SortEnds
    <2>5. CASE BeginTiers \/ NextTier \/ TiersEnd
      BY <2>5, BeginTiersKeeps, NextTierKeeps, TiersEndKeeps
    <2>6. CASE UNCHANGED vars
      <3>1. UNCHANGED <<nodes, deps, dependents, adds, pc, inDegree, ready, result, tiers>>
        BY <2>6 DEF vars
      <3>2. Done' = Done /\ Out' = Out /\ Accepted' = Accepted
        BY <3>1, <2>0, ResultStays DEF Done
      <3>3. SortInv' /\ (pc = "tiers" => Counts(Done)')
        <4>1. Counts(Out) => Counts(Out)'
          <5> SUFFICES ASSUME Counts(Out) PROVE Counts(Out)'
            OBVIOUS
          <5>1. \A n : Behind(n, Out)' = Behind(n, Out)
            BY <3>1, <3>2 DEF Named, Behind
          <5> QED
            BY <3>1, <3>2, <5>1 DEF Counts
        <4>2. Counts(Done) => Counts(Done)'
          <5> SUFFICES ASSUME Counts(Done) PROVE Counts(Done)'
            OBVIOUS
          <5>1. \A n : Behind(n, Done)' = Behind(n, Done)
            BY <3>1, <3>2 DEF Named, Behind
          <5> QED
            BY <3>1, <3>2, <5>1 DEF Counts
        <4>3. pc # "build" /\ pc # "sort" /\ ~Duplicates =>
                  \A n \in nodes' \ Out' : Behind(n, Out)' # {}
          <5>1. \A n : Behind(n, Out)' = Behind(n, Out)
            BY <3>1, <3>2 DEF Named, Behind
          <5> QED
            BY <3>1, <3>2, <5>1, <2>0 DEF SortInv
        <4>4. SortInv'
          BY <3>1, <3>2, <4>1, <4>3, <2>0, ResultStays DEF SortInv
        <4> QED
          BY <4>2, <4>4 DEF TierInv
      <3>4. /\ TiersApart' /\ TiersInOrder'
            /\ \A k \in DOMAIN tiers' : \A n \in tiers'[k] : NeedsTier(n, k - 1)'
        BY <3>1, NamedStays DEF TierInv, TiersApart, TiersInOrder, NeedsTier
      <3>5. pc' = "tiers" => Counts(Done)' /\ \A n \in ready' : NeedsTier(n, Len(tiers))'
        BY <3>1, <3>3, NamedStays DEF TierInv, NeedsTier
      <3>6. pc' = "tiered" => /\ ready' = {} /\ inDegree' \in [Names -> 0 .. MaxDeps]
                              /\ ~Duplicates => nodes' \subseteq Done'
        BY <3>1, <3>2 DEF TierInv
      <3>7. adds' \in 0 .. MaxAdds /\ tiers' \in Seq(SUBSET nodes')
            /\ (pc' \notin {"tiers", "tiered"} => tiers' = <<>>)
        BY <3>1 DEF TierInv
      <3> QED
        BY <3>3, <3>4, <3>5, <3>6, <3>7, Zenon DEF TierInv
    <2> QED
      BY <2>1, <2>2, <2>3, <2>4, <2>5, <2>6 DEF Next
  <1> QED
    BY <1>1, <1>2, PTL DEF Spec

\* The types; no in-degree of either sort falls below zero, although a repeated
\* entry is counted twice and lowered once.
THEOREM GraphTypeOK == Spec => []TypeOK
  <1>1. TierInv => TypeOK
    <2> SUFFICES ASSUME TierInv PROVE TypeOK
      OBVIOUS
    <2>1. SortInv /\ Shapes
      BY DEF TierInv, SortInv, MirrorInv
    <2>2. inDegree \in [Names -> 0 .. MaxDeps] /\ ready \subseteq nodes
      <3>1. CASE pc = "build"
        BY <3>1, <2>1, GraphAssumption DEF SortInv
      <3>2. CASE pc = "sort"
        BY <3>2, <2>1 DEF SortInv, Counts
      <3>3. CASE pc = "sorted"
        BY <3>3, <2>1 DEF SortInv
      <3>4. CASE pc \in {"tiers", "tiered"}
        BY <3>4 DEF TierInv, Counts
      <3> QED
        BY <3>1, <3>2, <3>3, <3>4, <2>1 DEF SortInv
    <2> QED
      BY <2>1, <2>2 DEF TypeOK, TierInv, SortInv, Shapes
  <1> QED
    BY <1>1, TierInvHolds, PTL

\* TopologicalSort: a node follows everything it depends on, for any graph and in
\* whatever order the nodes without open dependencies are taken.
THEOREM GraphSortFollowsDependencies == Spec => []SortFollowsDependencies
  <1>1. TierInv => SortFollowsDependencies
    BY DEF TierInv, SortInv
  <1> QED
    BY <1>1, TierInvHolds, PTL

\* TopologicalSort refuses a graph exactly if it has a cycle, as long as no list
\* names a program twice.
THEOREM GraphRefusesOnlyCycles ==
    ASSUME ~Duplicates PROVE Spec => []RefusesOnlyCycles
  <1>1. TierInv => RefusesOnlyCycles
    <2> SUFFICES ASSUME TierInv, pc = "sorted" PROVE Accepted <=> Acyclic
      BY DEF RefusesOnlyCycles
    <2>0. SortInv
      BY DEF TierInv
    <2>1. ASSUME Accepted PROVE Acyclic
      BY <2>0, <2>1, AcceptedIsAll DEF SortInv, OutIsAcyclic, Acyclic
    <2>2. ASSUME Acyclic PROVE Accepted
      <3> DEFINE S == nodes \ Out
      <3> SUFFICES ASSUME S # {} PROVE FALSE
        BY <2>0, AcceptedIsAll
      <3>1. PICK n \in S : Named(n) \cap S = {}
        BY <2>2 DEF Acyclic
      <3>2. Behind(n, Out) # {}
        BY <2>0 DEF SortInv
      <3> QED
        BY <3>1, <3>2 DEF Behind
    <2> QED
      BY <2>1, <2>2
  <1> QED
    BY <1>1, TierInvHolds, PTL

\* Tiers: each node is in one tier, right behind the last of those it depends on,
\* as long as no list names a program twice.
THEOREM GraphTiersAreTight ==
    ASSUME ~Duplicates PROVE Spec => []TiersAreTight
  <1>1. TierInv => TiersAreTight
    <2> SUFFICES ASSUME TierInv, pc = "tiered", NEW n \in nodes
                 PROVE  \E k \in DOMAIN tiers :
                            /\ TierOf(n) = {k}
                            /\ \A d \in Named(n) \cap nodes : \A l \in TierOf(d) : l < k
                            /\ k > 1 => \E d \in Named(n) \cap nodes : d \in tiers[k - 1]
      BY DEF TiersAreTight
    <2>0. DOMAIN tiers = 1 .. Len(tiers) /\ Len(tiers) \in Nat /\ TiersApart /\ TiersInOrder
      BY DEF TierInv
    <2>1. PICK k \in DOMAIN tiers : n \in tiers[k]
      BY DEF TierInv, Done
    <2>2. TierOf(n) = {k}
      BY <2>0, <2>1 DEF TierOf, TiersApart
    <2>3. ASSUME NEW d \in Named(n) \cap nodes, NEW l \in TierOf(d) PROVE l < k
      <3>1. PICK j \in 1 .. k - 1 : d \in tiers[j]
        BY <2>0, <2>1 DEF TiersInOrder
      <3>2. j \in DOMAIN tiers /\ l \in DOMAIN tiers /\ d \in tiers[l]
        BY <2>0, <2>1 DEF TierOf
      <3>3. j = l
        BY <3>1, <3>2, <2>0 DEF TiersApart
      <3> QED
        BY <3>1, <3>2, <3>3, <2>0
    <2>4. ASSUME k > 1 PROVE \E d \in Named(n) \cap nodes : d \in tiers[k - 1]
      <3>1. NeedsTier(n, k - 1) /\ k - 1 > 0
        BY <2>0, <2>1, <2>4 DEF TierInv
      <3> QED
        BY <3>1 DEF NeedsTier
    <2> QED
      BY <2>1, <2>2, <2>3, <2>4
  <1> QED
    BY <1>1, TierInvHolds, PTL
=============================================================================

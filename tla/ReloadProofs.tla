---------------------------- MODULE ReloadProofs ----------------------------
(***************************************************************************)
(* Theorems about Reload: a reload against its likes, the operators, the   *)
(* loop and its actions, and the shutdown.                                 *)
(***************************************************************************)
EXTENDS Reload, TLAPS

USE ReloadAssumption

-----------------------------------------------------------------------------
(***************************************************************************)
(* ProgramsAreInStep is not inductive: applyPrograms changes what is       *)
(* configured by a plan made before the programs were stopped, and it must *)
(* still be a plan for the present configuration.  That is so because only *)
(* the holder of reloadMutex applies one.                                  *)
(***************************************************************************)

\* What a reload reads and writes.
applied == <<config, processes, desired, def, reload, told>>

ReloadTypes == [Reloaders -> [at : {"idle", "locking", "snapshot", "stopping"}, gen : Gens,
                              old : Configs, new : Configs, previous : [Names -> Wanted],
                              todo : SUBSET Names, waits : SUBSET Names]]

AppliedTypes ==
    /\ config \in Configs
    /\ processes \in [Names -> Gens \cup {None}]
    /\ desired \in [Names -> Wanted]
    /\ def \in [Objs -> Defs \cup {None}]
    /\ reload \in ReloadTypes
    /\ told \in [Names -> {"no", "stop", "late"}]
    /\ reloads \in 0 .. MaxReloads

Holds(r) == reload[r].at \in {"snapshot", "stopping"}

\* reloadMutex
OneHolds == \A q, r \in Reloaders : Holds(q) /\ Holds(r) => q = r

\* The plan is for what is configured; the snapshot is of these programs.
PlanIsCurrent ==
    \A r \in Reloaders :
        /\ Holds(r) => reload[r].old = config
        /\ Holds(r) => reload[r].todo \subseteq Dropped(r)
        /\ reload[r].at = "stopping" => \A n \in Names : reload[r].previous[n] = None <=> config[n] = None

\* The snapshot honours a stop that came before it.
SnapshotHonoursStop ==
    /\ \A n \in Names : told[n] # "no" => config[n] # None
    /\ \A r \in Reloaders : \A n \in Names :
         reload[r].at = "stopping" /\ n \in Dropped(r) /\ told[n] = "stop" => reload[r].previous[n] # "RUNNING"

ReloadInv == /\ AppliedTypes /\ OneHolds /\ PlanIsCurrent /\ ProgramsAreInStep
             /\ SnapshotHonoursStop /\ StopSurvives

\* The types hold at first.
LEMMA TypesInit == Init => AppliedTypes
<1> SUFFICES ASSUME Init PROVE AppliedTypes
  OBVIOUS
<1>1. config \in Configs
  BY DEF Init, Configs
<1>2. 0 \in Gens
  BY DEF Gens
<1>3. None2 \in Configs /\ None2 \in [Names -> Wanted]
  BY DEF None2, Configs, Wanted
<1>4. NoReload \in [at : {"idle", "locking", "snapshot", "stopping"}, gen : Gens,
                    old : Configs, new : Configs, previous : [Names -> Wanted],
                    todo : SUBSET Names, waits : SUBSET Names]
  BY <1>2, <1>3 DEF NoReload
<1>5. reload \in ReloadTypes
  BY <1>4 DEF Init, ReloadTypes
<1>6. processes \in [Names -> Gens \cup {None}]
  BY <1>2 DEF Init
<1>7. desired \in [Names -> Wanted]
  BY DEF Init, WantedAtFirst, Wanted
<1>8. def \in [Objs -> Defs \cup {None}]
  <2>1. \A o \in Objs : o[1] \in Names
    BY DEF Objs
  <2> QED BY <1>1, <2>1 DEF Init, Configs
<1> QED BY <1>1, <1>5, <1>6, <1>7, <1>8 DEF AppliedTypes, Init

\* No reload runs at first, and New makes a Process for every program.
LEMMA ReloadInvInit == Init => ReloadInv
<1> SUFFICES ASSUME Init PROVE ReloadInv
  OBVIOUS
<1>1. AppliedTypes
  BY TypesInit
<1>2. \A r \in Reloaders : reload[r].at = "idle"
  BY DEF Init, NoReload
<1>3. OneHolds /\ PlanIsCurrent /\ SnapshotHonoursStop /\ StopSurvives
  BY <1>2 DEF OneHolds, Holds, PlanIsCurrent, SnapshotHonoursStop, StopSurvives, Init
<1>4. ProgramsAreInStep
  <2> SUFFICES ASSUME NEW n \in Names
               PROVE  /\ config[n] = None <=> processes[n] = None
                      /\ config[n] = None <=> desired[n] = None
                      /\ config[n] # None => def[Current(n)] = config[n]
    BY DEF ProgramsAreInStep
  <2>1. 0 # None /\ WantedAtFirst(config[n]) # None
    BY DEF WantedAtFirst
  <2>2. <<n, 0>> \in Objs
    BY DEF Objs, Gens
  <2>3. def[<<n, 0>>] = config[n]
    BY <2>2 DEF Init
  <2> QED BY <2>1, <2>3 DEF Init, Current
<1> QED BY <1>1, <1>3, <1>4 DEF ReloadInv

Step == [at : {"idle", "locking", "snapshot", "stopping"}, gen : Gens,
         old : Configs, new : Configs, previous : [Names -> Wanted],
         todo : SUBSET Names, waits : SUBSET Names]

\* One field, or some, of one reload.
LEMMA FieldUpdate ==
    ASSUME NEW f \in Step, NEW at \in {"idle", "locking", "snapshot", "stopping"},
           NEW todo \in SUBSET Names, NEW waits \in SUBSET Names, NEW previous \in [Names -> Wanted]
    PROVE  /\ [f EXCEPT !.at = at] \in Step
           /\ [f EXCEPT !.at = at, !.previous = previous, !.todo = todo] \in Step
           /\ [f EXCEPT !.waits = waits] \in Step
BY DEF Step

\* So the reloads keep their type when one moves on.
LEMMA ReloadUpdate ==
    ASSUME NEW r \in Reloaders, reload \in ReloadTypes, NEW at \in {"idle", "locking", "snapshot", "stopping"},
           NEW todo \in SUBSET Names, NEW waits \in SUBSET Names, NEW previous \in [Names -> Wanted]
    PROVE  /\ [reload EXCEPT ![r].at = at] \in ReloadTypes
           /\ [reload EXCEPT ![r].at = at, ![r].previous = previous, ![r].todo = todo] \in ReloadTypes
           /\ [reload EXCEPT ![r].waits = waits] \in ReloadTypes
<1>1. reload \in [Reloaders -> Step] /\ reload[r] \in Step
  BY DEF ReloadTypes, Step
<1>2. /\ [reload[r] EXCEPT !.at = at] \in Step
      /\ [reload[r] EXCEPT !.at = at, !.previous = previous, !.todo = todo] \in Step
      /\ [reload[r] EXCEPT !.waits = waits] \in Step
  BY <1>1, FieldUpdate
<1>3. [reload EXCEPT ![r].at = at] \in [Reloaders -> Step]
  BY <1>1, <1>2
<1>4. [reload EXCEPT ![r].at = at, ![r].previous = previous, ![r].todo = todo] \in [Reloaders -> Step]
  <2>1. [reload EXCEPT ![r].at = at, ![r].previous = previous, ![r].todo = todo]
          = [reload EXCEPT ![r] = [reload[r] EXCEPT !.at = at, !.previous = previous, !.todo = todo]]
    BY <1>1 DEF Step
  <2> QED BY <1>1, <1>2, <2>1
<1>6. [reload EXCEPT ![r].waits = waits] \in [Reloaders -> Step]
  BY <1>1, <1>2
<1> QED BY <1>3, <1>4, <1>6 DEF ReloadTypes, Step

\* And when stopForReload has asked for one more stop.
LEMMA TodoUpdate ==
    ASSUME NEW r \in Reloaders, reload \in ReloadTypes, NEW todo \in SUBSET Names, NEW waits \in SUBSET Names
    PROVE  [reload EXCEPT ![r].todo = todo, ![r].waits = waits] \in ReloadTypes
<1>1. reload \in [Reloaders -> Step] /\ reload[r] \in Step
  BY DEF ReloadTypes, Step
<1>2. [reload[r] EXCEPT !.todo = todo, !.waits = waits] \in Step
  BY <1>1 DEF Step
<1>3. [reload EXCEPT ![r].todo = todo, ![r].waits = waits]
        = [reload EXCEPT ![r] = [reload[r] EXCEPT !.todo = todo, !.waits = waits]]
  BY <1>1 DEF Step
<1> QED BY <1>1, <1>2, <1>3 DEF ReloadTypes, Step

\* A reload that is not there.
LEMMA NoReloadType ==
    NoReload \in [at : {"idle", "locking", "snapshot", "stopping"}, gen : Gens,
                  old : Configs, new : Configs, previous : [Names -> Wanted],
                  todo : SUBSET Names, waits : SUBSET Names]
<1>1. 0 \in Gens
  BY DEF Gens
<1>2. None2 \in Configs /\ None2 \in [Names -> Wanted]
  BY DEF None2, Configs, Wanted
<1> QED BY <1>1, <1>2 DEF NoReload

\* A reload that takes the lock, or one that does not have it.
LEMMA AskStep == ASSUME ReloadInv, NEW r \in Reloaders, Ask(r) \/ Refused(r) PROVE ReloadInv'
<1> USE DEF ReloadInv
<1>1. reload' \in ReloadTypes
  <2>1. CASE Ask(r)
    BY <2>1, ReloadUpdate DEF Ask, AppliedTypes
  <2>2. CASE Refused(r)
    BY <2>2, NoReloadType DEF Refused, AppliedTypes, ReloadTypes
  <2> QED BY <2>1, <2>2
<1>2. /\ UNCHANGED <<config, processes, desired, def, told, reloads>>
      /\ \A q \in Reloaders : q # r => reload'[q] = reload[q]
      /\ reload'[r].at \notin {"snapshot", "stopping"}
  BY DEF Ask, Refused, AppliedTypes, ReloadTypes, NoReload, serverVars
<1>3. AppliedTypes'
  BY <1>1, <1>2 DEF AppliedTypes
<1>4. OneHolds' /\ PlanIsCurrent' /\ SnapshotHonoursStop' /\ StopSurvives' /\ ProgramsAreInStep'
  <2>1. \A q \in Reloaders : Holds(q)' => q # r /\ Holds(q) /\ reload'[q] = reload[q]
    BY <1>2 DEF Holds
  <2> QED BY <1>2, <2>1
    DEF OneHolds, PlanIsCurrent, Dropped, SnapshotHonoursStop, StopSurvives, ProgramsAreInStep,
        Holds, Current
<1> QED BY <1>3, <1>4

\* The holder of reloadMutex reads the file against the configuration of now.
LEMMA PlanStep == ASSUME ReloadInv, NEW r \in Reloaders, Plan(r) PROVE ReloadInv'
<1> USE DEF ReloadInv
<1> PICK new \in Files \ {config} :
      reload' = [reload EXCEPT ![r] = [NoReload EXCEPT !.at = "snapshot", !.gen = reloads + 1, !.old = config, !.new = new]]
  BY DEF Plan
<1>1. reloads + 1 \in Gens /\ new \in Configs
  BY DEF Plan, AppliedTypes, Gens, Configs
<1>2. [NoReload EXCEPT !.at = "snapshot", !.gen = reloads + 1, !.old = config, !.new = new]
        \in [at : {"idle", "locking", "snapshot", "stopping"}, gen : Gens,
             old : Configs, new : Configs, previous : [Names -> Wanted], todo : SUBSET Names, waits : SUBSET Names]
  BY <1>1, NoReloadType DEF AppliedTypes
<1>3. reload' \in ReloadTypes
  BY <1>2 DEF AppliedTypes, ReloadTypes
<1>4. /\ UNCHANGED <<config, processes, desired, def, told>>
      /\ \A q \in Reloaders : q # r => reload'[q] = reload[q] /\ ~Holds(q)
      /\ reload'[r].at = "snapshot" /\ reload'[r].old = config /\ reload'[r].todo = {}
  BY DEF Plan, MayLock, AppliedTypes, ReloadTypes, NoReload, serverVars, Holds
<1>5. AppliedTypes'
  BY <1>1, <1>3, <1>4 DEF AppliedTypes, Plan, Gens
<1>6. OneHolds' /\ PlanIsCurrent' /\ SnapshotHonoursStop' /\ StopSurvives' /\ ProgramsAreInStep'
  <2>1. \A q \in Reloaders : Holds(q)' => q = r
    BY <1>4 DEF Holds
  <2> QED BY <1>4, <2>1
    DEF OneHolds, PlanIsCurrent, SnapshotHonoursStop, StopSurvives, ProgramsAreInStep, Holds,
        Current, Dropped
<1> QED BY <1>5, <1>6

\* What is wanted is noted when no stop was asked for yet.
LEMMA SnapshotStep == ASSUME ReloadInv, NEW r \in Reloaders, Snapshot(r) PROVE ReloadInv'
<1> USE DEF ReloadInv
<1>1. Dropped(r) \subseteq Names
  BY DEF Dropped, Removed, Changed
<1>2. reload' \in ReloadTypes
  BY <1>1, ReloadUpdate DEF Snapshot, AppliedTypes
<1>3. /\ UNCHANGED <<config, processes, desired, def, told, reloads>>
      /\ \A q \in Reloaders : q # r => reload'[q] = reload[q]
      /\ Holds(r) /\ reload'[r].at = "stopping" /\ reload'[r].old = reload[r].old /\ reload'[r].new = reload[r].new
      /\ reload'[r].todo = Dropped(r) /\ reload'[r].previous = desired
  BY DEF Snapshot, AppliedTypes, ReloadTypes, serverVars, Holds
<1>4. AppliedTypes'
  BY <1>2, <1>3 DEF AppliedTypes
<1>5. \A q \in Reloaders : Holds(q)' => q = r
  BY <1>3 DEF Holds, OneHolds
<1>6. PlanIsCurrent'
  BY <1>3, <1>5 DEF PlanIsCurrent, Dropped, ProgramsAreInStep, Holds
<1>7. OneHolds' /\ SnapshotHonoursStop' /\ StopSurvives' /\ ProgramsAreInStep'
  BY <1>3, <1>5 DEF OneHolds, SnapshotHonoursStop, StopSurvives, ProgramsAreInStep, Holds, Current, Dropped
<1> QED BY <1>4, <1>6, <1>7

\* A stop for a reload, and the end of a wait, are about a configured program.
LEMMA WaitStep ==
    ASSUME ReloadInv, NEW r \in Reloaders, StopNext(r) \/ \E n \in Names : Awaited(r, n) \/ GivesUp(r, n)
    PROVE  ReloadInv'
<1> USE DEF ReloadInv
<1>1. /\ reload' \in ReloadTypes
      /\ \A q \in Reloaders : q # r => reload'[q] = reload[q]
      /\ reload'[r].at = reload[r].at /\ reload'[r].old = reload[r].old /\ reload'[r].new = reload[r].new
      /\ reload'[r].todo \subseteq reload[r].todo /\ reload'[r].previous = reload[r].previous
      /\ UNCHANGED <<config, processes, def, told, reloads>>
      /\ desired' = desired \/ \E n \in reload[r].todo : reload[r].at = "stopping" /\ desired' = [desired EXCEPT ![n] = "STOPPED"]
  <2>1. CASE StopNext(r)
    <3> PICK n \in reload[r].todo :
          /\ desired' = [desired EXCEPT ![n] = "STOPPED"]
          /\ reload' = [reload EXCEPT ![r].todo = @ \ {n}, ![r].waits = @ \cup {n}]
      BY <2>1 DEF StopNext
    <3>1. /\ reload \in ReloadTypes /\ n \in Names
          /\ reload[r].todo \in SUBSET Names /\ reload[r].waits \in SUBSET Names
          /\ reload[r].at \in {"idle", "locking", "snapshot", "stopping"} /\ reload[r].previous \in [Names -> Wanted]
      BY DEF AppliedTypes, ReloadTypes
    <3>2. reload' = [reload EXCEPT ![r].todo = reload[r].todo \ {n}, ![r].waits = reload[r].waits \cup {n}]
      BY <3>1 DEF ReloadTypes
    <3>3. reload' \in ReloadTypes
      <4>1. reload[r].todo \ {n} \in SUBSET Names /\ reload[r].waits \cup {n} \in SUBSET Names
        BY <3>1
      <4>2. [reload EXCEPT ![r].todo = reload[r].todo \ {n}, ![r].waits = reload[r].waits \cup {n}] \in ReloadTypes
        BY <3>1, <4>1, TodoUpdate
      <4> QED BY <3>2, <4>2
    <3>4. /\ \A q \in Reloaders : q # r => reload'[q] = reload[q]
          /\ reload'[r].at = reload[r].at /\ reload'[r].old = reload[r].old /\ reload'[r].new = reload[r].new
          /\ reload'[r].todo \subseteq reload[r].todo /\ reload'[r].previous = reload[r].previous
      BY <3>1, <3>2 DEF ReloadTypes
    <3>5. UNCHANGED <<config, processes, def, told, reloads>> /\ reload[r].at = "stopping"
      BY <2>1 DEF StopNext
    <3> QED BY <3>3, <3>4, <3>5
  <2>2. CASE \E n \in Names : Awaited(r, n) \/ GivesUp(r, n)
    <3> PICK n \in Names : Awaited(r, n) \/ GivesUp(r, n)
      BY <2>2
    <3>1. reload[r].waits \ {n} \subseteq Names
      BY DEF AppliedTypes, ReloadTypes
    <3>2. reload' = [reload EXCEPT ![r].waits = reload[r].waits \ {n}]
      BY DEF Awaited, GivesUp, AppliedTypes, ReloadTypes
    <3>3. reload' \in ReloadTypes
      BY <3>1, <3>2, ReloadUpdate DEF AppliedTypes
    <3> QED BY <3>2, <3>3 DEF Awaited, GivesUp, AppliedTypes, ReloadTypes, serverVars
  <2> QED BY <2>1, <2>2
<1>2. AppliedTypes'
  <2>1. desired' \in [Names -> Wanted]
    BY <1>1 DEF AppliedTypes, Wanted, ReloadTypes
  <2> QED BY <1>1, <2>1 DEF AppliedTypes
<1>3. OneHolds' /\ PlanIsCurrent' /\ SnapshotHonoursStop'
  BY <1>1 DEF OneHolds, PlanIsCurrent, SnapshotHonoursStop, Holds, Dropped
<1>4. \A n \in Names : desired'[n] = desired[n] \/ (desired'[n] = "STOPPED" /\ config[n] # None)
  <2>1. reload[r].at = "stopping" => \A n \in reload[r].todo : n \in Names /\ config[n] # None
    BY DEF PlanIsCurrent, Holds, Dropped, Removed, Changed
  <2> QED BY <1>1, <2>1 DEF AppliedTypes
<1>5. StopSurvives'
  BY <1>1, <1>4 DEF StopSurvives
<1>6. ProgramsAreInStep'
  BY <1>1, <1>4 DEF ProgramsAreInStep, Current
<1> QED BY <1>2, <1>3, <1>5, <1>6

\* applyPrograms replaces all of it under one lock.
LEMMA ApplyStep == ASSUME ReloadInv, NEW r \in Reloaders, Apply(r) PROVE ReloadInv'
<1> USE DEF ReloadInv
<1> DEFINE new == reload[r].new
           gone == Removed(reload[r].old, new)
           changed == Changed(reload[r].old, new)
           made == Added(reload[r].old, new) \cup changed
<1>1. /\ Holds(r) /\ reload[r].at = "stopping" /\ reload[r].old = config /\ config' = new
      /\ reload' = [reload EXCEPT ![r] = NoReload] /\ reloads' = reloads
      /\ new \in Configs /\ reload[r].gen \in Gens /\ reload[r].previous \in [Names -> Wanted]
  BY DEF Apply, Holds, PlanIsCurrent, AppliedTypes, ReloadTypes
<1>2. /\ processes' = [n \in Names |-> IF n \in gone THEN None ELSE IF n \in made THEN reload[r].gen ELSE processes[n]]
      /\ def' = [o \in Objs |-> IF o[1] \in made /\ o[2] = reload[r].gen THEN new[o[1]] ELSE def[o]]
      /\ desired' = [n \in Names |-> IF n \in gone THEN None ELSE IF n \in changed THEN reload[r].previous[n]
                                     ELSE IF n \in made THEN WantedAtFirst(new[n]) ELSE desired[n]]
      /\ told' = [n \in Names |-> IF n \in gone THEN "no" ELSE told[n]]
  BY DEF Apply, WantedAgain
<1>3. \A n \in Names :
        /\ n \in gone <=> config[n] # None /\ new[n] = None
        /\ n \in changed <=> config[n] # None /\ new[n] # None /\ config[n] # new[n]
        /\ n \in made <=> new[n] # None /\ config[n] # new[n]
  BY <1>1 DEF Removed, Changed, Added
<1> HIDE DEF new, gone, changed, made
<1>4. \A d : WantedAtFirst(d) \in {"RUNNING", "STOPPED"} /\ WantedAtFirst(d) # None
  BY DEF WantedAtFirst
<1>5. AppliedTypes'
  <2>1. reload' \in ReloadTypes
    BY <1>1, NoReloadType DEF AppliedTypes, ReloadTypes
  <2>2. processes' \in [Names -> Gens \cup {None}]
    BY <1>1, <1>2 DEF AppliedTypes
  <2>3. desired' \in [Names -> Wanted]
    BY <1>1, <1>2, <1>4 DEF AppliedTypes, Wanted
  <2>4. def' \in [Objs -> Defs \cup {None}]
    <3>1. \A o \in Objs : o[1] \in Names /\ new[o[1]] \in Defs \cup {None}
      BY <1>1 DEF Objs, Configs
    <3> QED BY <1>2, <3>1 DEF AppliedTypes
  <2>5. told' \in [Names -> {"no", "stop", "late"}]
    BY <1>2 DEF AppliedTypes
  <2> QED BY <1>1, <2>1, <2>2, <2>3, <2>4, <2>5 DEF AppliedTypes
<1>6. \A q \in Reloaders : ~Holds(q)' /\ reload'[q].at # "stopping"
  BY <1>1 DEF Holds, OneHolds, AppliedTypes, ReloadTypes, NoReload
<1>7. OneHolds' /\ PlanIsCurrent'
  BY <1>6 DEF OneHolds, PlanIsCurrent, Holds
<1>8. SnapshotHonoursStop'
  <2>1. \A n \in Names : told'[n] # "no" => config'[n] # None
    BY <1>1, <1>2, <1>3 DEF SnapshotHonoursStop
  <2> QED BY <1>6, <2>1 DEF SnapshotHonoursStop
<1>9. StopSurvives'
  <2> SUFFICES ASSUME NEW n \in Names, told'[n] = "stop" PROVE desired'[n] # "RUNNING"
    BY DEF StopSurvives
  <2>1. n \notin gone /\ told[n] = "stop"
    BY <1>2
  <2>2. config[n] # None /\ desired[n] # "RUNNING"
    BY <2>1 DEF SnapshotHonoursStop, StopSurvives
  <2>3. n \in changed => reload[r].previous[n] # "RUNNING"
    BY <1>1, <2>1 DEF SnapshotHonoursStop, Dropped, changed, new
  <2>4. n \in made => n \in changed
    BY <1>3, <2>2
  <2> QED BY <1>2, <2>1, <2>2, <2>3, <2>4
<1>10. ProgramsAreInStep'
  <2> SUFFICES ASSUME NEW n \in Names
               PROVE  /\ config'[n] = None <=> processes'[n] = None
                      /\ config'[n] = None <=> desired'[n] = None
                      /\ config'[n] # None => def'[<<n, processes'[n]>>] = config'[n]
    BY DEF ProgramsAreInStep, Current
  <2>1. reload[r].gen # None
    BY <1>1 DEF Gens
  <2>2. reload[r].previous[n] = None <=> config[n] = None
    BY <1>1 DEF PlanIsCurrent
  <2>3. /\ config[n] = None <=> processes[n] = None
        /\ config[n] = None <=> desired[n] = None
        /\ config[n] # None => def[<<n, processes[n]>>] = config[n]
    BY DEF ProgramsAreInStep, Current
  <2>4. config'[n] # None => def'[<<n, processes'[n]>>] = config'[n]
    <3> SUFFICES ASSUME new[n] # None PROVE def'[<<n, processes'[n]>>] = new[n]
      BY <1>1
    <3>1. CASE n \in made
      <4>1. processes'[n] = reload[r].gen /\ <<n, reload[r].gen>> \in Objs
        BY <1>1, <1>2, <1>3, <3>1 DEF Objs
      <4> QED BY <1>2, <3>1, <4>1
    <3>2. CASE n \notin made
      <4>1. config[n] = new[n] /\ processes'[n] = processes[n] /\ processes[n] \in Gens
        BY <1>2, <1>3, <2>3, <3>2 DEF AppliedTypes
      <4>2. <<n, processes[n]>> \in Objs
        BY <4>1 DEF Objs
      <4>3. def'[<<n, processes[n]>>] = def[<<n, processes[n]>>]
        BY <1>2, <3>2, <4>2
      <4> QED BY <2>3, <4>1, <4>3
    <3> QED BY <3>1, <3>2
  <2>5. config'[n] = None <=> processes'[n] = None
    BY <1>1, <1>2, <1>3, <2>1, <2>3
  <2>6. config'[n] = None <=> desired'[n] = None
    BY <1>1, <1>2, <1>3, <1>4, <2>2, <2>3
  <2> QED BY <2>4, <2>5, <2>6
<1> QED BY <1>5, <1>7, <1>8, <1>9, <1>10

\* An operator's stop or start.
LEMMA WordStep ==
    ASSUME ReloadInv, (\E n \in Names : AskStop(n)) \/ (\E c \in Clients : Want(c)) PROVE ReloadInv'
<1> USE DEF ReloadInv
<1>1. CASE \E n \in Names : AskStop(n)
  <2> PICK n \in Names : AskStop(n)
    BY <1>1
  <2>1. /\ UNCHANGED <<config, processes, def, reload, reloads>> /\ config[n] # None
        /\ desired' = [desired EXCEPT ![n] = "STOPPED"]
        /\ told' = [told EXCEPT ![n] = IF Redefining(n) THEN "late" ELSE "stop"]
    BY DEF AskStop, ProgramsAreInStep
  <2>2. AppliedTypes'
    BY <2>1 DEF AppliedTypes, Wanted
  <2>3. OneHolds' /\ PlanIsCurrent' /\ ProgramsAreInStep'
    BY <2>1 DEF OneHolds, PlanIsCurrent, ProgramsAreInStep, Holds, Dropped, Current, AppliedTypes
  <2>4. StopSurvives'
    BY <2>1 DEF StopSurvives, AppliedTypes
  <2>5. SnapshotHonoursStop'
    <3> SUFFICES ASSUME NEW r \in Reloaders, reload[r].at = "stopping", n \in Dropped(r), told'[n] = "stop"
                 PROVE  reload[r].previous[n] # "RUNNING"
      BY <2>1 DEF SnapshotHonoursStop, AppliedTypes, Dropped
    <3>1. ~Redefining(n)
      BY <2>1 DEF AppliedTypes
    <3> QED BY <3>1 DEF Redefining
  <2> QED BY <2>2, <2>3, <2>4, <2>5
<1>2. CASE \E c \in Clients : Want(c)
  <2> PICK c \in Clients : Want(c)
    BY <1>2
  <2> DEFINE n == client[c].obj[1]
  <2>1. CASE processes[n] = None
    <3>1. UNCHANGED <<config, processes, desired, def, reload, reloads, told>>
      BY <2>1 DEF Want
    <3> QED BY <3>1
      DEF AppliedTypes, OneHolds, PlanIsCurrent, ProgramsAreInStep, Holds, Dropped, Current,
          SnapshotHonoursStop, StopSurvives
  <2>2. CASE processes[n] # None /\ n \in Names
    <3>1. /\ UNCHANGED <<config, processes, def, reload, reloads>> /\ config[n] # None
          /\ desired' = [desired EXCEPT ![n] = "RUNNING"] /\ told' = [told EXCEPT ![n] = "no"]
      BY <2>2 DEF Want, ProgramsAreInStep
    <3> HIDE DEF n
    <3>2. AppliedTypes'
      BY <3>1 DEF AppliedTypes, Wanted
    <3>3. OneHolds' /\ PlanIsCurrent' /\ ProgramsAreInStep'
      BY <2>2, <3>1 DEF OneHolds, PlanIsCurrent, ProgramsAreInStep, Holds, Dropped, Current, AppliedTypes
    <3>4. StopSurvives' /\ SnapshotHonoursStop'
      BY <2>2, <3>1 DEF StopSurvives, SnapshotHonoursStop, AppliedTypes, Dropped
    <3> QED BY <3>2, <3>3, <3>4
  <2>3. CASE n \notin Names
    <3>1. UNCHANGED <<config, processes, def, reload, reloads>>
      BY DEF Want
    <3>2. desired' = desired /\ told' = told
      <4>1. DOMAIN desired = Names /\ DOMAIN told = Names
        BY DEF AppliedTypes
      <4>2. [desired EXCEPT ![n] = "RUNNING"] = desired /\ [told EXCEPT ![n] = "no"] = told
        BY <2>3, <4>1 DEF AppliedTypes
      <4> QED
        BY <4>2 DEF Want
    <3> HIDE DEF n
    <3>3. AppliedTypes' /\ OneHolds' /\ PlanIsCurrent' /\ ProgramsAreInStep'
      BY <3>1, <3>2 DEF AppliedTypes, OneHolds, PlanIsCurrent, ProgramsAreInStep, Holds, Dropped, Current
    <3>4. SnapshotHonoursStop' /\ StopSurvives'
      BY <3>1, <3>2 DEF SnapshotHonoursStop, StopSurvives, Dropped
    <3> QED BY <3>3, <3>4
  <2> QED BY <2>1, <2>2, <2>3
<1> QED BY <1>1, <1>2

\* Every step keeps the invariant.
LEMMA ReloadInvStep == ReloadInv /\ [Next]_vars => ReloadInv'
<1> SUFFICES ASSUME ReloadInv, [Next]_vars PROVE ReloadInv'
  OBVIOUS
<1>1. CASE UNCHANGED <<config, processes, desired, def, reload, told, reloads>>
  BY <1>1 DEF ReloadInv, AppliedTypes, OneHolds, PlanIsCurrent, ProgramsAreInStep, Holds, Dropped, Current,
              SnapshotHonoursStop, StopSurvives
<1>2. CASE UNCHANGED vars
  BY <1>1, <1>2 DEF vars
<1>3. ASSUME NEW o \in Objs, Exits(o) \/ Retries(o) PROVE ReloadInv'
  BY <1>1, <1>3 DEF Exits, Retries, serverVars, histVars
<1>4. CASE Reconcile
  BY <1>1, <1>4 DEF Reconcile, BeginPass, LoopEnds, Look, Judge, RunAction, RecStep, histVars
<1>5. ASSUME NEW w \in Workers, Action(w) PROVE ReloadInv'
  BY <1>1, <1>5 DEF Action, ActionStarts, ActionStops, ActionStopped, ActionReturns, WorkerStep, histVars
<1>6. ASSUME NEW r \in Reloaders, Ask(r) \/ ReloadStep(r) PROVE ReloadInv'
  <2>1. CASE Ask(r) \/ Refused(r)
    BY <2>1, AskStep
  <2>2. CASE Plan(r)
    BY <2>2, PlanStep
  <2>3. CASE Snapshot(r)
    BY <2>3, SnapshotStep
  <2>4. CASE StopNext(r) \/ \E n \in Names : Awaited(r, n) \/ GivesUp(r, n)
    BY <2>4, WaitStep
  <2>5. CASE Apply(r)
    BY <2>5, ApplyStep
  <2> QED BY <1>6, <2>1, <2>2, <2>3, <2>4, <2>5 DEF ReloadStep
<1>7. CASE (\E n \in Names : AskStop(n)) \/ (\E c \in Clients : Want(c))
  BY <1>7, WordStep
<1>8. ASSUME NEW c \in Clients, AskStart(c) PROVE ReloadInv'
  BY <1>1, <1>8 DEF AskStart, serverVars
<1>9. CASE BeginShutdown \/ Shutdown \/ Exited
  BY <1>1, <1>9
  DEF BeginShutdown, Shutdown, Exited, Quiesced, DaemonExits, StopProgram, ProgramStopped, StopStep,
                    serverVars, histVars, vars
<1> QED BY <1>2, <1>3, <1>4, <1>5, <1>6, <1>7, <1>8, <1>9 DEF Next

\* Whatever the reloads, the operators and the actions do, and in whatever order,
\* the Processes, what is wanted and the configuration are about the same
\* programs (reload.go:24-27, 104-132).
THEOREM ReloadProgramsAreInStep == Spec => []ProgramsAreInStep
<1>1. ReloadInv => ProgramsAreInStep
  BY DEF ReloadInv
<1> QED BY <1>1, ReloadInvInit, ReloadInvStep, PTL DEF Spec

\* A program stopped before the reload is not wanted again by it (reload.go:60-61).
THEOREM ReloadStopSurvives == Spec => []StopSurvives
<1>1. ReloadInv => StopSurvives
  BY DEF ReloadInv
<1> QED BY <1>1, ReloadInvInit, ReloadInvStep, PTL DEF Spec

-----------------------------------------------------------------------------
\* A step of a reload is of none but what it adds, changes or removes.
LEMMA UntouchedStep ==
    ASSUME ReloadInv, [Next]_vars, NEW r \in Reloaders, reload'[r] # reload[r], reload[r].at # "idle",
           NEW n \in Names, reload[r].old[n] = reload[r].new[n], reload[r].new[n] # None
    PROVE  processes'[n] = processes[n] /\ desired'[n] = desired[n] /\ st'[Current(n)] = st[Current(n)]
<1>1. UNCHANGED reload => FALSE
  OBVIOUS
<1>2. \A o \in Objs : ~(Exits(o) \/ Retries(o))
  BY <1>1 DEF Exits, Retries
<1>3. ~Reconcile
  BY <1>1 DEF Reconcile, BeginPass, LoopEnds, Look, Judge, RunAction, RecStep
<1>4. \A w \in Workers : ~Action(w)
  BY <1>1 DEF Action, ActionStarts, ActionStops, ActionStopped, ActionReturns, WorkerStep
<1>5. \A c \in Clients : ~AskStart(c) /\ ~Want(c)
  BY <1>1 DEF AskStart, Want
<1>6. \A m \in Names : ~AskStop(m)
  BY <1>1 DEF AskStop
<1>7. ~BeginShutdown /\ ~Shutdown /\ ~Exited /\ ~UNCHANGED vars
  BY <1>1
  DEF BeginShutdown, Shutdown, Exited, Quiesced, DaemonExits, StopProgram, ProgramStopped, StopStep,
      vars
<1>8. PICK q \in Reloaders : Ask(q) \/ ReloadStep(q)
  BY <1>2, <1>3, <1>4, <1>5, <1>6, <1>7 DEF Next
<1>9. q = r
  BY <1>8
  DEF Ask, ReloadStep, Plan, Refused, Snapshot, StopNext, Awaited, GivesUp, Apply, ReloadInv,
      AppliedTypes, ReloadTypes
<1>10. UNCHANGED st
  BY <1>8 DEF Ask, ReloadStep, Plan, Refused, Snapshot, StopNext, Awaited, GivesUp, Apply, Others
<1>11. CASE Ask(q) \/ Plan(q) \/ Refused(q) \/ Snapshot(q) \/ \E m \in Names : Awaited(q, m) \/ GivesUp(q, m)
  BY <1>10, <1>11 DEF Ask, Plan, Refused, Snapshot, Awaited, GivesUp, serverVars
<1>12. n \notin Dropped(r)
  BY DEF Dropped, Removed, Changed
<1>13. CASE StopNext(q)
  <2>1. reload[r].todo \subseteq Dropped(r)
    BY <1>9, <1>13 DEF ReloadInv, PlanIsCurrent, Holds, StopNext
  <2>2. \A m \in Dropped(r) : m # n
    BY <1>12
  <2> QED BY <1>9, <1>10, <1>13, <2>1, <2>2 DEF StopNext, ReloadInv, AppliedTypes
<1>14. CASE Apply(q)
  <2>1. n \notin Removed(reload[r].old, reload[r].new) /\ n \notin Changed(reload[r].old, reload[r].new)
    BY <1>12 DEF Dropped
  <2>2. n \notin Added(reload[r].old, reload[r].new)
    BY DEF Added
  <2> QED BY <1>9, <1>10, <1>14, <2>1, <2>2 DEF Apply
<1> QED BY <1>8, <1>11, <1>13, <1>14 DEF ReloadStep

\* "Programs that are unchanged keep running untouched" (reload.go:19).
THEOREM ReloadUnchangedIsUntouched == Spec => UnchangedIsUntouched
<1> DEFINE A == \A r \in Reloaders : reload'[r] # reload[r] => \A n \in Names :
        (reload[r].at # "idle" /\ reload[r].old[n] = reload[r].new[n] /\ reload[r].new[n] # None) =>
            processes'[n] = processes[n] /\ desired'[n] = desired[n] /\ st'[Current(n)] = st[Current(n)]
<1>1. ReloadInv /\ [Next]_vars => A
  BY UntouchedStep
<1>2. ReloadInv /\ [Next]_vars => [A]_vars
  BY <1>1
<1> QED BY <1>2, ReloadInvInit, ReloadInvStep, PTL DEF Spec, UnchangedIsUntouched

-----------------------------------------------------------------------------
(***************************************************************************)
(* DroppedHasNoChild needs what a stop for a reload relies on from the     *)
(* moment it is asked for until applyPrograms acts on it: that nobody      *)
(* wants the program again and no start of it is still to come, so that    *)
(* "stopped" once seen is "stopped" for good.  After the shutdown's        *)
(* stopAllProcesses the same is true of all of them.                       *)
(***************************************************************************)

Obj == Objs \cup {NoObj}
WorkerTypes == [Workers -> [at : {"idle", "start", "stop", "stopping", "returning"}, obj : Obj]]
RecTypes == [at : {"select", "next", "judge", "run", "done"}, todo : SUBSET Names, want : Wanted, obj : Obj]
ClientTypes == [Clients -> [at : {"idle", "want"}, obj : Obj]]
StoppingTypes == [Names -> [at : {"idle", "due", "called", "done"}, obj : Obj]]
StTypes == [Objs -> {"STOPPED", "UP", "STOPPING", "EXITED"}]

\* What shares the programs with a reload.
RestTypes ==
    /\ st \in StTypes /\ worker \in WorkerTypes /\ rec \in RecTypes
    /\ rec.at \in {"judge", "run"} => rec.obj \in Objs
    /\ client \in ClientTypes /\ stopping \in StoppingTypes
    /\ inflight \subseteq Names /\ ops \in 0 .. MaxOps
    /\ phase \in {"up", "closing", "tiers", "exited"} /\ hasty \in BOOLEAN

\* Only a Process that is in s.processes is up, or about to be.
OnlyCurrent ==
    \A o \in Objs : (st[o] # "STOPPED" \/ StartPending(o)) => processes[o[1]] = o[2]

\* What a reload has asked to stop stays asked, and what it has seen stopped, stopped.
StopIsFinal ==
    \A r \in Reloaders : reload[r].at = "stopping" => \A n \in Dropped(r) \ reload[r].todo :
        /\ desired[n] = "STOPPED" /\ ~StartPending(Current(n))
        /\ n \notin reload[r].waits => st[Current(n)] = "STOPPED"

\* The shutdown has the program before it, is at it, or has stopped it.
Swept(n) ==
    \A o \in Objs : (o[1] = n /\ st[o] # "STOPPED") =>
        \/ stopping[n].at = "due"
        \/ stopping[n].at = "called" /\ stopping[n].obj = o /\ st[o] = "STOPPING"

\* Nothing is started any more when it begins.
Sweeping ==
    phase \in {"tiers", "exited"} =>
        /\ rec.at = "done" /\ \A w \in Workers : worker[w].at = "idle"
        /\ \A n \in Names : Swept(n) /\ (phase = "exited" => stopping[n].at = "done")

DropAll == OnlyCurrent /\ StopIsFinal /\ Sweeping
DropInv == ~hasty => DropAll

\* A Process in s.processes is one of the model's.
LEMMA CurrentIsObj ==
    ASSUME AppliedTypes, NEW n \in Names, processes[n] # None PROVE Current(n) \in Objs
BY DEF AppliedTypes, Current, Objs

\* Nothing to do, for an action, a request or a stop, is of the types.
LEMMA NothingTypes ==
    /\ Nothing \in [at : {"idle", "start", "stop", "stopping", "returning"}, obj : Obj]
    /\ Nothing \in [at : {"idle", "want"}, obj : Obj]
    /\ Nothing \in [at : {"idle", "due", "called", "done"}, obj : Obj]
    /\ NoPass \in RecTypes
BY DEF Nothing, NoPass, RecTypes, Wanted, Obj

\* At first nothing is going on.
LEMMA RestInit == Init => RestTypes
<1> SUFFICES ASSUME Init PROVE RestTypes
  OBVIOUS
<1>1. st \in StTypes
  BY DEF Init, StTypes
<1>2. worker \in WorkerTypes /\ rec \in RecTypes /\ client \in ClientTypes /\ stopping \in StoppingTypes
  BY NothingTypes DEF Init, WorkerTypes, ClientTypes, StoppingTypes
<1>3. inflight = {} /\ ops = 0 /\ phase = "up" /\ hasty = FALSE
  BY DEF Init
<1>4. rec.at \notin {"judge", "run"}
  BY DEF Init, NoPass
<1>5. ops \in 0 .. MaxOps
  BY <1>3
<1>6. inflight \subseteq Names /\ phase \in {"up", "closing", "tiers", "exited"}
  BY <1>3
<1>7. hasty \in BOOLEAN
  BY <1>3
<1> QED BY <1>1, <1>2, <1>4, <1>5, <1>6, <1>7 DEF RestTypes

\* What Stop does to a state, when it is called and when it returns.
LEMMA StopTypes ==
    ASSUME st \in StTypes, NEW o, StopCalled(o) \/ StopDone(o)
    PROVE  /\ st' \in StTypes
           /\ \A q \in Objs : st'[q] # st[q] => q = o
           /\ \A q \in Objs : st'[q] # "STOPPED" => st[q] # "STOPPED"
           /\ o \in Objs /\ StopCalled(o) => st'[o] \in {"STOPPING", "STOPPED"}
           /\ o \in Objs /\ StopDone(o) /\ st[o] \in {"STOPPING", "STOPPED"} => st'[o] = "STOPPED"
<1>1. CASE o \in Objs
  BY <1>1 DEF StTypes, StopCalled, StopDone
<1>2. CASE o \notin Objs
  <2>1. st' = st
    BY <1>2 DEF StTypes, StopCalled, StopDone
  <2> QED BY <1>2, <2>1
<1> QED BY <1>1, <1>2

\* The loop takes its Process from s.processes.
LEMMA ReconcileTypes == ASSUME AppliedTypes, RestTypes, Reconcile PROVE RestTypes'
<1>1. /\ st \in StTypes /\ worker \in WorkerTypes /\ rec \in RecTypes /\ inflight \subseteq Names
      /\ rec.at \in {"judge", "run"} => rec.obj \in Objs
  BY DEF RestTypes
<1>2. UNCHANGED <<st, client, stopping, ops, phase, hasty>>
  BY DEF Reconcile, BeginPass, LoopEnds, Look, Judge, RunAction, RecStep, histVars
<1> DEFINE Good == rec' \in RecTypes /\ (rec'.at \in {"judge", "run"} => rec'.obj \in Objs)
<1>3. CASE BeginPass \/ LoopEnds
  <2>1. Configured \subseteq Names
    BY DEF Configured
  <2>2. /\ [rec EXCEPT !.at = "next", !.todo = Configured] \in RecTypes
        /\ [rec EXCEPT !.at = "done"] \in RecTypes
    BY <1>1, <2>1 DEF RecTypes
  <2>3. Good
    BY <1>1, <1>3, <2>2 DEF BeginPass, LoopEnds, RecTypes
  <2> QED BY <1>1, <1>2, <1>3, <2>3 DEF BeginPass, LoopEnds, RestTypes
<1>4. CASE Look
  <2>1. Good
    <3>1. CASE rec.todo = {}
      <4>1. rec' = NoPass
        BY <1>4, <3>1 DEF Look
      <4>2. NoPass.at = "select"
        BY DEF NoPass
      <4> QED BY <4>1, <4>2, NothingTypes
    <3>2. CASE rec.todo # {}
      <4> PICK n \in rec.todo :
            rec' = IF n \in inflight \/ processes[n] = None
                   THEN [rec EXCEPT !.todo = @ \ {n}]
                   ELSE [at |-> "judge", todo |-> rec.todo \ {n}, want |-> desired[n], obj |-> Current(n)]
        BY <1>4, <3>2 DEF Look
      <4>1. n \in Names /\ rec.todo \subseteq Names /\ desired[n] \in Wanted /\ rec.at = "next"
        BY <1>1, <1>4 DEF RecTypes, AppliedTypes, Look
      <4>2. CASE n \in inflight \/ processes[n] = None
        BY <1>1, <4>1, <4>2 DEF RecTypes
      <4>3. CASE ~(n \in inflight \/ processes[n] = None)
        <5>1. Current(n) \in Objs /\ Current(n) \in Obj
          BY <4>1, <4>3, CurrentIsObj DEF Obj
        <5> QED BY <4>1, <4>3, <5>1 DEF RecTypes
      <4> QED BY <4>2, <4>3
    <3> QED BY <3>1, <3>2
  <2> QED BY <1>1, <1>2, <1>4, <2>1 DEF Look, RestTypes
<1>5. CASE Judge \/ RunAction
  <2>1. Next1 \in RecTypes /\ Next1.at = "next"
    BY <1>1 DEF Next1, RecTypes, Wanted, Obj
  <2>2. [rec EXCEPT !.at = "run"] \in RecTypes /\ [rec EXCEPT !.at = "run"].obj = rec.obj
    BY <1>1 DEF RecTypes
  <2>3. rec.obj \in Objs /\ rec.obj \in Obj /\ rec.obj[1] \in Names
    BY <1>1, <1>5 DEF Judge, RunAction, Obj, Objs
  <2>4. Good
    BY <1>5, <2>1, <2>2, <2>3 DEF Judge, RunAction
  <2>5. worker' \in WorkerTypes /\ inflight' \subseteq Names
    <3>1. CASE Judge
      BY <1>1, <3>1 DEF Judge
    <3>2. CASE RunAction
      <4> PICK w \in Workers :
            worker' = [worker EXCEPT ![w] = [at |-> IF rec.want = "RUNNING" THEN "start" ELSE "stop", obj |-> rec.obj]]
        BY <3>2 DEF RunAction
      <4>1. worker' \in WorkerTypes
        BY <1>1, <2>3 DEF WorkerTypes
      <4>2. inflight' = inflight \cup {rec.obj[1]}
        BY <3>2 DEF RunAction
      <4> QED BY <1>1, <2>3, <4>1, <4>2
    <3> QED BY <1>5, <3>1, <3>2
  <2> QED BY <1>2, <1>1, <2>4, <2>5 DEF RestTypes
<1> QED BY <1>3, <1>4, <1>5 DEF Reconcile

\* An action has a Process of the loop's.
LEMMA ActionTypes == ASSUME RestTypes, NEW w \in Workers, Action(w) PROVE RestTypes'
<1>1. st \in StTypes /\ worker \in WorkerTypes /\ inflight \subseteq Names /\ worker[w].obj \in Obj
  BY DEF RestTypes, WorkerTypes
<1>2. UNCHANGED <<rec, client, stopping, ops, phase, hasty>>
  BY DEF Action, ActionStarts, ActionStops, ActionStopped, ActionReturns, WorkerStep, histVars
<1>3. inflight' \subseteq Names
  BY <1>1 DEF Action, ActionStarts, ActionStops, ActionStopped, ActionReturns, Landed
<1>4. worker' \in WorkerTypes
  BY <1>1, NothingTypes
  DEF Action, ActionStarts, ActionStops, ActionStopped, ActionReturns, WorkerTypes
<1>5. st' \in StTypes
  <2>1. CASE ActionStarts(w)
    BY <1>1, <2>1 DEF ActionStarts, StTypes
  <2>2. CASE ActionStops(w) \/ ActionStopped(w)
    BY <1>1, <2>2, StopTypes DEF ActionStops, ActionStopped
  <2>3. CASE ActionReturns(w)
    BY <1>1, <2>3 DEF ActionReturns
  <2> QED BY <2>1, <2>2, <2>3 DEF Action
<1> QED BY <1>2, <1>3, <1>4, <1>5 DEF RestTypes

\* Every step keeps the types of what a reload shares the programs with.
LEMMA RestStep == AppliedTypes /\ RestTypes /\ [Next]_vars => RestTypes'
<1> SUFFICES ASSUME AppliedTypes, RestTypes, [Next]_vars PROVE RestTypes'
  OBVIOUS
<1>1. /\ st \in StTypes /\ client \in ClientTypes /\ stopping \in StoppingTypes
      /\ inflight \subseteq Names /\ ops \in 0 .. MaxOps /\ hasty \in BOOLEAN
  BY DEF RestTypes
<1>2. CASE UNCHANGED vars
  BY <1>2 DEF RestTypes, vars
<1>3. ASSUME NEW o \in Objs, Exits(o) \/ Retries(o) PROVE RestTypes'
  <2>1. st' \in StTypes
    BY <1>1, <1>3 DEF Exits, Retries, StTypes
  <2> QED BY <1>3, <2>1 DEF Exits, Retries, serverVars, histVars, RestTypes
<1>4. CASE Reconcile
  BY <1>4, ReconcileTypes
<1>5. ASSUME NEW w \in Workers, Action(w) PROVE RestTypes'
  BY <1>5, ActionTypes
<1>6. ASSUME NEW r \in Reloaders, Ask(r) \/ ReloadStep(r) PROVE RestTypes'
  <2>1. UNCHANGED <<st, worker, rec, client, phase, stopping, ops>>
    BY <1>6 DEF Ask, ReloadStep, Plan, Refused, Snapshot, StopNext, Awaited, GivesUp, Apply, Others
  <2>2. inflight' \subseteq Names
    BY <1>1, <1>6
    DEF Ask, ReloadStep, Plan, Refused, Snapshot, StopNext, Awaited, GivesUp, Apply, serverVars
  <2>3. hasty' \in BOOLEAN
    BY <1>1, <1>6
    DEF Ask, ReloadStep, Plan, Refused, Snapshot, StopNext, Awaited, GivesUp, Apply, StartPending
  <2> QED BY <2>1, <2>2, <2>3 DEF RestTypes
<1>7. ASSUME NEW n \in Names, AskStop(n) PROVE RestTypes'
  <2>1. ops' \in 0 .. MaxOps
    BY <1>1, <1>7 DEF AskStop
  <2> QED BY <1>7, <2>1 DEF AskStop, RestTypes
<1>8. ASSUME NEW c \in Clients, AskStart(c) PROVE RestTypes'
  <2> PICK n \in Configured :
        /\ client' = [client EXCEPT ![c] = [at |-> "want", obj |-> Current(n)]]
        /\ st' = [st EXCEPT ![Current(n)] = IF @ = "EXITED" THEN "STOPPED" ELSE @]
    BY <1>8 DEF AskStart
  <2>1. ops' \in 0 .. MaxOps
    BY <1>1, <1>8 DEF AskStart
  <2>2. Current(n) \in Objs /\ Current(n) \in Obj
    BY CurrentIsObj DEF Configured, Obj
  <2>3. st' \in StTypes
    BY <1>1, <2>2 DEF StTypes
  <2>4. client' \in ClientTypes
    BY <1>1, <2>2 DEF ClientTypes
  <2> QED BY <1>8, <2>1, <2>3, <2>4 DEF AskStart, serverVars, RestTypes
<1>9. ASSUME NEW c \in Clients, Want(c) PROVE RestTypes'
  <2>1. client' \in ClientTypes
    BY <1>1, <1>9, NothingTypes DEF Want, ClientTypes
  <2>2. hasty' \in BOOLEAN
    BY <1>1, <1>9 DEF Want, Redefining
  <2> QED BY <1>9, <2>1, <2>2 DEF Want, RestTypes
<1>10. CASE BeginShutdown \/ Quiesced \/ DaemonExits
  <2>1. stopping' \in StoppingTypes
    <3>1. \A at \in {"due", "done"} : [Nothing EXCEPT !.at = at] \in [at : {"idle", "due", "called", "done"}, obj : Obj]
      BY DEF Nothing, Obj
    <3> QED BY <1>1, <1>10, <3>1 DEF BeginShutdown, Quiesced, DaemonExits, StoppingTypes
  <2>2. phase' \in {"up", "closing", "tiers", "exited"} /\ st' = st
    BY <1>10 DEF BeginShutdown, Quiesced, DaemonExits
  <2> QED BY <1>10, <2>1, <2>2
    DEF BeginShutdown, Quiesced, DaemonExits, StopStep, serverVars, histVars, RestTypes
<1>11. ASSUME NEW n \in Names, StopProgram(n) \/ ProgramStopped(n) PROVE RestTypes'
  <2>1. st' \in StTypes
    BY <1>1, <1>11, StopTypes DEF StopProgram, ProgramStopped
  <2>2. stopping' \in StoppingTypes
    <3>1. processes[n] # None => Current(n) \in Obj
      BY CurrentIsObj DEF Obj
    <3>2. [Nothing EXCEPT !.at = "done"] \in [at : {"idle", "due", "called", "done"}, obj : Obj]
      BY DEF Nothing, Obj
    <3> QED BY <1>1, <1>11, <3>1, <3>2 DEF StopProgram, ProgramStopped, StoppingTypes
  <2> QED BY <1>11, <2>1, <2>2 DEF StopProgram, ProgramStopped, StopStep, serverVars, histVars, RestTypes
<1>12. CASE Exited
  BY <1>2, <1>12 DEF Exited
<1> QED
  BY <1>2, <1>3, <1>4, <1>5, <1>6, <1>7, <1>8, <1>9, <1>10, <1>11, <1>12 DEF Next, Shutdown

\* Every variable keeps its type, whatever the bounds.
THEOREM ReloadTypeOK == Spec => []TypeOK
<1>1. ReloadInv => AppliedTypes
  BY DEF ReloadInv
<1>2. AppliedTypes /\ RestTypes => TypeOK
  BY DEF AppliedTypes, RestTypes, TypeOK, ReloadTypes, StTypes, WorkerTypes, RecTypes, ClientTypes,
         StoppingTypes, Obj
<1> QED BY <1>1, <1>2, ReloadInvInit, ReloadInvStep, RestInit, RestStep, PTL DEF Spec

\* A step that starts nothing, decides on no start and is not about what is
\* wanted: what is asked to stop, and what has stopped, stays so.
Calms ==
    /\ UNCHANGED <<processes, desired, reload>>
    /\ \A o \in Objs : /\ st'[o] # "STOPPED" => st[o] # "STOPPED"
                       /\ StartPending(o)' => StartPending(o)

\* So a reload can go on relying on what it has asked for.
LEMMA CalmsKeeps ==
    ASSUME ReloadInv, RestTypes, OnlyCurrent, StopIsFinal, Calms PROVE OnlyCurrent' /\ StopIsFinal'
<1>1. OnlyCurrent'
  BY DEF OnlyCurrent, Calms
<1>2. StopIsFinal'
  <2> SUFFICES ASSUME NEW r \in Reloaders, reload[r].at = "stopping", NEW n \in Dropped(r) \ reload[r].todo
               PROVE  /\ desired[n] = "STOPPED" /\ ~StartPending(Current(n))'
                      /\ n \notin reload[r].waits => st'[Current(n)] = "STOPPED"
    BY DEF StopIsFinal, Calms, Dropped, Current
  <2>1. n \in Names /\ config[n] # None
    BY DEF Dropped, Removed, Changed, ReloadInv, PlanIsCurrent, Holds
  <2>2. Current(n) \in Objs
    BY <2>1, CurrentIsObj DEF ReloadInv, ProgramsAreInStep
  <2>3. Current(n)' = Current(n)
    BY DEF Current, Calms
  <2>4. StartPending(Current(n))' => StartPending(Current(n))
    BY <2>2, <2>3 DEF Calms, StartPending
  <2> QED BY <2>2, <2>4 DEF StopIsFinal, Calms
<1> QED BY <1>1, <1>2

\* Nor is it about the shutdown.
LEMMA SweepingKept ==
    ASSUME Sweeping, UNCHANGED <<phase, stopping, rec, worker>>,
           \A o \in Objs : \/ st'[o] = st[o] \/ st'[o] = "STOPPED" \/ stopping[o[1]].at = "due"
    PROVE  Sweeping'
BY DEF Sweeping, Swept

\* The children's own steps.
LEMMA ChildDrops ==
    ASSUME ReloadInv, RestTypes, DropAll, NEW o \in Objs, Exits(o) \/ Retries(o) PROVE DropAll'
<1>1. /\ st[o] \in {"UP", "EXITED"} /\ \A q \in Objs : q # o => st'[q] = st[q]
      /\ UNCHANGED <<processes, desired, reload, worker, rec, phase, stopping>> /\ phase # "exited"
  BY DEF Exits, Retries, RestTypes, StTypes, serverVars, Up
<1>2. Calms
  BY <1>1 DEF Calms, StartPending
<1>3. phase = "tiers" => stopping[o[1]].at = "due"
  BY <1>1 DEF DropAll, Sweeping, Swept, Objs
<1>4. Sweeping'
  BY <1>1, <1>3 DEF DropAll, Sweeping, Swept
<1> QED BY <1>2, <1>4, CalmsKeeps DEF DropAll

\* The loop decides on no start of a program that is asked to stop.
LEMMA ReconcileDrops == ASSUME ReloadInv, RestTypes, DropAll, Reconcile PROVE DropAll'
<1>1. UNCHANGED <<processes, desired, reload, st, phase, stopping, config>> /\ rec.at # "done"
  BY DEF Reconcile, BeginPass, LoopEnds, Look, Judge, RunAction, RecStep
<1>2. Sweeping'
  BY <1>1 DEF DropAll, Sweeping
<1>3. rec \in RecTypes /\ worker \in WorkerTypes /\ (rec.at \in {"judge", "run"} => rec.obj \in Objs)
  BY DEF RestTypes
<1>4. CASE BeginPass \/ LoopEnds \/ Judge
  <2>1. worker' = worker /\ (rec'.want = rec.want \/ rec'.want = None)
    BY <1>3, <1>4 DEF BeginPass, LoopEnds, Judge, Next1, RecTypes
  <2>2. rec'.want = "RUNNING" => rec'.obj = rec.obj /\ rec.want = "RUNNING"
    BY <1>3, <1>4, <2>1 DEF BeginPass, LoopEnds, Judge, Next1, RecTypes
  <2>3. Calms
    BY <1>1, <2>1, <2>2 DEF Calms, StartPending
  <2> QED BY <1>2, <2>3, CalmsKeeps DEF DropAll
<1>5. CASE RunAction
  <2> PICK w \in Workers :
        worker' = [worker EXCEPT ![w] = [at |-> IF rec.want = "RUNNING" THEN "start" ELSE "stop", obj |-> rec.obj]]
    BY <1>5 DEF RunAction
  <2>1. rec'.want = None
    BY <1>3, <1>5 DEF RunAction, Next1, RecTypes
  <2>2. \A v \in Workers : v # w => worker'[v] = worker[v]
    BY <1>3 DEF WorkerTypes
  <2>3. worker'[w].at = "start" => rec.want = "RUNNING" /\ worker'[w].obj = rec.obj
    BY <1>3 DEF WorkerTypes
  <2>4. Calms
    BY <1>1, <2>1, <2>2, <2>3 DEF Calms, StartPending
  <2> QED BY <1>2, <2>4, CalmsKeeps DEF DropAll
<1>6. CASE Look
  <2>1. CASE rec'.want # "RUNNING" \/ (rec'.want = rec.want /\ rec'.obj = rec.obj)
    <3>1. Calms
      BY <1>1, <1>6, <2>1 DEF Calms, StartPending, Look
    <3> QED BY <1>2, <3>1, CalmsKeeps DEF DropAll
  <2>2. CASE rec'.want = "RUNNING" /\ ~(rec'.want = rec.want /\ rec'.obj = rec.obj)
    <3>1. PICK n \in rec.todo :
            processes[n] # None /\ desired[n] = "RUNNING" /\ rec'.obj = Current(n) /\ rec'.want = "RUNNING"
      <4>1. rec.todo # {}
        BY <1>6, <2>2 DEF Look, NoPass
      <4> PICK n \in rec.todo :
            rec' = IF n \in inflight \/ processes[n] = None
                   THEN [rec EXCEPT !.todo = @ \ {n}]
                   ELSE [at |-> "judge", todo |-> rec.todo \ {n}, want |-> desired[n], obj |-> Current(n)]
        BY <1>6, <4>1 DEF Look
      <4>2. ~(n \in inflight \/ processes[n] = None)
        BY <1>3, <2>2 DEF RecTypes
      <4> QED BY <2>2, <4>2
    <3>2. n \in Names
      BY <1>3 DEF RecTypes
    <3>3. \A o \in Objs : StartPending(o)' => StartPending(o) \/ o = Current(n)
      BY <1>6, <3>1 DEF StartPending, Look
    <3>4. OnlyCurrent'
      BY <1>1, <3>1, <3>3 DEF DropAll, OnlyCurrent, Current
    <3>5. StopIsFinal'
      <4> SUFFICES ASSUME NEW r \in Reloaders, reload[r].at = "stopping", NEW m \in Dropped(r) \ reload[r].todo
                   PROVE  ~StartPending(Current(m))'
        BY <1>1 DEF DropAll, StopIsFinal, Dropped, Current
      <4>1. m \in Names /\ config[m] # None
        BY DEF Dropped, Removed, Changed, ReloadInv, PlanIsCurrent, Holds
      <4>2. Current(m) \in Objs /\ Current(m)' = Current(m)
        BY <1>1, <4>1, CurrentIsObj DEF ReloadInv, ProgramsAreInStep, Current
      <4>3. m # n /\ ~StartPending(Current(m))
        BY <3>1 DEF DropAll, StopIsFinal
      <4>4. Current(m) # Current(n)
        BY <4>3 DEF Current
      <4> QED BY <3>3, <4>2, <4>3, <4>4 DEF StartPending
    <3> QED BY <1>2, <3>4, <3>5 DEF DropAll
  <2> QED BY <2>1, <2>2
<1> QED BY <1>4, <1>5, <1>6 DEF Reconcile

\* An action that was decided before: its program is asked to stop by nobody yet.
LEMMA ActionDrops == ASSUME ReloadInv, RestTypes, DropAll, NEW w \in Workers, Action(w) PROVE DropAll'
<1>1. /\ UNCHANGED <<processes, desired, reload, rec, phase, stopping, config>>
      /\ worker[w].at # "idle"
  BY DEF Action, ActionStarts, ActionStops, ActionStopped, ActionReturns, WorkerStep
<1>2. Sweeping'
  BY <1>1 DEF DropAll, Sweeping
<1>3. st \in StTypes /\ worker \in WorkerTypes
  BY DEF RestTypes
<1>4. (\A v \in Workers : v # w => worker'[v] = worker[v]) /\ worker'[w].at # "start"
  BY <1>3 DEF Action, ActionStarts, ActionStops, ActionStopped, ActionReturns, WorkerTypes, Nothing
<1>5. \A o : StartPending(o)' => StartPending(o)
  BY <1>1, <1>4 DEF StartPending
<1>6. CASE ActionStops(w) \/ ActionStopped(w) \/ ActionReturns(w)
  <2>1. \A q \in Objs : st'[q] # "STOPPED" => st[q] # "STOPPED"
    BY <1>3, <1>6, StopTypes DEF ActionStops, ActionStopped, ActionReturns
  <2>2. Calms
    BY <1>1, <1>5, <2>1 DEF Calms
  <2> QED BY <1>2, <2>2, CalmsKeeps DEF DropAll
<1>7. CASE ActionStarts(w)
  <2> DEFINE o == worker[w].obj
  <2>1. StartPending(o)
    <3>1. worker[w] = [at |-> "start", obj |-> o]
      BY <1>3, <1>7 DEF ActionStarts, WorkerTypes
    <3> QED BY <3>1 DEF StartPending
  <2>2. \A q \in Objs : q # o => st'[q] = st[q]
    BY <1>3, <1>7 DEF ActionStarts, StTypes
  <2> HIDE DEF o
  <2>3. OnlyCurrent'
    BY <1>1, <1>5, <2>1, <2>2 DEF DropAll, OnlyCurrent
  <2>4. StopIsFinal'
    <3> SUFFICES ASSUME NEW r \in Reloaders, reload[r].at = "stopping", NEW n \in Dropped(r) \ reload[r].todo
                 PROVE  /\ ~StartPending(Current(n))'
                        /\ n \notin reload[r].waits => st'[Current(n)] = "STOPPED"
      BY <1>1 DEF DropAll, StopIsFinal, Dropped, Current
    <3>1. n \in Names /\ config[n] # None
      BY DEF Dropped, Removed, Changed, ReloadInv, PlanIsCurrent, Holds
    <3>2. Current(n) \in Objs /\ Current(n)' = Current(n)
      BY <1>1, <3>1, CurrentIsObj DEF ReloadInv, ProgramsAreInStep, Current
    <3>3. ~StartPending(Current(n)) /\ (n \notin reload[r].waits => st[Current(n)] = "STOPPED")
      BY DEF DropAll, StopIsFinal
    <3>4. Current(n) # o
      BY <2>1, <3>3
    <3>5. ~StartPending(Current(n))'
      BY <1>5, <3>2, <3>3 DEF StartPending
    <3> QED BY <2>2, <3>2, <3>3, <3>4, <3>5
  <2> QED BY <1>2, <2>3, <2>4 DEF DropAll
<1> QED BY <1>6, <1>7 DEF Action

\* A reload that is not at stopping programs yet, or not any more.
LEMMA PlanDrops ==
    ASSUME ReloadInv, RestTypes, DropAll, NEW r \in Reloaders,
           Ask(r) \/ Plan(r) \/ Refused(r) \/ Snapshot(r)
    PROVE  DropAll'
<1>1. UNCHANGED <<processes, desired, st, worker, rec, phase, stopping>>
  BY DEF Ask, Plan, Refused, Snapshot, Others, serverVars
<1>2. reload \in ReloadTypes
  BY DEF ReloadInv, AppliedTypes
<1>3. \A q \in Reloaders : q # r => reload'[q] = reload[q]
  BY <1>2 DEF Ask, Plan, Refused, Snapshot, ReloadTypes
<1>4. reload'[r].at = "stopping" => Snapshot(r)
  <2>1. CASE Ask(r) \/ Refused(r)
    BY <1>2, <2>1 DEF Ask, Refused, ReloadTypes, NoReload
  <2>2. CASE Plan(r)
    <3> PICK new \in Files \ {config} :
          reload' = [reload EXCEPT ![r] = [NoReload EXCEPT !.at = "snapshot", !.gen = reloads + 1,
                                                            !.old = config, !.new = new]]
      BY <2>2 DEF Plan
    <3>1. reload'[r].at = "snapshot"
      BY <1>2 DEF ReloadTypes, NoReload
    <3> QED BY <3>1
  <2> QED BY <2>1, <2>2
<1>5. Snapshot(r) => reload'[r].todo = Dropped(r) /\ Dropped(r)' = Dropped(r)
  BY <1>2 DEF Snapshot, ReloadTypes, Dropped
<1>6. StopIsFinal'
  <2> SUFFICES ASSUME NEW q \in Reloaders, reload'[q].at = "stopping"
               PROVE  (\A n \in Dropped(q) \ reload[q].todo :
                         /\ desired[n] = "STOPPED" /\ ~StartPending(Current(n))
                         /\ n \notin reload[q].waits => st[Current(n)] = "STOPPED")'
    BY DEF StopIsFinal
  <2>1. CASE q = r
    BY <1>4, <1>5, <2>1
  <2>2. CASE q # r
    <3>1. reload'[q] = reload[q]
      BY <1>3, <2>2
    <3> QED BY <1>1, <3>1 DEF DropAll, StopIsFinal, Dropped, Current, StartPending
  <2> QED BY <2>1, <2>2
<1>7. OnlyCurrent' /\ Sweeping'
  BY <1>1 DEF DropAll, OnlyCurrent, StartPending, Sweeping, Swept
<1> QED BY <1>6, <1>7 DEF DropAll

\* stopForReload: from here on the stop can be relied on; or it is hasty.
LEMMA StopNextDrops ==
    ASSUME ReloadInv, RestTypes, DropAll, NEW r \in Reloaders, StopNext(r), ~hasty' PROVE DropAll'
<1>1. UNCHANGED <<processes, config, st, worker, rec, phase, stopping>> /\ reload[r].at = "stopping"
  BY DEF StopNext, Others
<1>2. OnlyCurrent' /\ Sweeping'
  BY <1>1 DEF DropAll, OnlyCurrent, StartPending, Sweeping, Swept
<1> PICK m \in reload[r].todo :
      /\ desired' = [desired EXCEPT ![m] = "STOPPED"]
      /\ reload' = [reload EXCEPT ![r].todo = @ \ {m}, ![r].waits = @ \cup {m}]
      /\ hasty' = (hasty \/ StartPending(Current(m)))
  BY DEF StopNext
<1>3. reload \in ReloadTypes /\ desired \in [Names -> Wanted] /\ m \in Names
  BY DEF ReloadInv, AppliedTypes, ReloadTypes
<1>4. /\ \A q \in Reloaders : q # r => reload'[q] = reload[q]
      /\ reload'[r].todo = reload[r].todo \ {m} /\ reload'[r].waits = reload[r].waits \cup {m}
      /\ reload'[r].old = reload[r].old /\ reload'[r].new = reload[r].new /\ reload'[r].at = reload[r].at
  BY <1>3 DEF ReloadTypes
<1>5. StopIsFinal'
  <2>a. \A q \in Reloaders : Dropped(q)' = Dropped(q)
    BY <1>4 DEF Dropped
  <2>b. \A n : StartPending(Current(n))' = StartPending(Current(n)) /\ st'[Current(n)'] = st[Current(n)]
    BY <1>1 DEF StartPending, Current
  <2> SUFFICES ASSUME NEW q \in Reloaders, reload'[q].at = "stopping", NEW n \in Dropped(q)' \ reload'[q].todo
               PROVE  /\ desired'[n] = "STOPPED" /\ ~StartPending(Current(n))'
                      /\ n \notin reload'[q].waits => st'[Current(n)'] = "STOPPED"
    BY DEF StopIsFinal
  <2>c. n \in Dropped(q) \ reload'[q].todo
    BY <2>a
  <2>d. reload[q].at = "stopping"
    BY <1>4
  <2>1. q = r
    BY <1>1, <2>d DEF ReloadInv, OneHolds, Holds
  <2>2. CASE n = m
    BY <1>1, <1>3, <1>4, <2>1, <2>2, <2>b
  <2>3. CASE n # m
    <3>1. n \in Names /\ n \in Dropped(r) \ reload[r].todo
      BY <1>4, <2>1, <2>3, <2>c DEF Dropped, Removed, Changed
    <3>2. /\ desired[n] = "STOPPED" /\ ~StartPending(Current(n))
          /\ n \notin reload[r].waits => st[Current(n)] = "STOPPED"
      BY <1>1, <3>1 DEF DropAll, StopIsFinal
    <3> QED BY <1>3, <1>4, <2>1, <2>3, <3>1, <3>2, <2>b
  <2> QED BY <2>2, <2>3
<1> QED BY <1>2, <1>5 DEF DropAll

\* The end of a wait, for a program that is seen stopped; or a hasty one.
LEMMA WaitDrops ==
    ASSUME ReloadInv, RestTypes, DropAll, NEW r \in Reloaders, NEW m \in Names,
           Awaited(r, m) \/ GivesUp(r, m), ~hasty'
    PROVE  DropAll'
<1>1. Awaited(r, m)
  BY DEF GivesUp
<1>2. UNCHANGED <<processes, desired, st, worker, rec, phase, stopping>>
  BY <1>1 DEF Awaited, Others, serverVars
<1>3. OnlyCurrent' /\ Sweeping'
  BY <1>2 DEF DropAll, OnlyCurrent, StartPending, Sweeping, Swept
<1>4. /\ \A q \in Reloaders : q # r => reload'[q] = reload[q]
      /\ reload'[r].todo = reload[r].todo /\ reload'[r].waits = reload[r].waits \ {m}
      /\ reload'[r].old = reload[r].old /\ reload'[r].new = reload[r].new /\ reload'[r].at = reload[r].at
  BY <1>1 DEF Awaited, ReloadInv, AppliedTypes, ReloadTypes
<1>5. StopIsFinal'
  <2> SUFFICES ASSUME NEW q \in Reloaders, reload[q].at = "stopping", NEW n \in Dropped(q) \ reload[q].todo
               PROVE  /\ desired[n] = "STOPPED" /\ ~StartPending(Current(n))
                      /\ n \notin reload'[q].waits => st[Current(n)] = "STOPPED"
    BY <1>2, <1>4 DEF StopIsFinal, Dropped, Current, StartPending
  <2>1. n \notin reload'[q].waits => n \notin reload[q].waits \/ n = m
    BY <1>4
  <2> QED BY <1>1, <2>1 DEF DropAll, StopIsFinal, Awaited
<1> QED BY <1>3, <1>5 DEF DropAll

\* applyPrograms drops and replaces only what has stopped and is not about to start.
LEMMA ApplyDrops ==
    ASSUME ReloadInv, RestTypes, DropAll, NEW r \in Reloaders, Apply(r) PROVE DropAll'
<1>1. /\ UNCHANGED <<st, worker, rec, phase, stopping>>
      /\ reload[r].at = "stopping" /\ reload[r].todo = {} /\ reload[r].waits = {}
      /\ reload' = [reload EXCEPT ![r] = NoReload] /\ Holds(r) /\ reload[r].old = config
  BY DEF Apply, Others, WaitsDone, ReloadInv, PlanIsCurrent, Holds
<1>2. Sweeping'
  BY <1>1 DEF DropAll, Sweeping, Swept
<1>3. \A q \in Reloaders : reload'[q].at # "stopping"
  BY <1>1 DEF ReloadInv, OneHolds, Holds, AppliedTypes, ReloadTypes, NoReload
<1>4. StopIsFinal'
  BY <1>3 DEF StopIsFinal
<1>5. OnlyCurrent'
  <2> SUFFICES ASSUME NEW o \in Objs, st[o] # "STOPPED" \/ StartPending(o)
               PROVE  processes'[o[1]] = o[2]
    BY <1>1 DEF OnlyCurrent, StartPending
  <2> DEFINE n == o[1]
  <2>1. n \in Names /\ o[2] # None /\ processes[n] = o[2] /\ o = Current(n)
    BY DEF DropAll, OnlyCurrent, Objs, Gens, Current
  <2>2. n \notin Dropped(r)
    BY <1>1, <2>1 DEF DropAll, StopIsFinal
  <2>3. config[n] # None
    BY <2>1 DEF ReloadInv, ProgramsAreInStep
  <2>4. /\ n \notin Removed(reload[r].old, reload[r].new)
        /\ n \notin Changed(reload[r].old, reload[r].new)
        /\ n \notin Added(reload[r].old, reload[r].new)
    BY <1>1, <2>2, <2>3 DEF Dropped, Added
  <2>5. processes'[n] = processes[n]
    BY <2>1, <2>4 DEF Apply
  <2> QED BY <2>1, <2>5
<1> QED BY <1>2, <1>4, <1>5 DEF DropAll

\* An operator: a stop changes nothing for a reload, and a start that does is hasty.
LEMMA OperatorDrops ==
    ASSUME ReloadInv, RestTypes, DropAll, ~hasty',
           (\E n \in Names : AskStop(n)) \/ (\E c \in Clients : AskStart(c) \/ Want(c))
    PROVE  DropAll'
<1>1. /\ UNCHANGED <<processes, config, reload, worker, rec, phase, stopping>>
      /\ reload \in ReloadTypes /\ desired \in [Names -> Wanted] /\ st \in StTypes
  BY DEF AskStop, AskStart, Want, serverVars, ReloadInv, AppliedTypes, RestTypes
<1>2. \A o \in Objs : st'[o] = st[o] \/ st'[o] = "STOPPED"
  <2>1. CASE \E c \in Clients : AskStart(c)
    BY <1>1, <2>1 DEF AskStart, StTypes
  <2>2. CASE ~\E c \in Clients : AskStart(c)
    BY <2>2 DEF AskStop, Want
  <2> QED BY <2>1, <2>2
<1>3. OnlyCurrent' /\ Sweeping'
  <2>1. OnlyCurrent'
    BY <1>1, <1>2 DEF DropAll, OnlyCurrent, StartPending
  <2>2. Sweeping'
    BY <1>1, <1>2, SweepingKept DEF DropAll
  <2> QED BY <2>1, <2>2
<1>4. \A r \in Reloaders : reload[r].at = "stopping" =>
        \A n \in Dropped(r) \ reload[r].todo : desired'[n] = desired[n] \/ desired'[n] = "STOPPED"
  <2>1. CASE \E n \in Names : AskStop(n)
    BY <1>1, <2>1 DEF AskStop, Dropped, Removed, Changed
  <2>2. CASE \E c \in Clients : AskStart(c)
    BY <2>2 DEF AskStart, serverVars
  <2>3. CASE \E c \in Clients : Want(c)
    <3> PICK c \in Clients : Want(c)
      BY <2>3
    <3> DEFINE m == client[c].obj[1]
    <3>1. CASE processes[m] = None
      BY <3>1 DEF Want
    <3>2. CASE processes[m] # None
      <4>1. desired' = [desired EXCEPT ![m] = "RUNNING"] /\ ~Redefining(m)
        BY <3>2 DEF Want
      <4> HIDE DEF m
      <4>2. \A r \in Reloaders : reload[r].at = "stopping" => \A n \in Dropped(r) : n # m /\ n \in Names
        BY <4>1 DEF Redefining, Dropped, Removed, Changed
      <4> QED BY <1>1, <4>1, <4>2
    <3> QED BY <3>1, <3>2
  <2> QED BY <2>1, <2>2, <2>3
<1>5. StopIsFinal'
  <2>a. \A r \in Reloaders : Dropped(r)' = Dropped(r)
    BY <1>1 DEF Dropped
  <2>b. \A n : StartPending(Current(n))' = StartPending(Current(n)) /\ Current(n)' = Current(n)
    BY <1>1 DEF StartPending, Current
  <2> SUFFICES ASSUME NEW r \in Reloaders, reload[r].at = "stopping", NEW n \in Dropped(r) \ reload[r].todo
               PROVE  /\ desired'[n] = "STOPPED" /\ ~StartPending(Current(n))
                      /\ n \notin reload[r].waits => st'[Current(n)] = "STOPPED"
    BY <1>1, <2>a, <2>b DEF StopIsFinal
  <2>1. n \in Names /\ config[n] # None
    BY DEF Dropped, Removed, Changed, ReloadInv, PlanIsCurrent, Holds
  <2>2. Current(n) \in Objs
    BY <2>1, CurrentIsObj DEF ReloadInv, ProgramsAreInStep
  <2> QED BY <1>2, <1>4, <2>2 DEF DropAll, StopIsFinal
<1> QED BY <1>3, <1>5 DEF DropAll

\* The shutdown stops what is left, one program after the other.
LEMMA ShutdownDrops ==
    ASSUME ReloadInv, RestTypes, DropAll, BeginShutdown \/ Shutdown PROVE DropAll'
<1>1. /\ UNCHANGED <<processes, desired, reload, worker, rec, config>>
      /\ st \in StTypes /\ stopping \in StoppingTypes
  BY DEF BeginShutdown, Shutdown, Quiesced, DaemonExits, StopProgram, ProgramStopped, StopStep, serverVars,
         RestTypes
<1>2. \A o \in Objs : st'[o] # "STOPPED" => st[o] # "STOPPED"
  <2>1. CASE BeginShutdown \/ Quiesced \/ DaemonExits
    BY <2>1 DEF BeginShutdown, Quiesced, DaemonExits
  <2>2. CASE \E n \in Names : StopProgram(n) \/ ProgramStopped(n)
    BY <1>1, <2>2, StopTypes DEF StopProgram, ProgramStopped
  <2> QED BY <2>1, <2>2 DEF Shutdown
<1>3. OnlyCurrent' /\ StopIsFinal'
  <2>1. Calms
    BY <1>1, <1>2 DEF Calms, StartPending
  <2> QED BY <2>1, CalmsKeeps DEF DropAll
<1>4. Sweeping'
  <2>1. CASE BeginShutdown
    BY <2>1 DEF BeginShutdown, Sweeping
  <2>2. CASE Quiesced
    <3>1. /\ rec'.at = "done" /\ \A w \in Workers : worker'[w].at = "idle"
          /\ phase' = "tiers" /\ st' = st
          /\ \A n \in Names : config[n] # None => stopping'[n].at = "due"
      BY <1>1, <2>2 DEF Quiesced, Nothing
    <3>2. ASSUME NEW o \in Objs, st[o] # "STOPPED" PROVE o[1] \in Names /\ config[o[1]] # None
      BY <3>2 DEF DropAll, OnlyCurrent, Objs, Gens, ReloadInv, ProgramsAreInStep
    <3> QED BY <3>1, <3>2 DEF Sweeping, Swept
  <2>3. CASE DaemonExits
    BY <1>1, <2>3 DEF DaemonExits, DropAll, Sweeping, Swept
  <2>4. ASSUME NEW n \in Names, StopProgram(n) \/ ProgramStopped(n) PROVE Sweeping'
    <3>1. phase = "tiers" /\ phase' = "tiers" /\ \A m \in Names : m # n => stopping'[m] = stopping[m]
      BY <1>1, <2>4 DEF StopProgram, ProgramStopped, StoppingTypes
    <3>2. rec'.at = "done" /\ \A w \in Workers : worker'[w].at = "idle"
      BY <1>1, <3>1 DEF DropAll, Sweeping
    <3>3. \A m \in Names : Swept(m)
      BY <3>1 DEF DropAll, Sweeping
    <3>4. CASE StopProgram(n) /\ processes[n] = None
      <4>1. st' = st /\ \A o \in Objs : o[1] = n => st[o] = "STOPPED"
        BY <3>4 DEF StopProgram, DropAll, OnlyCurrent, Objs, Gens
      <4> QED BY <3>1, <3>2, <3>3, <4>1 DEF Sweeping, Swept
    <3>5. CASE StopProgram(n) /\ processes[n] # None
      <4>1. /\ StopCalled(Current(n)) /\ stopping'[n].at = "called" /\ stopping'[n].obj = Current(n)
        BY <1>1, <3>5 DEF StopProgram, StoppingTypes
      <4>2. Current(n) \in Objs
        BY <3>5, CurrentIsObj DEF ReloadInv
      <4>3. st'[Current(n)] \in {"STOPPING", "STOPPED"} /\ \A o \in Objs : o # Current(n) => st'[o] = st[o]
        BY <1>1, <4>1, <4>2, StopTypes
      <4>4. \A o \in Objs : o[1] = n /\ o # Current(n) => st'[o] = "STOPPED"
        BY <4>3 DEF DropAll, OnlyCurrent, Objs, Current
      <4>5. \A o \in Objs : o[1] # n => st'[o] = st[o]
        BY <4>3 DEF Current
      <4>6. Swept(n)'
        BY <4>1, <4>3, <4>4 DEF Swept
      <4>7. \A m \in Names : m # n => Swept(m)'
        BY <3>1, <3>3, <4>5 DEF Swept
      <4> QED BY <3>1, <3>2, <4>6, <4>7 DEF Sweeping
    <3>6. CASE ProgramStopped(n)
      <4> DEFINE o == stopping[n].obj
      <4>1. StopDone(o) /\ stopping[n].at = "called"
        BY <3>6 DEF ProgramStopped
      <4>2. \A q \in Objs : q # o => st'[q] = st[q]
        BY <1>1, <4>1, StopTypes
      <4>3. \A q \in Objs : q[1] = n => st'[q] = "STOPPED"
        <5> SUFFICES ASSUME NEW q \in Objs, q[1] = n, st'[q] # "STOPPED" PROVE FALSE
          OBVIOUS
        <5>1. st[q] # "STOPPED"
          BY <1>2
        <5>2. q = o /\ st[q] = "STOPPING"
          BY <3>3, <4>1, <5>1 DEF Swept
        <5> QED BY <1>1, <4>1, <5>2, StopTypes
      <4>4. \A m \in Names : m # n => Swept(m)'
        <5> SUFFICES ASSUME NEW m \in Names, m # n, NEW q \in Objs, q[1] = m, st'[q] # "STOPPED"
                     PROVE  \/ stopping[m].at = "due"
                            \/ stopping[m].at = "called" /\ stopping[m].obj = q /\ st'[q] = "STOPPING"
          BY <3>1 DEF Swept
        <5>1. st'[q] = st[q]
          <6>1. CASE q = o
            <7>1. st[q] # "STOPPED" /\ Swept(m)
              BY <1>2, <3>3
            <7>2. stopping[m].at = "due" \/ st[q] = "STOPPING"
              BY <7>1 DEF Swept
            <7>3. st[q] # "STOPPING"
              BY <1>1, <4>1, <6>1, StopTypes
            <7>4. st'[q] = st[q]
              BY <1>1, <4>1, <6>1, <7>3 DEF StopDone, StTypes
            <7> QED BY <7>4
          <6>2. CASE q # o
            BY <4>2, <6>2
          <6> QED BY <6>1, <6>2
        <5> QED BY <3>3, <5>1 DEF Swept
      <4>5. Swept(n)'
        BY <4>3 DEF Swept
      <4> QED BY <3>1, <3>2, <4>4, <4>5 DEF Sweeping
    <3> QED BY <2>4, <3>4, <3>5, <3>6
  <2> QED BY <2>1, <2>2, <2>3, <2>4 DEF Shutdown
<1> QED BY <1>3, <1>4 DEF DropAll

\* Every step keeps it: what makes a stop unreliable is hasty.
LEMMA DropStep == ReloadInv /\ RestTypes /\ DropInv /\ [Next]_vars => DropInv'
<1> SUFFICES ASSUME ReloadInv, RestTypes, DropInv, [Next]_vars, ~hasty' PROVE DropAll'
  BY DEF DropInv
<1>1. ~hasty
  <2>1. ASSUME NEW r \in Reloaders, Ask(r) \/ ReloadStep(r) PROVE ~hasty
    BY <2>1 DEF Ask, ReloadStep, Plan, Refused, Snapshot, StopNext, Awaited, GivesUp, Apply
  <2>2. ASSUME NEW c \in Clients, AskStart(c) \/ Want(c) PROVE ~hasty
    BY <2>2 DEF AskStart, Want
  <2>3. CASE Reconcile \/ (\E w \in Workers : Action(w)) \/ (\E n \in Names : AskStop(n))
    BY <2>3
    DEF Reconcile, BeginPass, LoopEnds, Look, Judge, RunAction, RecStep, Action, ActionStarts, ActionStops,
        ActionStopped, ActionReturns, WorkerStep, AskStop, histVars
  <2>4. CASE (\E o \in Objs : Exits(o) \/ Retries(o)) \/ BeginShutdown \/ Shutdown \/ Exited \/ UNCHANGED vars
    BY <2>4
    DEF Exits, Retries, BeginShutdown, Shutdown, Quiesced, DaemonExits, StopProgram, ProgramStopped, StopStep,
        Exited, histVars, vars
  <2> QED BY <2>1, <2>2, <2>3, <2>4 DEF Next
<1>2. DropAll
  BY <1>1 DEF DropInv
<1>3. CASE UNCHANGED vars
  BY <1>2, <1>3 DEF vars, DropAll, OnlyCurrent, StopIsFinal, Sweeping, Swept, StartPending, Dropped, Current
<1>4. ASSUME NEW o \in Objs, Exits(o) \/ Retries(o) PROVE DropAll'
  BY <1>2, <1>4, ChildDrops
<1>5. CASE Reconcile
  BY <1>2, <1>5, ReconcileDrops
<1>6. ASSUME NEW w \in Workers, Action(w) PROVE DropAll'
  BY <1>2, <1>6, ActionDrops
<1>7. ASSUME NEW r \in Reloaders, Ask(r) \/ ReloadStep(r) PROVE DropAll'
  <2>1. CASE Ask(r) \/ Plan(r) \/ Refused(r) \/ Snapshot(r)
    BY <1>2, <2>1, PlanDrops
  <2>2. CASE StopNext(r)
    BY <1>2, <2>2, StopNextDrops
  <2>3. CASE \E n \in Names : Awaited(r, n) \/ GivesUp(r, n)
    BY <1>2, <2>3, WaitDrops
  <2>4. CASE Apply(r)
    BY <1>2, <2>4, ApplyDrops
  <2> QED BY <1>7, <2>1, <2>2, <2>3, <2>4 DEF ReloadStep
<1>8. CASE (\E n \in Names : AskStop(n)) \/ (\E c \in Clients : AskStart(c) \/ Want(c))
  BY <1>2, <1>8, OperatorDrops
<1>9. CASE BeginShutdown \/ Shutdown
  BY <1>2, <1>9, ShutdownDrops
<1> QED BY <1>3, <1>4, <1>5, <1>6, <1>7, <1>8, <1>9 DEF Next, Exited

\* A program that a reload drops or replaces has stopped before, whatever the
\* loop, its actions and the operators are at, unless a wait gave up or a start
\* was already on its way; and then a shutdown in the middle of reloads leaves
\* no child behind (reload.go:66-67, 138-190).
THEOREM ReloadDroppedHasNoChild == Spec => []DroppedHasNoChild
<1>1. Init => DropInv
  <2> SUFFICES ASSUME Init PROVE OnlyCurrent /\ StopIsFinal /\ Sweeping
    BY DEF DropInv, DropAll
  <2>1. \A o \in Objs : st[o] = "STOPPED" /\ ~StartPending(o)
    BY DEF Init, StartPending, NoPass, Nothing
  <2>2. \A r \in Reloaders : reload[r].at = "idle"
    BY DEF Init, NoReload
  <2>3. phase = "up"
    BY DEF Init
  <2> QED BY <2>1, <2>2, <2>3 DEF OnlyCurrent, StopIsFinal, Sweeping
<1>2. DropInv => DroppedHasNoChild
  <2> SUFFICES ASSUME DropInv, ~hasty PROVE DroppedHasNoChild
    BY DEF DroppedHasNoChild
  <2>1. \A o \in Objs : st[o] # "STOPPED" => processes[o[1]] = o[2]
    BY DEF DropInv, DropAll, OnlyCurrent
  <2>2. ASSUME phase = "exited", NEW o \in Objs PROVE st[o] = "STOPPED"
    <3>1. o[1] \in Names
      BY DEF Objs
    <3> QED BY <2>2, <3>1 DEF DropInv, DropAll, Sweeping, Swept
  <2> QED BY <2>1, <2>2 DEF DroppedHasNoChild
<1>3. ReloadInv => AppliedTypes
  BY DEF ReloadInv
<1> QED BY <1>1, <1>2, <1>3, ReloadInvInit, ReloadInvStep, RestInit, RestStep, DropStep, PTL DEF Spec
=============================================================================

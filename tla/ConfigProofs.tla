---------------------------- MODULE ConfigProofs ----------------------------
(* Theorems about ConfigCheck, for any programs and any configurations. *)
EXTENDS ConfigCheck, FiniteSetTheorems, SequenceTheorems, TLAPS

Target(n, e) == Entries(n)[e].on

Frame == [name : Names, i : Nat \ {0}]

\* What the proof needs of the variables' types.
Shapes ==
    /\ config \in Configuration
    /\ visited \subseteq Names /\ recStack \subseteq visited
    /\ calls \in Seq(Frame)
    /\ \A k \in DOMAIN calls : calls[k].name \in visited
    /\ verdict \in Verdicts

\* The programs on recStack are the calls in progress, one call for each.
StackIsCalls ==
    /\ \A j, k \in DOMAIN calls : calls[j].name = calls[k].name => j = k
    /\ \A k \in DOMAIN calls : calls[k].name \in recStack
    /\ \A n \in recStack \cap Programs : \E k \in DOMAIN calls : calls[k].name = n

\* Each call was made for the entry of its caller that comes before the next.
CallsArePath ==
    \A k \in DOMAIN calls : k < Len(calls) =>
        /\ calls[k].name \in Programs
        /\ calls[k].i - 1 \in DOMAIN Entries(calls[k].name)
        /\ Target(calls[k].name, calls[k].i - 1) = calls[k + 1].name

Settled(n) == n \in visited /\ (n \in Programs => n \notin recStack)

\* What a call has gone through is done with, but for the call it waits for.
PassedIsSettled ==
    \A k \in DOMAIN calls : \A e \in DOMAIN Entries(calls[k].name) :
        e < (IF k = Len(calls) THEN calls[k].i ELSE calls[k].i - 1)
            => Settled(Target(calls[k].name, e))

\* No programs that are done wait on each other.
DoneCanStart ==
    \A S \in SUBSET (Programs \cap (visited \ recStack)) : S # {} => ~WaitOnEachOther(S)

\* What a verdict is given on.
VerdictIsFounded ==
    /\ verdict = "accepted" =>
           /\ Programs \subseteq visited \ recStack
           /\ \A p \in Programs : \A d \in Named(p) : ~Absent(d) /\ ~Unreachable(d)
    /\ verdict = "circular" =>
           /\ calls # <<>> /\ Call.name \in Programs
           /\ Call.i \in DOMAIN Entries(Call.name) /\ Entry \in recStack

SearchInv ==
    /\ Shapes /\ StackIsCalls /\ CallsArePath /\ PassedIsSettled
    /\ DoneStaysDone /\ DoneCanStart /\ VerdictIsFounded

-----------------------------------------------------------------------------
(* Entries and the stack of calls *)

LEMMA FunctionIsSequence ==
    ASSUME NEW T, NEW n \in Nat, NEW s \in [1 .. n -> T]
    PROVE  s \in Seq(T)
  BY SeqDef

LEMMA Elements ==
    ASSUME NEW T, NEW s \in Seq(T)
    PROVE  /\ Len(s) \in Nat /\ DOMAIN s = 1 .. Len(s)
           /\ \A k \in 1 .. Len(s) : s[k] \in T
           /\ s # <<>> => Len(s) # 0
  OBVIOUS

LEMMA CountUpTo == ASSUME NEW n \in Nat PROVE Cardinality(1 .. n) = n
  <1>1. Cardinality(1 .. n) = IF 1 > n THEN 0 ELSE n - 1 + 1
    BY FS_Interval
  <1> QED
    BY <1>1

\* What Append makes of a sequence.
LEMMA Pushed ==
    ASSUME NEW T, NEW s \in Seq(T), NEW x \in T
    PROVE  /\ Append(s, x) \in Seq(T) /\ Len(Append(s, x)) = Len(s) + 1
           /\ DOMAIN Append(s, x) = 1 .. Len(s) + 1
           /\ Append(s, x)[Len(s) + 1] = x
           /\ \A k \in 1 .. Len(s) : Append(s, x)[k] = s[k]
  OBVIOUS

\* What is left of a sequence without its last element.
LEMMA Popped ==
    ASSUME NEW T, NEW s \in Seq(T), s # <<>>
    PROVE  /\ SubSeq(s, 1, Len(s) - 1) \in Seq(T)
           /\ Len(SubSeq(s, 1, Len(s) - 1)) = Len(s) - 1
           /\ DOMAIN SubSeq(s, 1, Len(s) - 1) = 1 .. Len(s) - 1
           /\ \A k \in 1 .. Len(s) - 1 : SubSeq(s, 1, Len(s) - 1)[k] = s[k]
  <1>1. Len(s) \in Nat \ {0} /\ DOMAIN s = 1 .. Len(s)
    BY Elements
  <1>2. \A k \in 1 .. Len(s) - 1 : s[k] \in T
    BY <1>1, Elements
  <1> QED
    BY <1>1, <1>2, SubSeqProperties

LEMMA EntriesType ==
    ASSUME Shapes, NEW n
    PROVE  /\ Entries(n) \in Seq([on : Names, cond : Conditions])
           /\ DOMAIN Entries(n) = 1 .. Len(Entries(n)) /\ Len(Entries(n)) \in Nat
           /\ \A e \in DOMAIN Entries(n) : Target(n, e) \in Names
           /\ \A e \in DOMAIN Entries(n) : \E d \in Named(n) : d.on = Target(n, e)
           /\ \A d \in Named(n) : \E e \in DOMAIN Entries(n) : d.on = Target(n, e)
  <1>1. Entries(n) \in Seq([on : Names, cond : Conditions])
    <2>1. config.deps \in [Programs -> Seq([on : Names, cond : Conditions])]
      BY DEF Shapes, Configuration
    <2>2. CASE n \in Programs
      BY <2>1, <2>2 DEF Entries
    <2>3. CASE n \notin Programs
      <3>1. Entries(n) = <<>>
        BY <2>3 DEF Entries
      <3>2. <<>> \in Seq([on : Names, cond : Conditions])
        OBVIOUS
      <3> QED
        BY <3>1, <3>2
    <2> QED
      BY <2>2, <2>3
  <1>2. DOMAIN Entries(n) = 1 .. Len(Entries(n)) /\ Len(Entries(n)) \in Nat
    BY <1>1, Elements
  <1>3. \A e \in DOMAIN Entries(n) : Entries(n)[e] \in [on : Names, cond : Conditions]
    BY <1>1, <1>2, Elements
  <1> QED
    BY <1>1, <1>2, <1>3 DEF Target, Named

LEMMA EntriesStay ==
    ASSUME config' = config
    PROVE  /\ \A n : Entries(n)' = Entries(n) /\ Named(n)' = Named(n)
           /\ \A n, e : Target(n, e)' = Target(n, e)
           /\ \A S : WaitOnEachOther(S)' = WaitOnEachOther(S)
  <1>1. \A n : Entries(n)' = Entries(n)
    BY DEF Entries
  <1>2. \A n : Named(n)' = Named(n)
    BY <1>1 DEF Named
  <1>3. \A n, e : Target(n, e)' = Target(n, e)
    BY <1>1 DEF Target
  <1>4. \A S : WaitOnEachOther(S)' = WaitOnEachOther(S)
    BY <1>2 DEF WaitOnEachOther
  <1> QED
    BY <1>1, <1>2, <1>3, <1>4

LEMMA CallType ==
    ASSUME Shapes, calls # <<>>
    PROVE  /\ Len(calls) \in Nat \ {0} /\ DOMAIN calls = 1 .. Len(calls)
           /\ Len(calls) \in DOMAIN calls
           /\ \A k \in DOMAIN calls : calls[k].i \in Nat \ {0} /\ calls[k].name \in Names
           /\ Call.name \in visited /\ Call.i \in Nat \ {0} /\ Call.name \in Names
           /\ Call = [name |-> Call.name, i |-> Call.i]
           /\ Callers \in Seq(Frame)
           /\ Len(Callers) = Len(calls) - 1
           /\ DOMAIN Callers = 1 .. Len(calls) - 1
           /\ \A k \in DOMAIN Callers : Callers[k] = calls[k]
  <1>1. calls \in Seq(Frame)
    BY DEF Shapes
  <1>2. /\ Len(calls) \in Nat \ {0} /\ DOMAIN calls = 1 .. Len(calls)
        /\ \A k \in 1 .. Len(calls) : calls[k] \in Frame
    BY <1>1, Elements
  <1>3. /\ Callers \in Seq(Frame)
        /\ Len(Callers) = Len(calls) - 1
        /\ DOMAIN Callers = 1 .. Len(calls) - 1
        /\ \A k \in 1 .. Len(calls) - 1 : Callers[k] = calls[k]
    BY <1>1, Popped DEF Callers
  <1>4. Len(calls) \in DOMAIN calls
    BY <1>2
  <1>5. Call \in Frame /\ Call.name \in visited
    BY <1>2, <1>4 DEF Call, Shapes
  <1>6. \A k \in DOMAIN calls : calls[k].i \in Nat \ {0} /\ calls[k].name \in Names
    BY <1>2 DEF Frame
  <1>7. Call.i \in Nat \ {0} /\ Call.name \in Names /\ Call = [name |-> Call.name, i |-> Call.i]
    BY <1>5 DEF Frame
  <1> QED
    BY <1>2, <1>3, <1>4, <1>5, <1>6, <1>7

LEMMA AdvancedType ==
    ASSUME Shapes, calls # <<>>
    PROVE  /\ Advanced \in Seq(Frame)
           /\ Len(Advanced) = Len(calls) /\ DOMAIN Advanced = DOMAIN calls
           /\ \A k \in DOMAIN calls : k < Len(calls) => Advanced[k] = calls[k]
           /\ Advanced[Len(calls)] = [name |-> Call.name, i |-> Call.i + 1]
           /\ \A k \in DOMAIN calls : Advanced[k].name = calls[k].name
  <1>1. [Call EXCEPT !.i = @ + 1] = [name |-> Call.name, i |-> Call.i + 1]
    BY CallType
  <1>2. [name |-> Call.name, i |-> Call.i + 1] \in Frame
    BY CallType DEF Frame
  <1>3. Advanced = Append(Callers, [name |-> Call.name, i |-> Call.i + 1])
    BY <1>1 DEF Advanced
  <1>4. /\ Advanced \in Seq(Frame)
        /\ Len(Advanced) = Len(calls) /\ DOMAIN Advanced = DOMAIN calls
        /\ \A k \in DOMAIN calls : k < Len(calls) => Advanced[k] = calls[k]
        /\ Advanced[Len(calls)] = [name |-> Call.name, i |-> Call.i + 1]
    <2>1. /\ Len(calls) \in Nat \ {0} /\ DOMAIN calls = 1 .. Len(calls)
          /\ Callers \in Seq(Frame)
          /\ Len(Callers) = Len(calls) - 1
          /\ \A k \in 1 .. Len(calls) - 1 : Callers[k] = calls[k]
      BY CallType
    <2>2. /\ Advanced \in Seq(Frame)
          /\ Len(Advanced) = Len(Callers) + 1
          /\ DOMAIN Advanced = 1 .. Len(Callers) + 1
          /\ Advanced[Len(Callers) + 1] = [name |-> Call.name, i |-> Call.i + 1]
          /\ \A k \in 1 .. Len(Callers) : Advanced[k] = Callers[k]
      <3>1. [name |-> Call.name, i |-> Call.i + 1] \in Frame /\ Callers \in Seq(Frame)
        BY <1>2, <2>1
      <3> QED
        BY <3>1, <1>3, Pushed
    <2>3. Len(Callers) + 1 = Len(calls)
      BY <2>1
    <2> QED
      BY <2>1, <2>2, <2>3
  <1>5. \A k \in DOMAIN calls : Advanced[k].name = calls[k].name
    <2>1. Len(calls) \in Nat \ {0} /\ DOMAIN calls = 1 .. Len(calls)
      BY CallType
    <2> QED
      BY <1>4, <2>1 DEF Call
  <1> QED
    BY <1>4, <1>5

-----------------------------------------------------------------------------
(* The steps of the search keep SearchInv *)

LEMMA BeginKeeps ==
    ASSUME SearchInv, NEW n \in Programs, Begin(n)
    PROVE  SearchInv'
  <1>0. /\ Shapes /\ StackIsCalls /\ DoneStaysDone /\ DoneCanStart
        /\ calls = <<>> /\ n \notin visited /\ config' = config /\ verdict' = "none"
        /\ visited' = visited \cup {n} /\ recStack' = recStack \cup {n}
        /\ calls' = <<[name |-> n, i |-> 1]>> /\ n \in Names
    BY DEF SearchInv, Begin, Marked, Names
  <1>1. /\ calls' \in Seq(Frame) /\ Len(calls') = 1
        /\ DOMAIN calls' = {1} /\ calls'[1] = [name |-> n, i |-> 1]
    <2>1. [name |-> n, i |-> 1] \in Frame
      BY <1>0 DEF Frame
    <2> QED
      BY <2>1, <1>0
  <1>2. Shapes'
    <2>1. \A k \in DOMAIN calls' : calls'[k].name \in visited'
      BY <1>0, <1>1
    <2> QED
      BY <2>1, <1>0, <1>1 DEF Shapes, Verdicts
  <1>3. StackIsCalls'
    BY <1>0, <1>1 DEF StackIsCalls
  <1>4. CallsArePath'
    BY <1>1 DEF CallsArePath
  <1>5. PassedIsSettled'
    <2>1. DOMAIN Entries(n) = 1 .. Len(Entries(n)) /\ Entries(n)' = Entries(n)
      BY <1>0, EntriesType, EntriesStay
    <2> QED
      BY <1>1, <2>1 DEF PassedIsSettled
  <1>6. DoneStaysDone'
    BY <1>0, EntriesStay DEF DoneStaysDone
  <1>7. visited' \ recStack' = visited \ recStack
    BY <1>0
  <1>8. DoneCanStart'
    BY <1>0, <1>7, EntriesStay DEF DoneCanStart
  <1>9. VerdictIsFounded'
    BY <1>0 DEF VerdictIsFounded
  <1> QED
    BY <1>2, <1>3, <1>4, <1>5, <1>6, <1>8, <1>9 DEF SearchInv

LEMMA DescendKeeps ==
    ASSUME SearchInv, Descend
    PROVE  SearchInv'
  <1> DEFINE m == Entry
  <1>0. /\ Shapes /\ StackIsCalls /\ CallsArePath /\ PassedIsSettled /\ DoneStaysDone
        /\ DoneCanStart /\ calls # <<>> /\ m \notin visited
        /\ config' = config /\ verdict' = "none"
        /\ Call.name \in Programs /\ Call.i <= Len(Entries(Call.name))
        /\ visited' = visited \cup {m} /\ recStack' = recStack \cup {m}
        /\ calls' = Append(Advanced, [name |-> m, i |-> 1])
    BY DEF SearchInv, Descend, Marked, HasEntry, Checking
  <1> DEFINE L == Len(calls)
  <1>a. /\ L \in Nat \ {0} /\ DOMAIN calls = 1 .. L /\ Call.i \in Nat \ {0}
        /\ L \in DOMAIN calls /\ calls[L] = Call
    BY <1>0, CallType DEF Call
  <1>b. Call.i \in DOMAIN Entries(Call.name) /\ m = Target(Call.name, Call.i) /\ m \in Names
    BY <1>0, <1>a, EntriesType DEF Entry, Target
  <1>1. /\ calls' \in Seq(Frame) /\ Len(calls') = L + 1
        /\ DOMAIN calls' = 1 .. L + 1 /\ calls'[L + 1] = [name |-> m, i |-> 1]
        /\ \A k \in DOMAIN calls : calls'[k] = Advanced[k]
    <2>1. [name |-> m, i |-> 1] \in Frame
      BY <1>b DEF Frame
    <2> QED
      BY <2>1, <1>0, <1>a, AdvancedType
  <1>c. /\ \A k \in DOMAIN calls : calls'[k].name = calls[k].name
        /\ \A k \in DOMAIN calls : k < L => calls'[k].i = calls[k].i
        /\ calls'[L].i = Call.i + 1 /\ calls'[L].name = Call.name
        /\ calls'[L + 1].name = m /\ calls'[L + 1].i = 1
    <2>1. /\ \A k \in DOMAIN calls : k < L => Advanced[k] = calls[k]
          /\ Advanced[L] = [name |-> Call.name, i |-> Call.i + 1]
          /\ \A k \in DOMAIN calls : Advanced[k].name = calls[k].name
      BY <1>0, AdvancedType
    <2> QED
      BY <2>1, <1>1, <1>a
  <1>d. DOMAIN calls' = DOMAIN calls \cup {L + 1} /\ L + 1 \notin DOMAIN calls
    <2>1. 1 .. L + 1 = (1 .. L) \cup {L + 1} /\ L + 1 \notin 1 .. L
      BY <1>a
    <2> QED
      BY <2>1, <1>1, <1>a
  <1>2. Shapes'
    BY <1>0, <1>1, <1>b, <1>c, <1>d DEF Shapes, Verdicts
  <1>3. StackIsCalls'
    <2>1. \A k \in DOMAIN calls : calls[k].name # m
      BY <1>0 DEF Shapes
    <2>2. \A j, k \in DOMAIN calls' : calls'[j].name = calls'[k].name => j = k
      BY <2>1, <1>0, <1>c, <1>d DEF StackIsCalls
    <2>3. \A k \in DOMAIN calls' : calls'[k].name \in recStack'
      BY <1>0, <1>c, <1>d DEF StackIsCalls
    <2>4. \A n \in recStack' \cap Programs : \E k \in DOMAIN calls' : calls'[k].name = n
      BY <1>0, <1>c, <1>d DEF StackIsCalls
    <2> QED
      BY <2>2, <2>3, <2>4 DEF StackIsCalls
  <1>4. CallsArePath'
    <2> SUFFICES ASSUME NEW k \in DOMAIN calls', k < L + 1
                 PROVE  /\ calls'[k].name \in Programs
                        /\ calls'[k].i - 1 \in DOMAIN Entries(calls'[k].name)
                        /\ Target(calls'[k].name, calls'[k].i - 1) = calls'[k + 1].name
      BY <1>0, <1>1, EntriesStay DEF CallsArePath
    <2>1. CASE k = L
      <3>1. calls'[k].name = Call.name /\ calls'[k].i - 1 = Call.i /\ calls'[k + 1].name = m
        BY <2>1, <1>a, <1>c
      <3> QED
        BY <3>1, <1>0, <1>b
    <2>2. CASE k # L
      <3>1. k \in DOMAIN calls /\ k < L /\ k + 1 \in DOMAIN calls
        BY <2>2, <1>a, <1>d
      <3> QED
        BY <3>1, <1>0, <1>c DEF CallsArePath
    <2> QED
      BY <2>1, <2>2
  <1>5. PassedIsSettled'
    <2>0. \A n : Settled(n) => Settled(n)'
      BY <1>0 DEF Settled
    <2> SUFFICES ASSUME NEW k \in DOMAIN calls', NEW e \in DOMAIN Entries(calls'[k].name),
                        e < (IF k = L + 1 THEN calls'[k].i ELSE calls'[k].i - 1)
                 PROVE  Settled(Target(calls'[k].name, e))
      BY <2>0, <1>0, <1>1, EntriesStay DEF PassedIsSettled
    <2>1. e \in Nat \ {0}
      BY <1>0, EntriesType
    <2>2. CASE k = L + 1
      BY <2>1, <2>2, <1>c
    <2>3. CASE k = L
      <3>1. e < Call.i /\ e \in DOMAIN Entries(calls[L].name)
        BY <2>1, <2>3, <1>a, <1>c
      <3> QED
        BY <3>1, <2>3, <1>0, <1>a, <1>c DEF PassedIsSettled
    <2>4. CASE k \in DOMAIN calls /\ k # L
      <3>1. calls'[k].name = calls[k].name /\ calls'[k].i = calls[k].i /\ k # L + 1
        BY <2>4, <1>a, <1>c
      <3>2. e \in DOMAIN Entries(calls[k].name) /\ e < calls[k].i - 1
        BY <3>1
      <3> QED
        BY <3>1, <3>2, <2>4, <1>0 DEF PassedIsSettled
    <2> QED
      BY <2>2, <2>3, <2>4, <1>d
  <1>6. DoneStaysDone'
    BY <1>0, EntriesStay DEF DoneStaysDone
  <1>7. visited' \ recStack' = visited \ recStack
    BY <1>0
  <1>8. DoneCanStart'
    BY <1>0, <1>7, EntriesStay DEF DoneCanStart
  <1>9. VerdictIsFounded'
    BY <1>0 DEF VerdictIsFounded
  <1> QED
    BY <1>2, <1>3, <1>4, <1>5, <1>6, <1>8, <1>9 DEF SearchInv

\* What is done with stays done with, as long as nothing joins recStack.
LEMMA SettledStays ==
    ASSUME visited' = visited, recStack' \subseteq recStack, NEW n, Settled(n)
    PROVE  Settled(n)'
  BY DEF Settled

LEMMA PassOverKeeps ==
    ASSUME SearchInv, PassOver
    PROVE  SearchInv'
  <1> DEFINE L == Len(calls)
  <1>0. /\ Shapes /\ StackIsCalls /\ CallsArePath /\ PassedIsSettled /\ DoneStaysDone
        /\ DoneCanStart /\ calls # <<>> /\ Entry \in visited /\ Entry \notin recStack
        /\ UNCHANGED <<config, visited, recStack, verdict>> /\ verdict = "none"
        /\ Call.name \in Programs /\ Call.i <= Len(Entries(Call.name))
        /\ calls' = Advanced
    BY DEF SearchInv, PassOver, HasEntry, Checking, OnStack
  <1>a. /\ L \in Nat \ {0} /\ DOMAIN calls = 1 .. L /\ Call.i \in Nat \ {0}
        /\ L \in DOMAIN calls /\ calls[L] = Call
    BY <1>0, CallType DEF Call
  <1>1. /\ calls' \in Seq(Frame) /\ Len(calls') = L /\ DOMAIN calls' = DOMAIN calls
        /\ \A k \in DOMAIN calls : k < L => calls'[k] = calls[k]
        /\ calls'[L].i = Call.i + 1
        /\ \A k \in DOMAIN calls : calls'[k].name = calls[k].name
    BY <1>0, AdvancedType
  <1>2. Shapes'
    BY <1>0, <1>1 DEF Shapes
  <1>3. StackIsCalls'
    BY <1>0, <1>1 DEF StackIsCalls
  <1>4. CallsArePath'
    <2> SUFFICES ASSUME NEW k \in DOMAIN calls, k < L
                 PROVE  /\ calls'[k].name \in Programs
                        /\ calls'[k].i - 1 \in DOMAIN Entries(calls'[k].name)
                        /\ Target(calls'[k].name, calls'[k].i - 1) = calls'[k + 1].name
      BY <1>0, <1>1, EntriesStay DEF CallsArePath
    <2>1. k + 1 \in DOMAIN calls
      BY <1>a
    <2> QED
      BY <2>1, <1>0, <1>1 DEF CallsArePath
  <1>5. PassedIsSettled'
    <2> SUFFICES ASSUME NEW k \in DOMAIN calls, NEW e \in DOMAIN Entries(calls[k].name),
                        e < (IF k = L THEN calls'[k].i ELSE calls'[k].i - 1)
                 PROVE  Settled(Target(calls[k].name, e))
      BY <1>0, <1>1, EntriesStay, SettledStays DEF PassedIsSettled
    <2>1. e \in Nat \ {0}
      BY <1>0, EntriesType
    <2>2. CASE k = L /\ e = Call.i
      <3>1. Target(calls[k].name, e) = Entry
        BY <2>2, <1>a DEF Entry, Target
      <3> QED
        BY <3>1, <1>0 DEF Settled
    <2>3. CASE k = L /\ e # Call.i
      <3>1. e < calls[k].i
        BY <2>1, <2>3, <1>1, <1>a
      <3> QED
        BY <3>1, <2>3, <1>0 DEF PassedIsSettled
    <2>4. CASE k # L
      <3>1. calls'[k] = calls[k]
        BY <2>4, <1>1, <1>a
      <3> QED
        BY <3>1, <2>4, <1>0 DEF PassedIsSettled
    <2> QED
      BY <2>2, <2>3, <2>4
  <1>6. DoneStaysDone' /\ DoneCanStart' /\ VerdictIsFounded'
    BY <1>0, EntriesStay DEF DoneStaysDone, DoneCanStart, VerdictIsFounded
  <1> QED
    BY <1>2, <1>3, <1>4, <1>5, <1>6 DEF SearchInv

\* What both ways to end a call do to the calls: its caller is the last one.
LEMMA PopKeeps ==
    ASSUME SearchInv, calls # <<>>, calls' = Callers,
           UNCHANGED <<config, visited, verdict>>, verdict = "none",
           recStack' \subseteq recStack,
           \A n \in recStack : n = Call.name \/ n \in recStack',
           Call.name \in Programs => Call.name \notin recStack'
    PROVE  Shapes' /\ StackIsCalls' /\ CallsArePath' /\ PassedIsSettled'
  <1> DEFINE L == Len(calls)
  <1>0. Shapes /\ StackIsCalls /\ CallsArePath /\ PassedIsSettled
    BY DEF SearchInv
  <1>a. /\ L \in Nat \ {0} /\ DOMAIN calls = 1 .. L /\ Call.i \in Nat \ {0}
        /\ L \in DOMAIN calls /\ calls[L] = Call
        /\ \A k \in DOMAIN calls : calls[k].i \in Nat \ {0}
    BY <1>0, CallType DEF Call
  <1>1. /\ calls' \in Seq(Frame) /\ Len(calls') = L - 1 /\ DOMAIN calls' = 1 .. L - 1
        /\ \A k \in 1 .. L - 1 : calls'[k] = calls[k]
    BY <1>0, CallType
  <1>b. DOMAIN calls' \subseteq DOMAIN calls /\ L \notin DOMAIN calls'
        /\ \A k \in DOMAIN calls : k = L \/ k \in DOMAIN calls'
    BY <1>1, <1>a
  <1>2. Shapes'
    BY <1>0, <1>1, <1>b DEF Shapes
  <1>3. StackIsCalls'
    <2>1. \A k \in DOMAIN calls' : calls'[k].name # Call.name
      BY <1>0, <1>1, <1>a, <1>b DEF StackIsCalls
    <2>2. \A k \in DOMAIN calls' : calls'[k].name \in recStack'
      BY <2>1, <1>0, <1>1, <1>b DEF StackIsCalls
    <2>3. \A n \in recStack' \cap Programs : \E k \in DOMAIN calls' : calls'[k].name = n
      BY <1>0, <1>1, <1>a, <1>b DEF StackIsCalls
    <2>4. \A j, k \in DOMAIN calls' : calls'[j].name = calls'[k].name => j = k
      BY <1>0, <1>1, <1>b DEF StackIsCalls
    <2> QED
      BY <2>2, <2>3, <2>4 DEF StackIsCalls
  <1>4. CallsArePath'
    <2> SUFFICES ASSUME NEW k \in DOMAIN calls', k < L - 1
                 PROVE  /\ calls'[k].name \in Programs
                        /\ calls'[k].i - 1 \in DOMAIN Entries(calls'[k].name)
                        /\ Target(calls'[k].name, calls'[k].i - 1) = calls'[k + 1].name
      BY <1>1, EntriesStay DEF CallsArePath
    <2>1. k + 1 \in 1 .. L - 1 /\ k \in 1 .. L - 1 /\ k \in DOMAIN calls /\ k < L
      BY <1>1, <1>a
    <2> QED
      BY <2>1, <1>0, <1>1 DEF CallsArePath
  <1>5. PassedIsSettled'
    <2> DEFINE DoneNow(n) == n \in visited /\ (n \in Programs => n \notin recStack')
    <2>a. \A n : DoneNow(n) <=> Settled(n)'
      BY DEF Settled
    <2>b. \A n : Entries(n)' = Entries(n)
      BY EntriesStay
    <2>c. \A n, e : Target(n, e)' = Target(n, e)
      BY EntriesStay
    <2>d. \A k \in 1 .. L - 1 : calls'[k].name = calls[k].name /\ calls'[k].i = calls[k].i
      BY <1>1
    <2> HIDE DEF DoneNow
    <2> SUFFICES ASSUME NEW k \in 1 .. L - 1, NEW e \in DOMAIN Entries(calls[k].name),
                        e < (IF k = L - 1 THEN calls[k].i ELSE calls[k].i - 1)
                 PROVE  DoneNow(Target(calls[k].name, e))
      BY <2>a, <2>b, <2>c, <2>d, <1>1 DEF PassedIsSettled
    <2> USE DEF DoneNow
    <2>0. /\ k \in DOMAIN calls /\ k # L /\ k < L
          /\ calls[k].i \in Nat \ {0} /\ e \in Nat \ {0}
      <3>0. L \in Nat \ {0} /\ DOMAIN calls = 1 .. L
        BY <1>a
      <3>1. k \in DOMAIN calls /\ k # L /\ k < L
        <4> HIDE DEF L
        <4> QED
          BY <3>0
      <3>2. calls[k].i \in Nat \ {0}
        BY <3>1, <1>a
      <3>3. e \in 1 .. Len(Entries(calls[k].name)) /\ Len(Entries(calls[k].name)) \in Nat
        BY <1>0, EntriesType
      <3> QED
        BY <3>1, <3>2, <3>3
    <2>1. CASE e < calls[k].i - 1
      BY <2>0, <2>1, <1>0 DEF PassedIsSettled, Settled
    <2>2. CASE k = L - 1 /\ e = calls[k].i - 1
      <3>0. k + 1 = L
        BY <2>2, <1>a
      <3>1. Target(calls[k].name, calls[k].i - 1) = calls[k + 1].name
        BY <2>0, <1>0 DEF CallsArePath
      <3>2. Target(calls[k].name, e) = Call.name
        BY <2>2, <3>0, <3>1, <1>a
      <3>3. Call.name \in visited
        BY <1>0, CallType
      <3> QED
        BY <3>2, <3>3
    <2> QED
      BY <2>0, <2>1, <2>2
  <1> QED
    BY <1>2, <1>3, <1>4, <1>5

LEMMA NoSuchProgramKeeps ==
    ASSUME SearchInv, NoSuchProgram
    PROVE  SearchInv'
  <1>0. /\ Shapes /\ DoneStaysDone /\ DoneCanStart
        /\ calls # <<>> /\ Call.name \notin Programs /\ calls' = Callers
        /\ UNCHANGED <<config, visited, recStack, verdict>> /\ verdict = "none"
    BY DEF SearchInv, NoSuchProgram, Checking
  <1>2. Shapes' /\ StackIsCalls' /\ CallsArePath' /\ PassedIsSettled'
    BY <1>0, PopKeeps
  <1>3. DoneStaysDone' /\ DoneCanStart' /\ VerdictIsFounded'
    BY <1>0, EntriesStay DEF DoneStaysDone, DoneCanStart, VerdictIsFounded
  <1> QED
    BY <1>2, <1>3 DEF SearchInv

\* A program all of whose entries are done with is done: nothing that was done
\* waits for it, so no programs that wait on each other are completed by it.
LEMMA ReturnKeeps ==
    ASSUME SearchInv, Return
    PROVE  SearchInv'
  <1> DEFINE p == Call.name
  <1>0. /\ Shapes /\ StackIsCalls /\ PassedIsSettled /\ DoneStaysDone /\ DoneCanStart
        /\ calls # <<>> /\ p \in Programs /\ calls' = Callers
        /\ Call.i > Len(Entries(p))
        /\ UNCHANGED <<config, visited, verdict>> /\ verdict = "none"
        /\ recStack' = recStack \ {p}
    BY DEF SearchInv, Return, Checking, Cleared
  <1>1. /\ p \in visited /\ p \in recStack /\ Call.i \in Nat
        /\ Len(calls) \in DOMAIN calls /\ calls[Len(calls)] = Call
    BY <1>0, CallType DEF Call, StackIsCalls
  <1>2. Shapes' /\ StackIsCalls' /\ CallsArePath' /\ PassedIsSettled'
    BY <1>0, PopKeeps
  <1>3. \A d \in Named(p) : d.on \in visited /\ (d.on \in Programs => d.on \notin recStack)
    <2> SUFFICES ASSUME NEW e \in DOMAIN Entries(p)
                 PROVE  Settled(Target(p, e))
      BY <1>0, EntriesType DEF Settled
    <2>1. e \in Nat /\ e <= Len(Entries(p)) /\ Len(Entries(p)) \in Nat
      BY <1>0, EntriesType
    <2>2. e < Call.i
      BY <2>1, <1>0, <1>1
    <2> QED
      BY <2>2, <1>0, <1>1 DEF PassedIsSettled
  <1>4. visited' \ recStack' = (visited \ recStack) \cup {p}
    BY <1>0, <1>1
  <1>5. DoneStaysDone'
    <2> SUFFICES ASSUME NEW n \in (visited \ recStack) \cup {p}, NEW d \in Named(n)
                 PROVE  d.on \in visited /\ (d.on \in Programs => d.on \notin recStack)
      BY <1>0, <1>4, EntriesStay DEF DoneStaysDone
    <2> QED
      BY <1>0, <1>3 DEF DoneStaysDone
  <1>6. DoneCanStart'
    <2> SUFFICES ASSUME NEW S \in SUBSET (Programs \cap ((visited \ recStack) \cup {p})),
                        S # {}, WaitOnEachOther(S)
                 PROVE  FALSE
      BY <1>0, <1>4, EntriesStay DEF DoneCanStart
    <2>1. CASE p \notin S
      BY <2>1, <1>0 DEF DoneCanStart
    <2>2. CASE p \in S
      <3> DEFINE R == S \ {p}
      <3>1. \A n \in R : \E d \in Named(n) : d.on \in S /\ d.on # p
        BY <1>0, <1>1 DEF WaitOnEachOther, DoneStaysDone
      <3>2. R # {}
        <4>1. PICK d \in Named(p) : d.on \in S
          BY <2>2 DEF WaitOnEachOther
        <4> QED
          BY <4>1, <1>1, <1>3
      <3>3. R \in SUBSET (Programs \cap (visited \ recStack)) /\ WaitOnEachOther(R)
        BY <3>1 DEF WaitOnEachOther
      <3> QED
        BY <3>2, <3>3, <1>0 DEF DoneCanStart
    <2> QED
      BY <2>1, <2>2
  <1>7. VerdictIsFounded'
    BY <1>0 DEF VerdictIsFounded
  <1> QED
    BY <1>2, <1>5, <1>6, <1>7 DEF SearchInv

LEMMA RefuseCircularKeeps ==
    ASSUME SearchInv, RefuseCircular
    PROVE  SearchInv'
  <1>0. /\ UNCHANGED <<config, visited, recStack, calls>> /\ verdict' = "circular"
        /\ Shapes /\ calls # <<>> /\ Call.name \in Programs
        /\ Call.i <= Len(Entries(Call.name)) /\ Entry \in recStack
    BY DEF SearchInv, RefuseCircular, HasEntry, Checking, OnStack
  <1>1. Call.i \in DOMAIN Entries(Call.name)
    BY <1>0, CallType, EntriesType
  <1>2. Call' = Call /\ Entry' = Entry
    BY <1>0, EntriesStay DEF Call, Entry
  <1>3. VerdictIsFounded'
    BY <1>0, <1>1, <1>2, EntriesStay DEF VerdictIsFounded
  <1>4. Shapes' /\ StackIsCalls' /\ CallsArePath' /\ PassedIsSettled'
    <2>1. Shapes' /\ StackIsCalls'
      BY <1>0 DEF SearchInv, Shapes, Verdicts, StackIsCalls
    <2>2. CallsArePath' /\ PassedIsSettled'
      BY <1>0, EntriesStay DEF SearchInv, CallsArePath, PassedIsSettled, Settled
    <2> QED
      BY <2>1, <2>2
  <1>5. DoneStaysDone' /\ DoneCanStart'
    BY <1>0, EntriesStay DEF SearchInv, DoneStaysDone, DoneCanStart
  <1> QED
    BY <1>3, <1>4, <1>5 DEF SearchInv

LEMMA CheckRestKeeps ==
    ASSUME SearchInv, CheckRest
    PROVE  SearchInv'
  <1> DEFINE all == UNION {Named(p) : p \in Programs}
  <1>0. /\ UNCHANGED <<config, visited, recStack, calls>> /\ Programs \subseteq visited
        /\ calls = <<>> /\ Shapes /\ StackIsCalls
    BY DEF SearchInv, CheckRest
  <1>1. /\ verdict' \in Verdicts \ {"circular"}
        /\ verdict' = "accepted" => \A d \in all : ~Absent(d) /\ ~Unreachable(d)
    BY DEF CheckRest, Verdicts
  <1>2. Programs \subseteq visited \ recStack
    <2>1. DOMAIN calls = {}
      BY <1>0
    <2> QED
      BY <2>1, <1>0 DEF StackIsCalls
  <1>3. VerdictIsFounded'
    <2>1. \A d : Absent(d)' = Absent(d) /\ Unreachable(d)' = Unreachable(d)
      BY DEF Absent, Unreachable
    <2> QED
      BY <2>1, <1>0, <1>1, <1>2, EntriesStay DEF VerdictIsFounded
  <1>4. Shapes' /\ StackIsCalls' /\ CallsArePath' /\ PassedIsSettled'
    BY <1>0, <1>1, EntriesStay
    DEF SearchInv, Shapes, StackIsCalls, CallsArePath, PassedIsSettled, Settled
  <1>5. DoneStaysDone' /\ DoneCanStart'
    BY <1>0, EntriesStay DEF SearchInv, DoneStaysDone, DoneCanStart
  <1> QED
    BY <1>3, <1>4, <1>5 DEF SearchInv

-----------------------------------------------------------------------------
(* Theorems *)

LEMMA SearchInvHolds == Spec => []SearchInv
  <1>1. Init => SearchInv
    <2> SUFFICES ASSUME Init PROVE SearchInv
      OBVIOUS
    <2>1. config \in Configuration /\ visited = {} /\ recStack = {} /\ verdict = "none"
      BY ConfigAssumption DEF Init
    <2>2. calls \in Seq(Frame) /\ DOMAIN calls = {}
      BY DEF Init
    <2> QED
      BY <2>1, <2>2 DEF SearchInv, Shapes, Verdicts, StackIsCalls, CallsArePath,
         PassedIsSettled, DoneStaysDone, DoneCanStart, VerdictIsFounded
  <1>2. SearchInv /\ [Next]_vars => SearchInv'
    <2> SUFFICES ASSUME SearchInv, [Next]_vars PROVE SearchInv'
      OBVIOUS
    <2>1. CASE \E n \in Programs : Begin(n)
      BY <2>1, BeginKeeps
    <2>2. CASE NoSuchProgram \/ Descend \/ PassOver
      BY <2>2, NoSuchProgramKeeps, DescendKeeps, PassOverKeeps
    <2>3. CASE RefuseCircular \/ Return \/ CheckRest
      BY <2>3, RefuseCircularKeeps, ReturnKeeps, CheckRestKeeps
    <2>4. CASE UNCHANGED vars
      <3>1. UNCHANGED <<config, visited, recStack, calls, verdict>>
        BY <2>4 DEF vars
      <3>2. Shapes' /\ StackIsCalls' /\ DoneStaysDone' /\ DoneCanStart'
        BY <3>1, EntriesStay
        DEF SearchInv, Shapes, StackIsCalls, DoneStaysDone, DoneCanStart
      <3>3. CallsArePath' /\ PassedIsSettled'
        BY <3>1, EntriesStay DEF SearchInv, CallsArePath, PassedIsSettled, Settled
      <3>4. VerdictIsFounded'
        <4>1. \A d : Absent(d)' = Absent(d) /\ Unreachable(d)' = Unreachable(d)
          BY DEF Absent, Unreachable
        <4>2. Call' = Call /\ Entry' = Entry
          BY <3>1, EntriesStay DEF Call, Entry
        <4> QED
          BY <3>1, <4>1, <4>2, EntriesStay DEF SearchInv, VerdictIsFounded
      <3> QED
        BY <3>2, <3>3, <3>4 DEF SearchInv
    <2> QED
      BY <2>1, <2>2, <2>3, <2>4 DEF Next, Done
  <1> QED
    BY <1>1, <1>2, PTL DEF Spec

\* The types, and that the recursion of checkCircularDependency is never deeper
\* than there are names, whatever circles the configuration has.
THEOREM ConfigTypeOK == Spec => []TypeOK
  <1>1. SearchInv => TypeOK
    <2> SUFFICES ASSUME SearchInv PROVE TypeOK
      OBVIOUS
    <2>0. Shapes /\ StackIsCalls
      BY DEF SearchInv
    <2>1. /\ Len(calls) \in Nat /\ DOMAIN calls = 1 .. Len(calls)
          /\ \A k \in 1 .. Len(calls) : calls[k] \in Frame /\ calls[k].name \in visited
      BY <2>0, Elements DEF Shapes
    <2>2. calls \in Seq([name : visited, i : Nat])
      <3>1. \A k \in 1 .. Len(calls) : calls[k] \in [name : visited, i : Nat]
        BY <2>1 DEF Frame
      <3>2. calls = [k \in 1 .. Len(calls) |-> calls[k]]
        BY <2>0, <2>1 DEF Shapes
      <3>3. calls \in [1 .. Len(calls) -> [name : visited, i : Nat]]
        BY <3>1, <3>2
      <3> QED
        BY <3>3, <2>1, FunctionIsSequence
    <2>3. Len(calls) <= Cardinality(Names)
      <3> DEFINE f == [k \in 1 .. Len(calls) |-> calls[k].name]
      <3>1. f \in Injection(1 .. Len(calls), Names)
        BY <2>0, <2>1 DEF Shapes, StackIsCalls, Injection, Frame, IsInjective
      <3>2. Cardinality(1 .. Len(calls)) = Len(calls)
        BY <2>1, CountUpTo
      <3> QED
        BY <3>1, <3>2, FS_Injection, ConfigAssumption
    <2> QED
      BY <2>0, <2>2, <2>3 DEF Shapes, TypeOK
  <1> QED
    BY <1>1, SearchInvHolds, PTL

\* What the search is done with leads only to what it is done with: no name has
\* to be looked at twice.
THEOREM ConfigDoneStaysDone == Spec => []DoneStaysDone
  <1>1. SearchInv => DoneStaysDone
    BY DEF SearchInv
  <1> QED
    BY <1>1, SearchInvHolds, PTL

\* A configuration that Validate accepts has an order to start every program in.
THEOREM ConfigAcceptedCanAllStart == Spec => []AcceptedCanAllStart
  <1>1. SearchInv => AcceptedCanAllStart
    <2> SUFFICES ASSUME SearchInv, verdict = "accepted", NEW S \in (SUBSET Programs) \ {{}}
                 PROVE  \E n \in S : \A d \in Named(n) :
                            d.on \in Programs \ S /\ ~Unreachable(d)
      BY DEF AcceptedCanAllStart
    <2>0. S \in SUBSET (Programs \cap (visited \ recStack)) /\ S # {}
      <3>1. Programs \subseteq visited \ recStack
        BY DEF SearchInv, VerdictIsFounded
      <3> QED
        BY <3>1
    <2>1. ~WaitOnEachOther(S)
      BY <2>0 DEF SearchInv, DoneCanStart
    <2>2. PICK n \in S : \A d \in Named(n) : d.on \notin S
      BY <2>1 DEF WaitOnEachOther
    <2> QED
      BY <2>2 DEF SearchInv, VerdictIsFounded, Absent
  <1> QED
    BY <1>1, SearchInvHolds, PTL

\* Where every name exists, a circular dependency is reported only where there is
\* one: the calls from the one met again up to the last are a circle.
THEOREM ConfigCircularIsReal == Spec => []CircularIsReal
  <1>1. SearchInv => CircularIsReal
    <2> SUFFICES ASSUME SearchInv, verdict = "circular",
                        \A p \in Programs : \A d \in Named(p) : ~Absent(d)
                 PROVE  \E S \in SUBSET Programs : S # {} /\ WaitOnEachOther(S)
      BY DEF CircularIsReal
    <2> DEFINE L == Len(calls)
    <2>0. /\ Shapes /\ StackIsCalls /\ CallsArePath /\ calls # <<>> /\ Call.name \in Programs
          /\ Call.i \in DOMAIN Entries(Call.name) /\ Entry \in recStack
      BY DEF SearchInv, VerdictIsFounded
    <2>1. /\ L \in Nat \ {0} /\ DOMAIN calls = 1 .. L
          /\ calls[L] = Call /\ Entry = Target(Call.name, Call.i)
      BY <2>0, CallType DEF Call, Entry, Target
    <2>2. Entry \in Programs
      BY <2>0, <2>1, EntriesType DEF Absent
    <2>3. PICK j \in 1 .. L : calls[j].name = Entry
      BY <2>0, <2>1, <2>2 DEF StackIsCalls
    <2> DEFINE S == {calls[k].name : k \in j .. L}
    <2>4. S \in SUBSET Programs /\ S # {}
      BY <2>0, <2>1, <2>3 DEF CallsArePath
    <2>5. \A k \in j .. L : \E d \in Named(calls[k].name) : d.on \in S
      <3> SUFFICES ASSUME NEW k \in j .. L
                   PROVE  \E d \in Named(calls[k].name) : d.on \in S
        OBVIOUS
      <3>1. CASE k = L
        <4>1. PICK d \in Named(Call.name) : d.on = Entry
          BY <2>0, <2>1, EntriesType
        <4>2. j \in j .. L
          BY <2>1, <2>3
        <4> QED
          BY <3>1, <4>1, <4>2, <2>1, <2>3
      <3>2. CASE k # L
        <4>0. j \in Nat /\ j >= 1 /\ L \in Nat /\ k \in Nat /\ j <= k /\ k <= L
          BY <2>1, <2>3
        <4>a. k < L
          BY <3>2, <4>0
        <4>1. k \in DOMAIN calls /\ k < L /\ k + 1 \in j .. L
          BY <4>a, <4>0, <2>1
        <4>2. PICK d \in Named(calls[k].name) : d.on = Target(calls[k].name, calls[k].i - 1)
          BY <4>1, <2>0, EntriesType DEF CallsArePath
        <4> QED
          BY <4>1, <4>2, <2>0 DEF CallsArePath
      <3> QED
        BY <3>1, <3>2
    <2> QED
      BY <2>4, <2>5 DEF WaitOnEachOther
  <1> QED
    BY <1>1, SearchInvHolds, PTL
=============================================================================

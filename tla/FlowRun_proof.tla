---------------------------- MODULE FlowRun_proof --------------------------
(***************************************************************************)
(* Proofs about FlowRun: for any entries of any flow, with names and       *)
(* dependencies repeated, missing or circular, and any steps of the        *)
(* modules, the flow's verdict is right and it keeps the order FlowOrder   *)
(* promises.                                                               *)
(***************************************************************************)
EXTENDS FlowRun, WellFoundedInduction, FiniteSetTheorems, FunctionTheorems, TLAPS

Running == flowPc \in {"loop", "popped", "module"}

(* The items of m's depends_on that name a module not dealt with yet.       *)
Left(m) == {e \in Edges(m) : To(e) \notin executed}

(* inDegree counts them.                                                    *)
DegreeInv == Running => \A m \in Names : inDegree[m] = Cardinality(Left(m))

Chosen(m) == entry # 0 /\ flow[entry].name = m

(* What waits for nothing is queued, unless it was dealt with or runs, and  *)
(* what is queued waits for nothing.                                        *)
QueueInv ==
  Running => /\ \A i \in DOMAIN ready : inDegree[ready[i]] = 0
             /\ \A m \in Names \ executed :
                  inDegree[m] = 0 => Chosen(m) \/ \E i \in DOMAIN ready : ready[i] = m

(* The entry that was popped waits for nothing, and is new.                 *)
EntryInv ==
  /\ flowPc \in {"new", "loop"} => entry = 0
  /\ flowPc \in {"popped", "module"} => /\ entry \in DOMAIN flow
                                        /\ flow[entry].name \notin executed
                                        /\ inDegree[flow[entry].name] = 0

(* There is one result for each name that was dealt with.                   *)
ResultsInv ==
  /\ \A i, j \in DOMAIN results :
       flow[results[i].entry].name = flow[results[j].entry].name => i = j
  /\ flowPc # "end" => Recorded = executed

(* Nothing that can never run was dealt with.                               *)
ExecutedInv == executed \cap Stuck = {}

(* What the loop of a module leaves behind.                                 *)
ModuleInv ==
  /\ loopPc = "step" => current \in DOMAIN steps
  /\ flowPc = "module" /\ loopPc = "off" => modStatus # "none"
  /\ modErr = "nil" => modStatus \in {"none", "completed", "skipped"}

VerdictInv ==
  /\ flowPc = "new" => executed = {}
  /\ flowPc # "end" => verdict = "running"
  /\ VerdictIsRight

IInv ==
  /\ TypeOK /\ DegreeInv /\ QueueInv /\ EntryInv /\ ResultsInv /\ ExecutedInv
  /\ ModuleInv /\ VerdictInv
-----------------------------------------------------------------------------
(* The operators of the model.                                              *)

(* A set of numbers that is not empty has a least one.                      *)
LEMMA LeastExists ==
  ASSUME NEW S \in SUBSET Nat, S # {}
  PROVE  \E i \in S : \A j \in S : i <= j
<1> DEFINE R == OpToRel(<, Nat)
<1>0. IsWellFoundedOn(R, Nat)
  BY NatLessThanWellFounded
<1> HIDE DEF R
<1>1. PICK i \in S : \A j \in S : ~ (<<j, i>> \in R)
  BY <1>0, WFMin
<1> USE DEF R
<1>2. \A j \in S : ~ (j < i)
  BY <1>1 DEF OpToRel
<1> QED  BY <1>2

LEMMA GreatestExists ==
  ASSUME NEW n \in Nat, NEW S \in SUBSET (1 .. n), S # {}
  PROVE  \E i \in S : \A j \in S : j <= i
<1> DEFINE T == {k \in 0 .. n : n - k \in S}
<1>1. T \in SUBSET Nat /\ T # {}
  <2>1. PICK i \in S : TRUE
    OBVIOUS
  <2>2. n - (n - i) = i /\ n - i \in 0 .. n
    BY <2>1
  <2>3. n - i \in T
    BY <2>1, <2>2
  <2>4. T \in SUBSET Nat
    OBVIOUS
  <2> QED  BY <2>3, <2>4
<1>2. PICK k \in T : \A j \in T : k <= j
  BY <1>1, LeastExists
<1>3. ASSUME NEW j \in S PROVE j <= n - k
  <2>1. n - j \in T
    OBVIOUS
  <2> QED  BY <1>2, <2>1
<1> QED  BY <1>2, <1>3

LEMMA FlowEntry ==
  ASSUME flow \in Flows
  PROVE  /\ DOMAIN flow = 1 .. Len(flow) /\ Len(flow) \in Nat
         /\ \A i \in DOMAIN flow : /\ flow[i].name \in Module
                                  /\ flow[i].dependsOn \in Seq(Module \cup {Missing})
<1> DEFINE Entries == [name : Module, dependsOn : Seq(Module \cup {Missing}), aborts : BOOLEAN]
<1>1. flow \in Seq(Entries)
  BY Zenon DEF Flows
<1>2. ASSUME NEW x \in Entries
      PROVE  x.name \in Module /\ x.dependsOn \in Seq(Module \cup {Missing})
  OBVIOUS
<1> HIDE DEF Entries
<1>3. /\ DOMAIN flow = 1 .. Len(flow) /\ Len(flow) \in Nat
      /\ \A i \in DOMAIN flow : flow[i] \in Entries
  BY <1>1
<1> QED  BY <1>2, <1>3

(* The entry buildModuleMap keeps for a name has that name.                 *)
LEMMA EntryHasName ==
  ASSUME flow \in Flows, NEW m \in Names
  PROVE  EntryOf(m) \in DOMAIN flow /\ flow[EntryOf(m)].name = m
<1>1. EntriesOf(m) \in SUBSET (1 .. Len(flow)) /\ EntriesOf(m) # {} /\ Len(flow) \in Nat
  BY FlowEntry DEF EntriesOf, Names
<1>2. \E i \in EntriesOf(m) : \A j \in EntriesOf(m) : j <= i
  BY <1>1, GreatestExists
<1>3. EntryOf(m) \in EntriesOf(m)
  BY <1>2 DEF EntryOf
<1> QED  BY <1>3 DEF EntriesOf

(* A name has finitely many items of depends_on.                            *)
LEMMA EdgesAreFinite ==
  ASSUME flow \in Flows, NEW m
  PROVE  IsFiniteSet(Edges(m)) /\ Cardinality(Edges(m)) \in Nat
<1> DEFINE f == [i \in EntriesOf(m) |-> {i} \X DOMAIN flow[i].dependsOn]
           T == {{i} \X DOMAIN flow[i].dependsOn : i \in EntriesOf(m)}
<1>1. IsFiniteSet(EntriesOf(m))
  <2>1. EntriesOf(m) \in SUBSET (1 .. Len(flow)) /\ 1 \in Int /\ Len(flow) \in Int
    BY FlowEntry DEF EntriesOf
  <2>2. IsFiniteSet(1 .. Len(flow))
    BY <2>1, FS_Interval
  <2> QED  BY <2>1, <2>2, FS_Subset
<1>2. f \in Surjection(EntriesOf(m), T)
  BY DEF Surjection
<1>3. IsFiniteSet(T)
  BY <1>1, <1>2, FS_Surjection
<1>4. ASSUME NEW i \in EntriesOf(m) PROVE IsFiniteSet({i} \X DOMAIN flow[i].dependsOn)
  <2>1. flow[i].dependsOn \in Seq(Module \cup {Missing})
    BY FlowEntry DEF EntriesOf
  <2>2. DOMAIN flow[i].dependsOn = 1 .. Len(flow[i].dependsOn) /\ Len(flow[i].dependsOn) \in Nat
    BY <2>1
  <2>3. IsFiniteSet(DOMAIN flow[i].dependsOn)
    BY <2>2, FS_Interval
  <2> QED  BY <2>3, FS_Singleton, FS_Product
<1>5. IsFiniteSet(UNION T)
  BY <1>3, <1>4, FS_UNION
<1> QED  BY <1>5, FS_CardinalityType DEF Edges

(* Any order of a set is a sequence of its elements, and has all of them.   *)
LEMMA OrderOfSet ==
  ASSUME NEW S, IsFiniteSet(S), NEW order \in SetToSeqs(S)
  PROVE  /\ order \in Seq(S)
         /\ \A x \in S : \E i \in DOMAIN order : order[i] = x
<1> DEFINE n == Cardinality(S)
<1>1. n \in Nat
  BY FS_CardinalityType
<1>2. order \in [1 .. n -> S] /\ \A i, j \in 1 .. n : i # j => order[i] # order[j]
  BY DEF SetToSeqs
<1>3. order \in Injection(1 .. n, S)
  BY <1>2 DEF Injection, IsInjective
<1>4. IsFiniteSet(1 .. n) /\ Cardinality(1 .. n) = n
  BY <1>1, FS_Interval
<1>5. order \in Surjection(1 .. n, S)
  BY <1>3, <1>4, FS_Injection
<1> QED  BY <1>1, <1>2, <1>5 DEF Surjection
(* The elements of two sequences joined.                                    *)
LEMMA Joined ==
  ASSUME NEW S, NEW s \in Seq(S), NEW t \in Seq(S)
  PROVE  /\ s \o t \in Seq(S)
         /\ \A i \in DOMAIN s : i \in DOMAIN (s \o t) /\ (s \o t)[i] = s[i]
         /\ \A j \in DOMAIN t : Len(s) + j \in DOMAIN (s \o t) /\ (s \o t)[Len(s) + j] = t[j]
         /\ \A i \in DOMAIN (s \o t) : \/ i \in DOMAIN s
                                       \/ \E j \in DOMAIN t : (s \o t)[i] = t[j]
<1>1. s \o t \in Seq(S) /\ Len(s \o t) = Len(s) + Len(t)
  OBVIOUS
<1>2. ASSUME NEW j \in DOMAIN t PROVE (s \o t)[Len(s) + j] = t[j]
  OBVIOUS
<1>3. ASSUME NEW i \in DOMAIN (s \o t), i \notin DOMAIN s
      PROVE  \E j \in DOMAIN t : (s \o t)[i] = t[j]
  <2>1. i - Len(s) \in DOMAIN t /\ (s \o t)[i] = t[i - Len(s)]
    BY <1>3
  <2> QED  BY <2>1
<1> QED  BY <1>1, <1>2, <1>3

(* When m has been dealt with, each name waits for as many items less as    *)
(* name m in its depends_on.                                                *)
LEMMA LeftLoses ==
  ASSUME flow \in Flows, flow' = flow, NEW m, m \notin executed,
         executed' = executed \cup {m}, NEW x
  PROVE  /\ Left(x)' \subseteq Left(x) /\ IsFiniteSet(Left(x))
         /\ Lists(x, m) \in Nat /\ Cardinality(Left(x)) \in Nat
         /\ Cardinality(Left(x)') = Cardinality(Left(x)) - Lists(x, m)
<1> DEFINE M == {e \in Edges(x) : To(e) = m}
<1>1. Left(x)' = Left(x) \ M /\ Left(x) \cap M = M
  BY DEF Left, Edges, EntriesOf, To
<1>2. Left(x) \in SUBSET Edges(x) /\ M \in SUBSET Edges(x)
  BY DEF Left
<1> HIDE DEF M
<1>3. IsFiniteSet(Left(x)) /\ IsFiniteSet(M)
  BY <1>2, EdgesAreFinite, FS_Subset
<1>4. Cardinality(Left(x)) \in Nat /\ Cardinality(M) \in Nat
  BY <1>3, FS_CardinalityType
<1>5. Cardinality(Left(x) \ M) = Cardinality(Left(x)) - Cardinality(M)
  BY <1>1, <1>3, FS_Difference
<1>6. Lists(x, m) = Cardinality(M)
  BY DEF Lists, M
<1> QED  BY <1>1, <1>3, <1>4, <1>5, <1>6

(* A name with inDegree zero waits for nothing; another waits for something.*)
LEMMA ZeroDegree ==
  ASSUME TypeOK, DegreeInv, Running, NEW m \in Names
  PROVE  inDegree[m] = 0 <=> Left(m) = {}
<1>1. IsFiniteSet(Left(m))
  <2>1. Left(m) \in SUBSET Edges(m)
    BY DEF Left
  <2> QED  BY <2>1, EdgesAreFinite, FS_Subset DEF TypeOK
<1> QED  BY <1>1, FS_EmptySet DEF DegreeInv

(* What depends on the flow alone does not change with the rest.            *)
LEMMA FlowStays ==
  ASSUME flow' = flow
  PROVE  /\ Names' = Names /\ Stuck' = Stuck
         /\ \A m : Edges(m)' = Edges(m) /\ Deps(m)' = Deps(m) /\ EntryOf(m)' = EntryOf(m)
<1>1. Names' = Names /\ \A m : Edges(m)' = Edges(m) /\ Deps(m)' = Deps(m)
  BY DEF Names, Edges, EntriesOf, Deps, To
<1>2. \A m : EntryOf(m)' = EntryOf(m)
  BY DEF EntryOf, EntriesOf
<1>3. Stuck' = Stuck
  BY DEF Stuck, Names, Deps, Edges, EntriesOf, To
<1> QED  BY <1>1, <1>2, <1>3

LEMMA NamesAreFinite ==
  ASSUME TypeOK, NEW S \in SUBSET Names
  PROVE  IsFiniteSet(S)
<1>1. S \in SUBSET Module
  BY FlowEntry DEF TypeOK, Names
<1> QED  BY <1>1, FlowRunAssumption, FS_Subset

(* Stuck names are stuck with one another.                                  *)
LEMMA StuckIsStuck ==
  ASSUME NEW m \in Stuck
  PROVE  m \in Names /\ \E d \in Deps(m) : d \in Stuck \/ d \notin Names
BY DEF Stuck

LEMMA StuckIsLargest ==
  ASSUME NEW S \in SUBSET Names, \A m \in S : \E d \in Deps(m) : d \in S \/ d \notin Names
  PROVE  S \subseteq Stuck
BY DEF Stuck
-----------------------------------------------------------------------------
(* The loop of a module.                                                    *)

LoopInv ==
  /\ StepLoopTypeOK
  /\ loopPc = "step" => current \in DOMAIN steps
  /\ modErr = "nil" => modStatus \in {"none", "completed", "skipped"}

(* A goto is looked up among the steps.                                     *)
LEMMA StepIsFound ==
  ASSUME StepLoopTypeOK, NEW name
  PROVE  FindStepIndex(name) = 0 \/ FindStepIndex(name) \in DOMAIN steps
<1> DEFINE at == {i \in DOMAIN steps : steps[i] = name}
<1>1. at \in SUBSET Nat
  BY DEF StepLoopTypeOK
<1>2. CASE at = {}
  BY <1>2 DEF FindStepIndex
<1>3. CASE at # {}
  <2>1. \E i \in at : \A j \in at : i <= j
    BY <1>1, <1>3, LeastExists
  <2>2. (CHOOSE i \in at : \A j \in at : i <= j) \in at
    BY <2>1
  <2> QED  BY <1>3, <2>2 DEF FindStepIndex
<1> QED  BY <1>2, <1>3

LEMMA LoopKeeps ==
  ASSUME LoopInv, LoopStep, UNCHANGED <<steps, tolerant>>
  PROVE  LoopInv' /\ (loopPc' = "off" => modStatus' # "none")
<1> USE DEF LoopInv, StepLoopTypeOK
<1>0. Len(steps) \in Nat /\ DOMAIN steps = 1 .. Len(steps)
  OBVIOUS
<1>1. ctxDone' = ctxDone /\ ctxDone' \in BOOLEAN
  BY Zenon
  DEF LoopStep, SetUp, LoopCancelled, BeginStep, LoopEnds, StepSkipped, StepSkipsModule,
      StepFails, StepSucceeds
<1>2. CASE SetUp
  BY <1>1, <1>2 DEF SetUp, Returns
<1>3. CASE LoopCancelled
  BY <1>1, <1>3 DEF LoopCancelled, Returns
<1>4. CASE BeginStep
  BY <1>0, <1>1, <1>4 DEF BeginStep
<1>5. CASE LoopEnds
  BY <1>1, <1>5 DEF LoopEnds, Returns
<1>6. CASE StepSkipped
  BY <1>0, <1>1, <1>6 DEF StepSkipped, Advance
<1>7. CASE StepSkipsModule
  BY <1>1, <1>7 DEF StepSkipsModule, Returns
<1>8. CASE StepFails
  BY <1>0, <1>1, <1>8 DEF StepFails, Advance, Returns
<1>9. CASE StepSucceeds
  <2>1. PICK next : \/ current' = Len(steps) + 1
                    \/ FindStepIndex(next) > 0 /\ current' = FindStepIndex(next)
                    \/ current' = current + 1
    BY <1>9 DEF StepSucceeds, Advance
  <2>2. current' \in 1 .. Len(steps) + 1
    BY <1>0, <1>9, <2>1, StepIsFound DEF StepSucceeds
  <2>3. loopPc' = "top" /\ modStatus' = modStatus /\ modErr' = modErr
    BY <1>9 DEF StepSucceeds, Advance
  <2> QED  BY <1>1, <2>2, <2>3
<1> QED
  BY <1>2, <1>3, <1>4, <1>5, <1>6, <1>7, <1>8, <1>9 DEF LoopStep
-----------------------------------------------------------------------------
LEMMA InitIInv == Init => IInv
<1> SUFFICES ASSUME Init PROVE IInv
  OBVIOUS
<1> USE DEF Init, FlowInit, StepLoopInit
<1>1. TypeOK
  <2>1. ctxDone \in BOOLEAN
    BY Zenon
  <2>2. StepLoopTypeOK
    BY <2>1 DEF StepLoopTypeOK
  <2>3. inDegree \in [Names -> Nat]
    OBVIOUS
  <2> QED  BY <2>2, <2>3 DEF TypeOK
<1>2. DegreeInv /\ QueueInv /\ EntryInv /\ ModuleInv
  BY DEF DegreeInv, QueueInv, EntryInv, ModuleInv, Running
<1>3. ResultsInv /\ ExecutedInv /\ VerdictInv
  BY DEF ResultsInv, Recorded, ExecutedInv, VerdictInv, VerdictIsRight
<1> QED  BY <1>1, <1>2, <1>3 DEF IInv

(* What the loop keeps, next to the flow.                                   *)
LEMMA LoopOfFlow == IInv => LoopInv
BY DEF IInv, TypeOK, ModuleInv, LoopInv

LEMMA BuildKeeps == IInv /\ BuildDependencyGraph => IInv'
<1> SUFFICES ASSUME IInv, BuildDependencyGraph PROVE IInv'
  OBVIOUS
<1> USE DEF BuildDependencyGraph, fixed, loopVars
<1> DEFINE Z == {m \in Names : inDegree'[m] = 0}
<1>1. flow' = flow /\ flow \in Flows /\ executed = {} /\ entry = 0
  BY DEF IInv, TypeOK, VerdictInv, EntryInv
<1>2. Names' = Names /\ \A m : Edges(m)' = Edges(m)
  BY <1>1, FlowStays
<1>3. inDegree' \in [Names -> Nat]
  BY <1>1, EdgesAreFinite
<1>4. IsFiniteSet(Z)
  BY NamesAreFinite DEF IInv
<1>5. ready' \in SetToSeqs(Z)
  OBVIOUS
<1>6. ready' \in Seq(Z) /\ \A m \in Z : \E i \in DOMAIN ready' : ready'[i] = m
  <2> HIDE DEF Z
  <2> QED  BY <1>4, <1>5, OrderOfSet
<1>7. ready' \in Seq(Names) /\ \A i \in DOMAIN ready' : inDegree'[ready'[i]] = 0
  <2>1. Z \subseteq Names /\ \A m \in Z : inDegree'[m] = 0
    OBVIOUS
  <2> HIDE DEF Z, BuildDependencyGraph
  <2> QED  BY <1>6, <2>1
<1>8. TypeOK'
  <2>1. StepLoopTypeOK'
    BY DEF IInv, TypeOK, StepLoopTypeOK
  <2>2. /\ flow' = flow /\ executed' = executed /\ results' = results /\ entry' = entry
        /\ verdict' = verdict /\ flowPc' = "loop"
    OBVIOUS
  <2> HIDE DEF Z, BuildDependencyGraph
  <2> QED  BY <1>2, <1>3, <1>7, <2>1, <2>2 DEF IInv, TypeOK
<1>9. DegreeInv'
  <2>1. \A m : Left(m)' = Edges(m)
    BY <1>1, <1>2 DEF Left
  <2> QED  BY <1>2, <2>1 DEF DegreeInv
<1>10. QueueInv'
  BY <1>2, <1>6, <1>7 DEF QueueInv
<1>11. (EntryInv /\ ResultsInv /\ ExecutedInv)'
  BY <1>1 DEF IInv, EntryInv, ResultsInv, Recorded, ExecutedInv
<1>12. ModuleInv' /\ VerdictInv'
  BY DEF IInv, ModuleInv, VerdictInv, VerdictIsRight
<1> QED  BY <1>8, <1>9, <1>10, <1>11, <1>12 DEF IInv
LEMMA PopKeeps == IInv /\ PopReady => IInv'
<1> SUFFICES ASSUME IInv, PopReady PROVE IInv'
  OBVIOUS
<1> USE DEF PopReady, fixed, loopVars
<1>1. flow' = flow /\ flow \in Flows /\ Running /\ Running' /\ executed' = executed
  BY DEF IInv, TypeOK, Running
<1>2. Names' = Names /\ \A m : Edges(m)' = Edges(m) /\ Left(m)' = Left(m)
  BY <1>1, FlowStays DEF Left, To
<1>3. ready # <<>> /\ ready \in Seq(Names) /\ Head(ready) \in Names /\ entry = 0
  BY DEF IInv, TypeOK, EntryInv
<1>4. /\ ready' \in Seq(Names)
      /\ \A i \in DOMAIN ready' : i + 1 \in DOMAIN ready /\ ready'[i] = ready[i + 1]
      /\ \A i \in DOMAIN ready : i # 1 => i - 1 \in DOMAIN ready' /\ ready'[i - 1] = ready[i]
  BY <1>3
<1>5. \/ Head(ready) \in executed /\ entry' = entry /\ flowPc' = "loop"
      \/ /\ Head(ready) \notin executed /\ entry' \in DOMAIN flow /\ flowPc' = "popped"
         /\ flow[entry'].name = Head(ready)
  BY <1>1, <1>3, EntryHasName
<1>6. TypeOK'
  <2>1. StepLoopTypeOK'
    BY DEF IInv, TypeOK, StepLoopTypeOK
  <2> QED  BY <1>1, <1>2, <1>4, <1>5, <2>1 DEF IInv, TypeOK
<1>7. DegreeInv'
  BY <1>1, <1>2 DEF IInv, DegreeInv
<1>8. inDegree[Head(ready)] = 0
  BY <1>1, <1>3 DEF IInv, QueueInv
<1>9. QueueInv'
  <2>1. \A i \in DOMAIN ready' : inDegree'[ready'[i]] = 0
    BY <1>1, <1>4 DEF IInv, QueueInv
  <2>2. ASSUME NEW m \in Names \ executed, inDegree[m] = 0
        PROVE  Chosen(m)' \/ \E i \in DOMAIN ready' : ready'[i] = m
    <3>1. PICK i \in DOMAIN ready : ready[i] = m
      BY <1>1, <1>3, <2>2 DEF IInv, QueueInv, Chosen
    <3>2. CASE i = 1
      <4>1. m = Head(ready)
        BY <1>3, <3>1, <3>2
      <4> QED  BY <1>1, <1>5, <4>1, FlowEntry DEF Chosen
    <3>3. CASE i # 1
      BY <1>4, <3>1, <3>3
    <3> QED  BY <3>2, <3>3
  <2> QED  BY <1>1, <1>2, <2>1, <2>2 DEF QueueInv
<1>10. EntryInv'
  BY <1>1, <1>3, <1>5, <1>8 DEF IInv, EntryInv
<1>11. ResultsInv' /\ ExecutedInv'
  BY <1>1, FlowStays DEF IInv, ResultsInv, Recorded, ExecutedInv
<1>12. ModuleInv' /\ VerdictInv'
  BY <1>5 DEF IInv, ModuleInv, VerdictInv, VerdictIsRight
<1> QED  BY <1>6, <1>7, <1>9, <1>10, <1>11, <1>12 DEF IInv

Statuses == {"completed", "skipped", "failed", "cancelled"}

(* A result for the entry that was popped is the first for its name.        *)
LEMMA OneResultMore ==
  ASSUME IInv, flowPc \in {"popped", "module"}, flow' = flow,
         NEW s \in Statuses, Record(entry, s)
  PROVE  /\ results' \in Seq([entry : DOMAIN flow, status : Statuses])
         /\ Len(results') = Len(results) + 1 /\ Len(results) \in Nat
         /\ DOMAIN results = 1 .. Len(results) /\ DOMAIN results' = 1 .. Len(results')
         /\ \A i \in DOMAIN results : results'[i] = results[i]
         /\ results'[Len(results')] = [entry |-> entry, status |-> s]
         /\ \A i, j \in DOMAIN results' :
              flow[results'[i].entry].name = flow[results'[j].entry].name => i = j
         /\ Recorded' = Recorded \cup {flow[entry].name}
<1> DEFINE r == [entry |-> entry, status |-> s]
<1>1. entry \in DOMAIN flow /\ flow[entry].name \notin executed /\ Recorded = executed
  BY DEF IInv, EntryInv, ResultsInv
<1>2. r \in [entry : DOMAIN flow, status : Statuses] /\ r.entry = entry
  BY <1>1
<1>3. results \in Seq([entry : DOMAIN flow, status : Statuses]) /\ results' = Append(results, r)
  BY Zenon DEF IInv, TypeOK, Record, Statuses
<1> HIDE DEF r
<1>4. /\ results' \in Seq([entry : DOMAIN flow, status : Statuses])
      /\ Len(results') = Len(results) + 1 /\ Len(results) \in Nat
      /\ DOMAIN results = 1 .. Len(results) /\ DOMAIN results' = 1 .. Len(results')
      /\ \A i \in DOMAIN results : results'[i] = results[i]
      /\ results'[Len(results')] = r
  BY <1>2, <1>3
<1>5. \A i \in DOMAIN results : flow[results'[i].entry].name \in executed
  BY <1>1, <1>4 DEF Recorded
<1>6. \A i \in DOMAIN results' : i \in DOMAIN results \/ i = Len(results')
  BY <1>4
<1>7. flow[results'[Len(results')].entry].name = flow[entry].name
  BY <1>2, <1>4
<1>8. \A i, j \in DOMAIN results' :
        flow[results'[i].entry].name = flow[results'[j].entry].name => i = j
  BY <1>1, <1>4, <1>5, <1>6, <1>7 DEF IInv, ResultsInv
<1>9. Recorded' = Recorded \cup {flow[entry].name}
  BY <1>4, <1>6, <1>7 DEF Recorded
<1> QED  BY <1>4, <1>8, <1>9 DEF r
(* Counting a name down for all of m's dependents: what it queues is all    *)
(* that waits for nothing now.                                              *)
LEMMA UnblockKeeps ==
  ASSUME IInv, Running, flow' = flow, NEW m \in Names \ executed,
         inDegree[m] = 0, Chosen(m),
         executed' = executed \cup {m}, Unblock(m)
  PROVE  /\ inDegree' \in [Names -> Nat] /\ ready' \in Seq(Names)
         /\ \A x \in Names : inDegree'[x] = Cardinality(Left(x)')
         /\ \A i \in DOMAIN ready' : inDegree'[ready'[i]] = 0
         /\ \A x \in Names \ executed' :
              inDegree'[x] = 0 => \E i \in DOMAIN ready' : ready'[i] = x
<1> DEFINE freed == {d \in Names : /\ Lists(d, m) > 0 /\ Lists(d, m) = inDegree[d]
                                   /\ d \notin executed'}
<1>0. flow \in Flows /\ ready \in Seq(Names)
  BY DEF IInv, TypeOK
<1>1. ASSUME NEW x \in Names
      PROVE  /\ Left(x)' \subseteq Left(x) /\ IsFiniteSet(Left(x))
             /\ inDegree'[x] = inDegree[x] - Lists(x, m) /\ Lists(x, m) \in Nat
             /\ inDegree'[x] = Cardinality(Left(x)') /\ inDegree'[x] \in Nat
             /\ inDegree[x] \in Nat
             /\ inDegree[x] = 0 => inDegree'[x] = 0
  <2>1. /\ Left(x)' \subseteq Left(x) /\ IsFiniteSet(Left(x))
        /\ Lists(x, m) \in Nat /\ Cardinality(Left(x)) \in Nat
        /\ Cardinality(Left(x)') = Cardinality(Left(x)) - Lists(x, m)
    BY <1>0, LeftLoses
  <2>2. inDegree[x] = Cardinality(Left(x)) /\ inDegree'[x] = inDegree[x] - Lists(x, m)
    BY DEF IInv, DegreeInv, Unblock
  <2>3. IsFiniteSet(Left(x)')
    BY <2>1, FS_Subset
  <2>4. Cardinality(Left(x)') \in Nat
    BY <2>3, FS_CardinalityType
  <2> QED  BY <2>1, <2>2, <2>4
<1>2. inDegree' \in [Names -> Nat]
  <2>1. inDegree' = [d \in Names |-> inDegree[d] - Lists(d, m)]
    BY DEF Unblock
  <2>2. \A d \in Names : inDegree'[d] \in Nat
    BY <1>1
  <2> QED  BY <2>1, <2>2
<1>3. PICK order \in SetToSeqs(freed) : ready' = ready \o order
  BY DEF Unblock
<1>4. freed \in SUBSET Names /\ \A x \in freed : inDegree'[x] = 0
  BY <1>1
<1>5. IsFiniteSet(freed)
  BY <1>4, NamesAreFinite DEF IInv
<1>6. \A x \in Names \ executed' :
        inDegree'[x] = 0 => x \in freed \/ \E i \in DOMAIN ready : ready[i] = x
  <2> SUFFICES ASSUME NEW x \in Names \ executed', inDegree'[x] = 0, x \notin freed
               PROVE  \E i \in DOMAIN ready : ready[i] = x
    OBVIOUS
  <2>1. Lists(x, m) = 0 /\ inDegree[x] = 0
    BY <1>1
  <2>2. ~ Chosen(x) /\ x \in Names \ executed
    BY DEF Chosen
  <2> QED  BY <2>1, <2>2 DEF IInv, QueueInv
<1> HIDE DEF freed
<1>7. order \in Seq(freed) /\ \A x \in freed : \E i \in DOMAIN order : order[i] = x
  BY <1>3, <1>5, OrderOfSet
<1>8. order \in Seq(Names) /\ \A j \in DOMAIN order : inDegree'[order[j]] = 0
  BY <1>4, <1>7
<1>9. /\ ready' \in Seq(Names)
      /\ \A i \in DOMAIN ready : i \in DOMAIN ready' /\ ready'[i] = ready[i]
      /\ \A j \in DOMAIN order : Len(ready) + j \in DOMAIN ready'
                                 /\ ready'[Len(ready) + j] = order[j]
      /\ \A i \in DOMAIN ready' : i \in DOMAIN ready \/ \E j \in DOMAIN order : ready'[i] = order[j]
  BY <1>0, <1>3, <1>8, Joined
<1>10. \A i \in DOMAIN ready : inDegree'[ready[i]] = 0
  <2>1. \A i \in DOMAIN ready : ready[i] \in Names /\ inDegree[ready[i]] = 0
    BY <1>0 DEF IInv, QueueInv
  <2> QED  BY <1>1, <2>1
<1>11. \A i \in DOMAIN ready' : inDegree'[ready'[i]] = 0
  BY <1>8, <1>9, <1>10
<1>12. \A x \in Names \ executed' :
         inDegree'[x] = 0 => \E i \in DOMAIN ready' : ready'[i] = x
  BY <1>6, <1>7, <1>9
<1> QED  BY <1>1, <1>2, <1>9, <1>11, <1>12

(* Until the flow ends no result is cancelled; the next one may be.         *)
LEMMA CancelledIsLast ==
  ASSUME IInv, flowPc \in {"popped", "module"}, flow' = flow, NEW s \in Statuses,
         Record(entry, s)
  PROVE  /\ \A i \in DOMAIN results' :
              results'[i].status = "cancelled" => i = Len(results') /\ s = "cancelled"
         /\ \E i \in DOMAIN results' : results'[i].status = s
<1>1. /\ Len(results') = Len(results) + 1 /\ Len(results) \in Nat
      /\ DOMAIN results = 1 .. Len(results) /\ DOMAIN results' = 1 .. Len(results')
      /\ \A i \in DOMAIN results : results'[i] = results[i]
      /\ results'[Len(results')] = [entry |-> entry, status |-> s]
  BY OneResultMore
<1>2. \A i \in DOMAIN results : results[i].status # "cancelled"
  BY DEF IInv, VerdictInv, VerdictIsRight
<1> QED  BY <1>1, <1>2

(* The popped entry has been dealt with, and the flow goes on.              *)
LEMMA DoneKeeps ==
  ASSUME IInv, flowPc \in {"popped", "module"},
         NEW s \in Statuses, s # "cancelled", Done(s),
         UNCHANGED <<fixed, ctxDone, loopVars>>
  PROVE  IInv'
<1> USE DEF Done, fixed, loopVars
<1> DEFINE m == flow[entry].name
<1>1. flow' = flow /\ Running /\ Running' /\ executed' = executed \cup {m} /\ entry' = 0
  BY DEF Running
<1>2. /\ entry \in DOMAIN flow /\ m \in Names \ executed /\ inDegree[m] = 0 /\ Chosen(m)
      /\ Left(m) = {} /\ Recorded = executed
  <2>1. entry \in DOMAIN flow /\ m \in Names \ executed /\ inDegree[m] = 0
    BY DEF IInv, EntryInv, Names
  <2>2. entry # 0
    BY <2>1, FlowEntry DEF IInv, TypeOK
  <2> QED  BY <1>1, <2>1, <2>2, ZeroDegree DEF IInv, Chosen, ResultsInv
<1>3. Names' = Names /\ Stuck' = Stuck
  BY <1>1, FlowStays
<1> HIDE DEF m
<1>4. /\ inDegree' \in [Names -> Nat] /\ ready' \in Seq(Names)
      /\ \A x \in Names : inDegree'[x] = Cardinality(Left(x)')
      /\ \A i \in DOMAIN ready' : inDegree'[ready'[i]] = 0
      /\ \A x \in Names \ executed' :
           inDegree'[x] = 0 => \E i \in DOMAIN ready' : ready'[i] = x
  BY <1>1, <1>2, UnblockKeeps DEF m
<1>5. /\ results' \in Seq([entry : DOMAIN flow, status : Statuses])
      /\ \A i, j \in DOMAIN results' :
           flow[results'[i].entry].name = flow[results'[j].entry].name => i = j
      /\ Recorded' = Recorded \cup {m}
  BY <1>1, OneResultMore DEF m
<1>6. TypeOK'
  <2>1. StepLoopTypeOK'
    BY DEF IInv, TypeOK, StepLoopTypeOK
  <2>2. executed' \in SUBSET Names
    BY <1>1, <1>2 DEF IInv, TypeOK
  <2> QED  BY <1>1, <1>3, <1>4, <1>5, <2>1, <2>2 DEF IInv, TypeOK, Statuses
<1>7. DegreeInv' /\ QueueInv'
  BY <1>3, <1>4 DEF DegreeInv, QueueInv
<1>8. EntryInv' /\ ResultsInv'
  BY <1>1, <1>2, <1>5 DEF EntryInv, ResultsInv
<1>9. ExecutedInv'
  <2>1. \A d \in Deps(m) : d \in executed
    BY <1>2 DEF Left, Deps
  <2>2. m \notin Stuck
    BY <2>1, StuckIsStuck DEF IInv, ExecutedInv, TypeOK
  <2> QED  BY <1>1, <1>3, <2>2 DEF IInv, ExecutedInv
<1>10. ModuleInv' /\ VerdictInv'
  <2>1. \A i \in DOMAIN results' : results'[i].status # "cancelled"
    BY <1>1, CancelledIsLast
  <2>2. verdict' = "running" /\ flowPc' = "loop"
    BY DEF IInv, VerdictInv
  <2> QED  BY <2>1, <2>2 DEF IInv, ModuleInv, VerdictInv, VerdictIsRight
<1> QED  BY <1>6, <1>7, <1>8, <1>9, <1>10 DEF IInv

(* The flow ends: only the verdict is to be looked at.                      *)
LEMMA EndKeeps ==
  ASSUME IInv, flowPc' = "end", verdict' \in {"completed", "failed", "circular", "cancelled"},
         UNCHANGED <<fixed, ctxDone, loopVars, inDegree, ready, executed, entry>>,
         \/ UNCHANGED results
         \/ flowPc = "module" /\ \E s \in Statuses : Record(entry, s),
         VerdictIsRight'
  PROVE  IInv'
<1> USE DEF fixed, loopVars
<1>1. Names' = Names /\ Stuck' = Stuck
  BY FlowStays
<1>2. /\ results' \in Seq([entry : DOMAIN flow, status : Statuses])
      /\ \A i, j \in DOMAIN results' :
           flow[results'[i].entry].name = flow[results'[j].entry].name => i = j
  <2>1. CASE UNCHANGED results
    BY <2>1 DEF IInv, TypeOK, ResultsInv, Statuses
  <2>2. CASE flowPc = "module" /\ \E s \in Statuses : Record(entry, s)
    BY <2>2, OneResultMore
  <2> QED  BY <2>1, <2>2
<1>3. TypeOK'
  <2>1. StepLoopTypeOK'
    BY DEF IInv, TypeOK, StepLoopTypeOK
  <2> QED  BY <1>1, <1>2, <2>1 DEF IInv, TypeOK, Statuses
<1>4. (DegreeInv /\ QueueInv /\ EntryInv /\ ModuleInv)'
  BY DEF IInv, DegreeInv, QueueInv, EntryInv, ModuleInv, Running
<1>5. ResultsInv' /\ ExecutedInv' /\ VerdictInv'
  BY <1>1, <1>2 DEF IInv, ResultsInv, ExecutedInv, VerdictInv
<1> QED  BY <1>3, <1>4, <1>5 DEF IInv
(* When the queue is empty, what was not dealt with is what can never run.  *)
LEMMA NothingReady ==
  ASSUME IInv, flowPc = "loop", ready = <<>>
  PROVE  /\ \A m \in Names \ executed : inDegree[m] > 0 /\ Left(m) # {}
         /\ executed = Names \ Stuck /\ Stuck \subseteq Names /\ Recorded = executed
<1>1. Running /\ entry = 0 /\ executed \subseteq Names /\ Recorded = executed
  BY DEF IInv, TypeOK, EntryInv, ResultsInv, Running
<1>2. ASSUME NEW m \in Names \ executed PROVE inDegree[m] > 0 /\ Left(m) # {}
  <2>1. inDegree[m] # 0
    BY <1>1 DEF IInv, QueueInv, Chosen
  <2> QED  BY <1>1, <2>1, ZeroDegree DEF IInv, TypeOK
<1>3. \A m \in Names \ executed :
        \E d \in Deps(m) : d \in Names \ executed \/ d \notin Names
  BY <1>2 DEF Left, Deps
<1>4. Names \ executed \subseteq Stuck
  BY <1>3, StuckIsLargest
<1>5. Stuck \subseteq Names
  BY StuckIsStuck
<1> QED  BY <1>1, <1>2, <1>4, <1>5 DEF IInv, ExecutedInv

LEMMA FlowEndsKeeps == IInv /\ FlowEnds => IInv'
<1> SUFFICES ASSUME IInv, FlowEnds PROVE IInv'
  OBVIOUS
<1> USE DEF FlowEnds, EndsWith, fixed, loopVars
<1>1. Stuck' = Stuck /\ Names' = Names
  BY FlowStays
<1>2. /\ \A m \in Names \ executed : inDegree[m] > 0
      /\ executed = Names \ Stuck /\ Stuck \subseteq Names /\ Recorded = executed
  BY NothingReady
<1>3. Recorded' = Recorded
  BY DEF Recorded
<1>4. \A i \in DOMAIN results' : results'[i].status # "cancelled"
  BY DEF IInv, VerdictInv, VerdictIsRight
<1>5. VerdictIsRight'
  <2>1. CASE \E m \in Names : m \notin executed /\ inDegree[m] > 0
    <3>1. verdict' = "circular" /\ executed' = executed
      BY <2>1
    <3>2. Stuck # {}
      BY <1>2, <2>1
    <3> QED  BY <1>1, <1>2, <1>4, <3>1, <3>2 DEF VerdictIsRight
  <2>2. CASE ~ \E m \in Names : m \notin executed /\ inDegree[m] > 0
    <3>1. executed = Names /\ Stuck = {}
      BY <1>2, <2>2
    <3>2. verdict' = "completed" \/ (verdict' = "cancelled" /\ ctxDone')
      BY <2>2
    <3> QED  BY <1>1, <1>2, <1>3, <1>4, <3>1, <3>2 DEF VerdictIsRight
  <2> QED  BY <2>1, <2>2
<1>6. verdict' \in {"completed", "circular", "cancelled"}
  OBVIOUS
<1> QED  BY <1>5, <1>6, EndKeeps

LEMMA RefusedKeeps == IInv /\ (FlowRefused \/ LoadFails \/ FlowCancelled) => IInv'
<1> SUFFICES ASSUME IInv, FlowRefused \/ LoadFails \/ FlowCancelled PROVE IInv'
  OBVIOUS
<1>0. results' = results /\ \A i \in DOMAIN results : results[i].status # "cancelled"
  BY DEF IInv, VerdictInv, VerdictIsRight, FlowRefused, LoadFails, FlowCancelled
<1>1. CASE FlowRefused \/ LoadFails
  BY <1>0, <1>1, EndKeeps DEF FlowRefused, LoadFails, EndsWith, VerdictIsRight
<1>2. CASE FlowCancelled
  BY <1>0, <1>2, EndKeeps DEF FlowCancelled, VerdictIsRight
<1> QED  BY <1>1, <1>2

(* The module that ran has returned.                                        *)
LEMMA ReturnKeeps == IInv /\ (ModuleEnds \/ ModuleCancelled \/ ModuleFails) => IInv'
<1> SUFFICES ASSUME IInv, ModuleEnds \/ ModuleCancelled \/ ModuleFails PROVE IInv'
  OBVIOUS
<1>1. CASE ModuleEnds
  <2>1. modStatus \in Statuses /\ modStatus # "cancelled"
    BY <1>1 DEF ModuleEnds, Returned, IInv, ModuleInv, Statuses
  <2> QED  BY <1>1, <2>1, DoneKeeps DEF ModuleEnds, Returned
<1>2. CASE ModuleCancelled
  <2>1. /\ flowPc = "module" /\ flow' = flow /\ Record(entry, "cancelled")
        /\ verdict' = "cancelled" /\ "cancelled" \in Statuses
    BY <1>2 DEF ModuleCancelled, Returned, EndsWith, fixed, Statuses
  <2>2. VerdictIsRight'
    BY <2>1, CancelledIsLast DEF VerdictIsRight
  <2> QED
    BY <1>2, <2>2, EndKeeps DEF ModuleCancelled, Returned, EndsWith, Statuses
<1>3. CASE ModuleFails
  <2>1. CASE flow[entry].aborts
    <3>1. /\ flowPc = "module" /\ Record(entry, "failed") /\ EndsWith("failed")
          /\ UNCHANGED <<fixed, ctxDone, loopVars>>
      BY <1>3, <2>1 DEF ModuleFails, Returned
    <3>2. \A i \in DOMAIN results' : results'[i].status # "cancelled"
      BY <3>1, CancelledIsLast DEF Statuses, fixed
    <3> QED  BY <3>1, <3>2, EndKeeps DEF EndsWith, VerdictIsRight, Statuses
  <2>2. CASE ~ flow[entry].aborts
    BY <1>3, <2>2, DoneKeeps DEF ModuleFails, Returned, Statuses
  <2> QED  BY <2>1, <2>2
<1> QED  BY <1>1, <1>2, <1>3

(* The flow itself does not move: a module begins or runs, or the context   *)
(* is cancelled.                                                            *)
LEMMA FlowWaits ==
  ASSUME IInv, LoopInv', flowPc' = "module" /\ loopPc' = "off" => modStatus' # "none",
         UNCHANGED <<fixed, inDegree, ready, executed, results, entry, verdict>>,
         flowPc' = flowPc \/ (flowPc = "popped" /\ flowPc' = "module"),
         ctxDone => ctxDone'
  PROVE  IInv'
<1> USE DEF fixed
<1>1. Names' = Names /\ Stuck' = Stuck /\ \A m : Left(m)' = Left(m)
  BY FlowStays DEF Left, To
<1>2. TypeOK'
  BY <1>1 DEF IInv, TypeOK, LoopInv
<1>3. Recorded' = Recorded
  BY DEF Recorded
<1>4. (DegreeInv /\ QueueInv /\ EntryInv)'
  BY <1>1 DEF IInv, DegreeInv, QueueInv, Chosen, EntryInv, Running
<1>5. ResultsInv' /\ ExecutedInv' /\ ModuleInv'
  BY <1>1, <1>3 DEF IInv, ResultsInv, ExecutedInv, ModuleInv, LoopInv
<1>6. VerdictInv'
  BY <1>1, <1>3 DEF IInv, VerdictInv, VerdictIsRight
<1> QED  BY <1>2, <1>4, <1>5, <1>6 DEF IInv

LEMMA WaitKeeps == IInv /\ (ExecuteModule \/ RunsModule \/ Cancel \/ UNCHANGED vars) => IInv'
<1> SUFFICES ASSUME IInv, ExecuteModule \/ RunsModule \/ Cancel \/ UNCHANGED vars PROVE IInv'
  OBVIOUS
<1>0. LoopInv /\ (flowPc = "module" /\ loopPc = "off" => modStatus # "none")
  BY LoopOfFlow DEF IInv, ModuleInv
<1>1. CASE ExecuteModule
  <2>1. LoopInv' /\ loopPc' = "setup"
    BY <1>0, <1>1 DEF ExecuteModule, EnterModule, fixed, LoopInv, StepLoopTypeOK
  <2> QED  BY <1>1, <2>1, FlowWaits DEF ExecuteModule
<1>2. CASE RunsModule
  <2>1. LoopInv' /\ (loopPc' = "off" => modStatus' # "none")
    BY <1>0, <1>2, LoopKeeps DEF RunsModule, fixed
  <2>2. ctxDone' = ctxDone
    BY <1>2
    DEF RunsModule, LoopStep, SetUp, LoopCancelled, BeginStep, LoopEnds, StepSkipped,
        StepSkipsModule, StepFails, StepSucceeds
  <2> QED  BY <1>2, <2>1, <2>2, FlowWaits DEF RunsModule, flowVars
<1>3. CASE Cancel
  <2>1. ctxDone' = TRUE /\ ctxDone' \in BOOLEAN
    BY <1>3, Zenon DEF Cancel, CancelContext
  <2>2. LoopInv' /\ UNCHANGED loopVars
    BY <1>0, <1>3, <2>1 DEF Cancel, CancelContext, fixed, loopVars, LoopInv, StepLoopTypeOK
  <2> QED  BY <1>0, <1>3, <2>1, <2>2, FlowWaits DEF Cancel, flowVars, loopVars
<1>4. CASE UNCHANGED vars
  <2>1. LoopInv'
    BY <1>0, <1>4 DEF vars, loopVars, LoopInv, StepLoopTypeOK
  <2> QED  BY <1>0, <1>4, <2>1, FlowWaits DEF vars, fixed, flowVars, loopVars
<1> QED  BY <1>1, <1>2, <1>3, <1>4

LEMMA NextIInv == IInv /\ [Next]_vars => IInv'
<1> SUFFICES ASSUME IInv, [Next]_vars PROVE IInv'
  OBVIOUS
<1>1. CASE SkipModule
  BY <1>1, DoneKeeps DEF SkipModule, Statuses
<1>2. CASE FlowRefused \/ LoadFails \/ FlowCancelled
  BY <1>2, RefusedKeeps
<1>3. CASE BuildDependencyGraph \/ PopReady \/ FlowEnds
  BY <1>3, BuildKeeps, PopKeeps, FlowEndsKeeps
<1>4. CASE ModuleEnds \/ ModuleCancelled \/ ModuleFails
  BY <1>4, ReturnKeeps
<1>5. CASE ExecuteModule \/ RunsModule \/ Cancel \/ UNCHANGED vars
  BY <1>5, WaitKeeps
<1> QED  BY <1>1, <1>2, <1>3, <1>4, <1>5 DEF Next, Step

LEMMA Invariance == Spec => []IInv
BY InitIInv, NextIInv, PTL DEF Spec
-----------------------------------------------------------------------------
(* The type invariant of a flow and of the module it runs.                  *)
THEOREM TypeCorrect == Spec => []TypeOK
<1>1. IInv => TypeOK
  BY DEF IInv
<1> QED  BY Invariance, <1>1, PTL

(* A flow is called circular only when some names can never run and all the *)
(* others have been dealt with, completed only with a result for every      *)
(* name, and cancelled only with its context or when its last module        *)
(* returned a context's error, which then ends it (executor.go:2178,        *)
(* :2267-2300).                                                             *)
THEOREM VerdictRight == Spec => []VerdictIsRight
<1>1. IInv => VerdictIsRight
  BY DEF IInv, VerdictInv
<1> QED  BY Invariance, <1>1, PTL
-----------------------------------------------------------------------------
(* The refinement of FlowOrder.                                             *)

Name == flow[entry].name

(* The status of a name is that of its one result.                          *)
LEMMA StatusIsRecorded ==
  ASSUME \A i, j \in DOMAIN results :
           flow[results[i].entry].name = flow[results[j].entry].name => i = j,
         NEW i \in DOMAIN results
  PROVE  StatusOf(flow[results[i].entry].name) = results[i].status
<1> DEFINE m == flow[results[i].entry].name
<1>1. m \in Recorded
  BY DEF Recorded
<1>2. (CHOOSE j \in DOMAIN results : flow[results[j].entry].name = m) = i
  OBVIOUS
<1> QED  BY <1>1, <1>2 DEF StatusOf

(* What a name's status says while the flow runs.                           *)
LEMMA StatusFacts ==
  ASSUME IInv, flowPc # "end"
  PROVE  /\ \A m \in executed : Status[m] \in Statuses
         /\ \A m \in Names \ executed : Status[m] \in {"pending", "running"}
         /\ \A m \in Names : Status[m] = "running" <=> flowPc = "module" /\ m = Name
<1>1. Recorded = executed /\ executed \subseteq Names
  BY DEF IInv, TypeOK, ResultsInv
<1>2. ASSUME NEW m \in executed PROVE Status[m] \in Statuses
  <2>1. PICK i \in DOMAIN results : flow[results[i].entry].name = m
    BY <1>1 DEF Recorded
  <2>2. StatusOf(m) = results[i].status
    BY <2>1, StatusIsRecorded DEF IInv, ResultsInv
  <2> DEFINE R == [entry : DOMAIN flow, status : Statuses]
  <2>3. results \in Seq(R) /\ \A r \in R : r.status \in Statuses
    BY DEF IInv, TypeOK, Statuses
  <2> HIDE DEF R
  <2>4. results[i].status \in Statuses
    BY <2>3
  <2> QED  BY <1>1, <2>2, <2>4 DEF Status
<1>3. ASSUME NEW m \in Names \ executed
      PROVE  Status[m] = IF flowPc = "module" /\ Name = m THEN "running" ELSE "pending"
  BY <1>1 DEF Status, StatusOf, Name
<1>4. flowPc = "module" => Name \notin executed
  BY DEF IInv, EntryInv, Name
<1>5. "running" \notin Statuses
  BY DEF Statuses
<1> QED  BY <1>1, <1>2, <1>3, <1>4, <1>5

LEMMA StatusStays ==
  ASSUME UNCHANGED <<flow, results>>,
         \/ flowPc # "module" /\ flowPc' # "module"
         \/ flowPc = "module" /\ flowPc' = "module" /\ entry' = entry
  PROVE  Status' = Status
<1>1. Recorded' = Recorded /\ Names' = Names
  BY DEF Recorded, Names
<1>2. ASSUME NEW m PROVE StatusOf(m)' = StatusOf(m)
  BY <1>1 DEF StatusOf
<1> QED  BY <1>1, <1>2 DEF Status

(* A result settles the status of its name.                                 *)
LEMMA StatusSettles ==
  ASSUME IInv, flowPc \in {"popped", "module"}, flowPc' # "module", flow' = flow,
         NEW s \in Statuses, Record(entry, s)
  PROVE  Status' = [Status EXCEPT ![Name] = s]
<1>1. /\ results' \in Seq([entry : DOMAIN flow, status : Statuses])
      /\ Len(results') = Len(results) + 1 /\ Len(results) \in Nat
      /\ DOMAIN results = 1 .. Len(results) /\ DOMAIN results' = 1 .. Len(results')
      /\ \A i \in DOMAIN results : results'[i] = results[i]
      /\ results'[Len(results')] = [entry |-> entry, status |-> s]
      /\ \A i, j \in DOMAIN results' :
           flow[results'[i].entry].name = flow[results'[j].entry].name => i = j
      /\ Recorded' = Recorded \cup {Name}
  BY OneResultMore DEF Name
<1>2. Names' = Names /\ Name \in Names \ executed /\ Recorded = executed
  BY FlowStays DEF IInv, EntryInv, ResultsInv, Name, Names
<1>3. ASSUME NEW x \in Names, x = Name PROVE StatusOf(x)' = s
  <2> DEFINE n == Len(results')
  <2>1. n \in DOMAIN results' /\ flow[results'[n].entry].name = x
    BY <1>1, <1>3 DEF Name
  <2>2. (CHOOSE j \in DOMAIN results' : flow'[results'[j].entry].name = x) = n
    BY <1>1, <2>1
  <2>3. x \in Recorded'
    BY <1>1, <1>3
  <2>4. StatusOf(x)' = results'[n].status
    BY <2>2, <2>3 DEF StatusOf
  <2> QED  BY <1>1, <2>4
<1>4. ASSUME NEW x \in Names, x # Name PROVE StatusOf(x)' = StatusOf(x)
  <2>1. CASE x \in Recorded
    <3>1. PICK i \in DOMAIN results : flow[results[i].entry].name = x
      BY <2>1 DEF Recorded
    <3>2. StatusOf(x) = results[i].status
      BY <3>1, StatusIsRecorded DEF IInv, ResultsInv
    <3>3. i \in DOMAIN results' /\ flow[results'[i].entry].name = x
      BY <1>1, <3>1
    <3>4. (CHOOSE j \in DOMAIN results' : flow'[results'[j].entry].name = x) = i
      BY <1>1, <3>3
    <3>5. x \in Recorded'
      BY <1>1, <2>1
    <3> QED  BY <1>1, <3>2, <3>4, <3>5 DEF StatusOf
  <2>2. CASE x \notin Recorded
    BY <1>1, <1>4, <2>2 DEF StatusOf, Name
  <2> QED  BY <2>1, <2>2
<1>5. /\ Status \in [Names -> {Status[x] : x \in Names}] /\ DOMAIN Status' = Names
      /\ \A x \in Names : Status[x] = StatusOf(x) /\ Status'[x] = StatusOf(x)'
  BY <1>2 DEF Status
<1> QED  BY <1>2, <1>3, <1>4, <1>5 DEF Status

(* What FlowOrder looks at.                                                 *)
LEMMA OrderTerms ==
  /\ Order!Listed = Names /\ Order!Ended = Statuses
  /\ \A m \in Names : Depends[m] = Deps(m)
BY DEF Order!Listed, Order!Ended, Depends, Statuses

LEMMA FlowKept ==
  ASSUME flow' = flow
  PROVE  Depends' = Depends
BY FlowStays DEF Depends

(* The entry that was popped may run.                                       *)
LEMMA PoppedMayRun ==
  ASSUME IInv, flowPc = "popped"
  PROVE  Name \in Names /\ Order!MayRun(Name)
<1>1. /\ Name \in Names \ executed /\ inDegree[Name] = 0 /\ Running /\ verdict = "running"
      /\ executed \subseteq Names
  BY DEF IInv, EntryInv, VerdictInv, TypeOK, Name, Names, Running
<1>2. \A d \in Deps(Name) : d \in executed
  BY <1>1, ZeroDegree DEF IInv, Left, Deps
<1>3. Status[Name] = "pending"
  BY <1>1, StatusFacts
<1>4. \A d \in executed : Status[d] \in Statuses
  BY StatusFacts
<1> QED  BY <1>1, <1>2, <1>3, <1>4, OrderTerms DEF Order!MayRun

(* It is recorded without having run, or has run.                           *)
LEMMA SkipRefines ==
  ASSUME IInv, SkipModule
  PROVE  Order!Next
<1>1. flow' = flow /\ flowPc = "popped" /\ flowPc' = "loop" /\ verdict' = verdict
      /\ Record(entry, "skipped")
  BY DEF SkipModule, Done, fixed
<1>2. Status' = [Status EXCEPT ![Name] = "skipped"]
  BY <1>1, StatusSettles DEF Statuses
<1>3. Name \in Names /\ Order!MayRun(Name) /\ Depends' = Depends
  BY <1>1, PoppedMayRun, FlowKept
<1>4. Order!Skip(Name)
  BY <1>1, <1>2, <1>3 DEF Order!Skip
<1> QED  BY <1>3, <1>4, OrderTerms DEF Order!Next

LEMMA BeginRefines ==
  ASSUME IInv, ExecuteModule
  PROVE  Order!Next
<1>1. /\ UNCHANGED <<flow, results, executed, entry, verdict>>
      /\ flowPc = "popped" /\ flowPc' = "module"
  BY DEF ExecuteModule, fixed
<1>2. Name \in Names /\ Order!MayRun(Name) /\ Depends' = Depends
  BY <1>1, PoppedMayRun, FlowKept
<1>3. \A x \in Names : Status[x] # "running"
  BY <1>1, StatusFacts
<1>4. Status' = [Status EXCEPT ![Name] = "running"]
  <2>1. Recorded' = Recorded /\ Names' = Names /\ Name' = Name
    BY <1>1 DEF Recorded, Names, Name
  <2>2. Name \notin Recorded
    BY <1>1 DEF IInv, EntryInv, ResultsInv, Name
  <2>3. ASSUME NEW x \in Names
        PROVE  StatusOf(x)' = IF x = Name THEN "running" ELSE StatusOf(x)
    BY <1>1, <2>1, <2>2 DEF StatusOf, Name
  <2> QED  BY <1>2, <2>1, <2>3 DEF Status
<1>5. Order!Begin(Name)
  BY <1>1, <1>2, <1>3, <1>4, OrderTerms DEF Order!Begin
<1> QED  BY <1>2, <1>5, OrderTerms DEF Order!Next

LEMMA SettleRefines ==
  ASSUME IInv, ModuleEnds \/ ModuleCancelled \/ ModuleFails
  PROVE  Order!Next
<1>1. /\ flow' = flow /\ flowPc = "module" /\ flowPc' # "module"
      /\ verdict' \in {verdict, "failed", "cancelled"}
  BY DEF ModuleEnds, ModuleCancelled, ModuleFails, Returned, Done, EndsWith, fixed
<1>2. PICK s \in Statuses : Record(entry, s)
  <2>1. CASE ModuleEnds
    BY <2>1
    DEF ModuleEnds, Returned, Done, IInv, ModuleInv, TypeOK, StepLoopTypeOK, Statuses
  <2>2. CASE ModuleCancelled \/ ModuleFails
    BY <2>2 DEF ModuleCancelled, ModuleFails, Done, Statuses
  <2> QED  BY <2>1, <2>2
<1>3. Status' = [Status EXCEPT ![Name] = s]
  BY <1>1, <1>2, StatusSettles
<1>4. Name \in Names /\ Status[Name] = "running" /\ verdict = "running"
  BY <1>1, StatusFacts DEF IInv, EntryInv, VerdictInv, Name, Names
<1>5. Order!Settle(Name)
  BY <1>1, <1>3, <1>4, FlowKept, OrderTerms DEF Order!Settle
<1> QED  BY <1>4, <1>5, OrderTerms DEF Order!Next

(* The flow ends for another reason than its module.                        *)
LEMMA EndRefines ==
  ASSUME IInv, FlowRefused \/ LoadFails \/ FlowCancelled \/ FlowEnds
  PROVE  Order!Next
<1>1. /\ UNCHANGED <<flow, results>> /\ flowPc \in {"new", "popped", "loop"}
      /\ flowPc' = "end"
  BY DEF FlowRefused, LoadFails, FlowCancelled, FlowEnds, EndsWith, fixed
<1>2. Status' = Status /\ Depends' = Depends /\ verdict = "running"
  BY <1>1, StatusStays, FlowKept DEF IInv, VerdictInv
<1>3. \A x \in Names : Status[x] # "running"
  BY <1>1, StatusFacts
<1>4. \/ verdict' \in {"failed", "cancelled"}
      \/ verdict' = "completed" /\ \A x \in Names : Status[x] \in Statuses
      \/ /\ verdict' = "circular" /\ \A x \in Names : ~ Order!MayRun(x)
         /\ \E x \in Names : Status[x] = "pending"
  <2>1. CASE FlowRefused \/ LoadFails \/ FlowCancelled
    BY <2>1 DEF FlowRefused, LoadFails, FlowCancelled, EndsWith
  <2>2. CASE FlowEnds
    <3>1. /\ \A x \in Names \ executed : inDegree[x] > 0 /\ Left(x) # {}
      BY <2>2, NothingReady DEF FlowEnds
    <3>2. /\ \A x \in executed : Status[x] \in Statuses
          /\ \A x \in Names \ executed : Status[x] = "pending"
          /\ "pending" \notin Statuses
      BY <1>1, <1>3, StatusFacts DEF Statuses
    <3>3. CASE \E x \in Names : x \notin executed /\ inDegree[x] > 0
      <4>1. verdict' = "circular" /\ \E x \in Names : Status[x] = "pending"
        BY <2>2, <3>2, <3>3 DEF FlowEnds, EndsWith
      <4>2. ASSUME NEW x \in Names PROVE ~ Order!MayRun(x)
        <5>1. x \in executed => Status[x] # "pending"
          BY <3>2
        <5>2. x \notin executed => \E d \in Deps(x) : d \notin executed
          BY <3>1 DEF Left, Deps
        <5> QED  BY <3>2, <5>1, <5>2, OrderTerms DEF Order!MayRun
      <4> QED  BY <4>1, <4>2
    <3>4. CASE ~ \E x \in Names : x \notin executed /\ inDegree[x] > 0
      BY <2>2, <3>1, <3>2, <3>4 DEF FlowEnds, EndsWith
    <3> QED  BY <3>3, <3>4
  <2> QED  BY <2>1, <2>2
<1>5. Order!End
  BY <1>2, <1>3, <1>4, OrderTerms DEF Order!End
<1> QED  BY <1>5 DEF Order!Next

LEMMA StepRefines == IInv /\ [Next]_vars => [Order!Next]_(Order!vars)
<1> SUFFICES ASSUME IInv, [Next]_vars PROVE [Order!Next]_(Order!vars)
  OBVIOUS
<1>1. CASE SkipModule \/ ExecuteModule
  BY <1>1, SkipRefines, BeginRefines
<1>2. CASE ModuleEnds \/ ModuleCancelled \/ ModuleFails
  BY <1>2, SettleRefines
<1>3. CASE FlowRefused \/ LoadFails \/ FlowCancelled \/ FlowEnds
  BY <1>3, EndRefines
<1>4. CASE BuildDependencyGraph \/ PopReady \/ RunsModule \/ Cancel \/ UNCHANGED vars
  <2>1. /\ UNCHANGED <<flow, results, verdict>>
        /\ \/ flowPc # "module" /\ flowPc' # "module"
           \/ flowPc = "module" /\ flowPc' = "module" /\ entry' = entry
    BY <1>4
    DEF BuildDependencyGraph, PopReady, RunsModule, Cancel, vars, fixed, flowVars
  <2>2. Status' = Status /\ Depends' = Depends
    BY <2>1, StatusStays, FlowKept
  <2> QED  BY <2>1, <2>2 DEF Order!vars
<1> QED  BY <1>1, <1>2, <1>3, <1>4 DEF Next, Step

(* Every run of ExecuteFlow is a run of FlowOrder: modules run one at a     *)
(* time, each once and after all it depends on (executor.go:2014-2265), and *)
(* the flow ends as it says only when the modules are where that requires.  *)
THEOREM Refinement == Spec => ImplementsFlowOrder
<1>1. Init => Order!Init
  <2> SUFFICES ASSUME Init PROVE Order!Init
    OBVIOUS
  <2>1. \A m \in Names : StatusOf(m) = "pending"
    BY DEF Init, FlowInit, StatusOf, Recorded
  <2> QED  BY <2>1, OrderTerms DEF Order!Init, Init, FlowInit, Status
<1> QED
  BY <1>1, StepRefines, Invariance, PTL DEF Spec, ImplementsFlowOrder, Order!Spec
=============================================================================

--------------------------- MODULE StepDAG_proof ---------------------------
(***************************************************************************)
(* Theorems about StepDAG, for every finite set of steps, every dependency *)
(* graph and every choice of the other constants.                          *)
(***************************************************************************)
EXTENDS StepDAG, TLAPS, FiniteSetTheorems, SequenceTheorems

-----------------------------------------------------------------------------
(* The inductive invariant.                                                 *)

Unsettled(s) == {d \in DependsOn[s] : outcome[d] \notin Settled}

(* A goroutine's stage fixes what is known of its step's outcome.           *)
StageInv ==
  \A s \in Step :
    /\ pc[s] = "idle" => outcome[s] \in {"none", "blocked"}
    /\ pc[s] \in {"spawned", "running"} => outcome[s] = "none"
    /\ pc[s] \in {"exiting", "exited"} =>
         outcome[s] \in {"ok", "failed", "skip", "cancelled"}

(* A queued step is queued once, has no goroutine and no outcome.           *)
QueueInv ==
  /\ Distinct(ready)
  /\ \A s \in Elems(ready) :
       /\ pc[s] = "idle"
       /\ outcome[s] = "none"
       /\ s # current

(* So is the step between its pop and its goroutine.                        *)
CurrentInv ==
  /\ mainPc # "acquire" => current = NoStep
  /\ mainPc = "acquire" =>
       /\ current \in Step
       /\ pc[current] = "idle"
       /\ outcome[current] = "none"
       /\ \A d \in DependsOn[current] : outcome[d] = "ok"

(* inDegree counts the unsettled dependencies, and a step leaves its        *)
(* initial place only when there are none.                                  *)
DegreeInv ==
  /\ \A s \in Step : inDegree[s] = Cardinality(Unsettled(s))
  /\ \A s \in Step :
       s \in Elems(ready) \/ s = current \/ pc[s] # "idle" \/ outcome[s] # "none"
         => Unsettled(s) = {}

(* The two maps, the counter and firstError restate the outcomes.           *)
MarksInv ==
  /\ failed = {s \in Step : outcome[s] \in {"failed", "blocked"}}
  /\ SkipCalled => executed = Step
  /\ ~SkipCalled =>
       /\ executed = {s \in Step : outcome[s] # "none"}
       /\ completedCount = Cardinality(executed)
  /\ \A s \in Step :
       outcome[s] = "blocked" => \E d \in DependsOn[s] : outcome[d] # "ok"

ErrorInv ==
  /\ firstError = "none" =>
       /\ ~SkipCalled
       /\ \A s \in Step : outcome[s] = "failed" => s \in ContinueOnError
  /\ firstError = "error" => \E s \in Step \ ContinueOnError : outcome[s] = "failed"
  /\ firstError = "skip" => SkipCalled

(* Where the main loop is after its last iteration.                         *)
ReturnInv ==
  /\ mainPc \in {"joining", "done"} => executed = Step
  /\ mainPc = "done" => \A s \in Step : pc[s] \in {"idle", "exited"}
  /\ returned = "no" <=> mainPc # "done"
  /\ mainPc = "done" =>
       returned = CASE firstError = "none"  -> "nil"
                    [] firstError = "skip"  -> "skipped"
                    [] firstError = "error" -> "failed"

IInv ==
  /\ TypeOK
  /\ StageInv
  /\ QueueInv
  /\ CurrentInv
  /\ DegreeInv
  /\ MarksInv
  /\ ErrorInv
  /\ ReturnInv
  /\ DependenciesFirst
-----------------------------------------------------------------------------
(* Facts about queues.                                                      *)

LEMMA OrdersAreQueues ==
  ASSUME NEW S \in SUBSET Step, NEW q \in Orders(S)
  PROVE  q \in Seq(Step) /\ Distinct(q) /\ Elems(q) \subseteq S
<1>1. IsFiniteSet(S) /\ Cardinality(S) \in Nat
  BY StepDAGAssumption, FS_Subset, FS_CardinalityType
<1>2. q \in [1 .. Cardinality(S) -> Step] /\ Distinct(q) /\ Elems(q) \subseteq S
  BY DEF Orders, Elems
<1>3. q \in Seq(Step)
  BY <1>1, <1>2, SeqDef
<1> QED
  BY <1>2, <1>3

LEMMA QueuesHoldSteps ==
  ASSUME NEW q \in Seq(Step)
  PROVE  Elems(q) \subseteq Step
BY LenProperties, ElementOfSeq DEF Elems

LEMMA ConcatQueues ==
  ASSUME NEW p \in Seq(Step), NEW q \in Seq(Step),
         Distinct(p), Distinct(q), Elems(p) \cap Elems(q) = {}
  PROVE  /\ p \o q \in Seq(Step)
         /\ Distinct(p \o q)
         /\ Elems(p \o q) \subseteq Elems(p) \cup Elems(q)
<1> DEFINE r == p \o q
<1>1. /\ r \in Seq(Step)
      /\ Len(r) = Len(p) + Len(q)
      /\ \A i \in 1 .. Len(p) + Len(q) :
           r[i] = IF i <= Len(p) THEN p[i] ELSE q[i - Len(p)]
  BY ConcatProperties
<1>2. /\ Len(p) \in Nat /\ DOMAIN p = 1 .. Len(p)
      /\ Len(q) \in Nat /\ DOMAIN q = 1 .. Len(q)
      /\ DOMAIN r = 1 .. Len(p) + Len(q)
  BY <1>1, LenProperties
<1> HIDE DEF r
<1>3. \A i \in DOMAIN r :
        (i \in DOMAIN p /\ r[i] = p[i])
        \/ (i - Len(p) \in DOMAIN q /\ r[i] = q[i - Len(p)])
  BY <1>1, <1>2
<1>4. Elems(r) \subseteq Elems(p) \cup Elems(q)
  BY <1>3 DEF Elems
<1>5. ASSUME NEW i \in DOMAIN r, NEW j \in DOMAIN r, r[i] = r[j]
      PROVE  i = j
  <2>1. CASE i <= Len(p) /\ j <= Len(p)
    <3>1. i \in DOMAIN p /\ j \in DOMAIN p /\ r[i] = p[i] /\ r[j] = p[j]
      BY <1>1, <1>2, <2>1
    <3> QED
      BY <1>5, <3>1 DEF Distinct
  <2>2. CASE i > Len(p) /\ j > Len(p)
    <3>1. /\ i - Len(p) \in DOMAIN q /\ r[i] = q[i - Len(p)]
          /\ j - Len(p) \in DOMAIN q /\ r[j] = q[j - Len(p)]
      BY <1>1, <1>2, <2>2
    <3>2. i - Len(p) = j - Len(p)
      BY <1>5, <3>1 DEF Distinct
    <3> QED
      BY <1>2, <3>2
  <2>3. CASE i <= Len(p) /\ j > Len(p)
    <3>1. /\ i \in DOMAIN p /\ r[i] = p[i]
          /\ j - Len(p) \in DOMAIN q /\ r[j] = q[j - Len(p)]
      BY <1>1, <1>2, <2>3
    <3> QED
      BY <1>5, <3>1 DEF Elems
  <2>4. CASE i > Len(p) /\ j <= Len(p)
    <3>1. /\ j \in DOMAIN p /\ r[j] = p[j]
          /\ i - Len(p) \in DOMAIN q /\ r[i] = q[i - Len(p)]
      BY <1>1, <1>2, <2>4
    <3> QED
      BY <1>5, <3>1 DEF Elems
  <2> QED
    BY <1>2, <2>1, <2>2, <2>3, <2>4
<1> QED
  BY <1>1, <1>4, <1>5 DEF r, Distinct

LEMMA PopQueue ==
  ASSUME NEW q \in Seq(Step), Distinct(q), q # <<>>
  PROVE  /\ Head(q) \in Elems(q) /\ Head(q) \in Step
         /\ Tail(q) \in Seq(Step)
         /\ Distinct(Tail(q))
         /\ Elems(Tail(q)) \subseteq Elems(q) \ {Head(q)}
<1>1. /\ Head(q) \in Step /\ Head(q) = q[1]
      /\ Tail(q) \in Seq(Step)
      /\ Len(Tail(q)) = Len(q) - 1
      /\ \A i \in 1 .. Len(Tail(q)) : Tail(q)[i] = q[i + 1]
  BY HeadTailProperties
<1>2. /\ Len(q) \in Nat \ {0} /\ DOMAIN q = 1 .. Len(q)
      /\ DOMAIN Tail(q) = 1 .. Len(q) - 1
  BY <1>1, LenProperties, EmptySeq
<1>3. Distinct(Tail(q))
  BY <1>1, <1>2 DEF Distinct
<1>4. Elems(Tail(q)) \subseteq Elems(q) \ {Head(q)}
  BY <1>1, <1>2 DEF Distinct, Elems
<1> QED
  BY <1>1, <1>2, <1>3, <1>4 DEF Elems
-----------------------------------------------------------------------------
(* Facts about the dependency counts.                                       *)

LEMMA CountOneMore ==
  ASSUME NEW S \in SUBSET Step, NEW s \in Step
  PROVE  /\ Cardinality(S) \in Nat
         /\ s \notin S => Cardinality(S \cup {s}) = Cardinality(S) + 1
<1>1. IsFiniteSet(S)
  BY StepDAGAssumption, FS_Subset
<1> QED
  BY <1>1, FS_AddElement, FS_CardinalityType

LEMMA UnsettledFinite ==
  ASSUME NEW s \in Step
  PROVE  /\ IsFiniteSet(Unsettled(s)) /\ Cardinality(Unsettled(s)) \in Nat
         /\ Cardinality(Unsettled(s)) = 0 <=> Unsettled(s) = {}
         /\ \A x : Cardinality(Unsettled(s)) = 1 /\ x \in Unsettled(s)
                     => Unsettled(s) = {x}
<1>1. Unsettled(s) \in SUBSET Step
  BY StepDAGAssumption DEF Unsettled
<1>2. IsFiniteSet(Unsettled(s)) /\ Cardinality(Unsettled(s)) \in Nat
  BY <1>1, StepDAGAssumption, FS_Subset, FS_CardinalityType
<1>3. Cardinality(Unsettled(s)) = 0 <=> Unsettled(s) = {}
  BY <1>2, FS_EmptySet
<1>4. Cardinality(Unsettled(s)) = 1 <=> \E x : Unsettled(s) = {x}
  BY <1>2, FS_Singleton
<1> QED
  BY <1>2, <1>3, <1>4

(* Settling s removes it from the unsettled sets of its dependents, and the *)
(* steps it queues had it as their last unsettled dependency.               *)
LEMMA UnblockSettles ==
  ASSUME TypeOK, DegreeInv,
         NEW s \in Step, outcome[s] \notin Settled,
         NEW out, out \in Settled,
         outcome' = [outcome EXCEPT ![s] = out],
         NEW rest \in Seq(Step), Distinct(rest), Elems(rest) \subseteq Elems(ready),
         NEW marked, Unblock(s, rest, marked)
  PROVE  /\ inDegree' \in [Step -> Nat]
         /\ \A d \in Step : inDegree'[d] = Cardinality(Unsettled(d)')
         /\ \A d \in Step : Unsettled(d)' = Unsettled(d) \ {s}
         /\ ready' \in Seq(Step)
         /\ Distinct(ready')
         /\ \A d \in Elems(ready') :
              \/ d \in Elems(rest)
              \/ d \in Step /\ Unsettled(d) = {s}
<1>1. \A d \in Step : Unsettled(d)' = Unsettled(d) \ {s}
  BY StepDAGAssumption DEF Unsettled, TypeOK
<1>2. \A d \in Step : s \in DependsOn[d] <=> s \in Unsettled(d)
  BY DEF Unsettled
<1>3. ASSUME NEW d \in Step
      PROVE  inDegree'[d] \in Nat /\ inDegree'[d] = Cardinality(Unsettled(d)')
  <2>1. inDegree'[d] = IF s \in DependsOn[d] THEN inDegree[d] - 1 ELSE inDegree[d]
    BY DEF Unblock
  <2>2. inDegree[d] = Cardinality(Unsettled(d))
    BY DEF DegreeInv
  <2>3. Cardinality(Unsettled(d) \ {s}) =
          IF s \in Unsettled(d) THEN Cardinality(Unsettled(d)) - 1
          ELSE Cardinality(Unsettled(d))
    BY UnsettledFinite, FS_RemoveElement
  <2>4. s \in Unsettled(d) => Cardinality(Unsettled(d)) # 0
    BY UnsettledFinite
  <2>5. Cardinality(Unsettled(d)') = Cardinality(Unsettled(d) \ {s})
    BY <1>1
  <2>6. Cardinality(Unsettled(d)) \in Nat
    BY UnsettledFinite
  <2> QED
    BY <1>2, <2>1, <2>2, <2>3, <2>4, <2>5, <2>6
<1>4. inDegree' \in [Step -> Nat]
  BY <1>3 DEF Unblock
<1> DEFINE freed == {d \in Step : s \in DependsOn[d] /\ inDegree[d] = 1 /\ d \notin marked}
<1>5. PICK q \in Orders(freed) : ready' = rest \o q
  BY DEF Unblock
<1>6. \A d \in freed : d \in Step /\ Unsettled(d) = {s}
  BY <1>2, UnsettledFinite DEF DegreeInv
<1>7. q \in Seq(Step) /\ Distinct(q) /\ Elems(q) \subseteq freed
  BY <1>5, OrdersAreQueues
<1>8. Elems(rest) \cap Elems(q) = {}
  BY <1>6, <1>7 DEF DegreeInv
<1> HIDE DEF freed
<1>9. /\ ready' \in Seq(Step)
      /\ Distinct(ready')
      /\ Elems(ready') \subseteq Elems(rest) \cup Elems(q)
  BY <1>5, <1>7, <1>8, ConcatQueues
<1> QED
  BY <1>1, <1>3, <1>4, <1>6, <1>7, <1>9

(* A step that settles nothing leaves every unsettled set as it was.        *)
LEMMA UnsettledKept ==
  ASSUME TypeOK, NEW s \in Step, outcome[s] \notin Settled,
         NEW out, out \notin Settled,
         outcome' = [outcome EXCEPT ![s] = out],
         NEW d \in Step
  PROVE  Unsettled(d)' = Unsettled(d)
BY StepDAGAssumption DEF Unsettled, TypeOK
-----------------------------------------------------------------------------
(* The invariant holds initially and every step preserves it.               *)

LEMMA InitIInv == Init => IInv
<1> SUFFICES ASSUME Init PROVE IInv
  OBVIOUS
<1>1. /\ ready \in Seq(Step) /\ Distinct(ready)
      /\ \A s \in Elems(ready) : s \in Step /\ DependsOn[s] = {}
  <2>1. {s \in Step : DependsOn[s] = {}} \in SUBSET Step
    OBVIOUS
  <2> QED
    BY <2>1, OrdersAreQueues DEF Init, Degree
<1>2. \A s \in Step : Unsettled(s) = DependsOn[s]
  BY StepDAGAssumption DEF Init, Degree, Unsettled, Settled
<1>3. inDegree \in [Step -> Nat]
  BY <1>2, UnsettledFinite DEF Init, Degree
<1>4. TypeOK
  BY <1>1, <1>3 DEF Init, Degree, TypeOK
<1>5. StageInv /\ CurrentInv /\ DependenciesFirst
  BY DEF Init, Degree, StageInv, CurrentInv, DependenciesFirst
<1>6. QueueInv
  BY <1>1, StepDAGAssumption DEF Init, Degree, QueueInv
<1>7. DegreeInv
  BY <1>1, <1>2, StepDAGAssumption DEF Init, Degree, DegreeInv
<1>8. MarksInv
  BY FS_EmptySet DEF Init, Degree, MarksInv, SkipCalled
<1>9. ErrorInv /\ ReturnInv
  BY DEF Init, Degree, ErrorInv, ReturnInv, SkipCalled
<1> QED
  BY <1>4, <1>5, <1>6, <1>7, <1>8, <1>9 DEF IInv

(* Unsettled depends on outcome alone.                                      *)
LEMMA UnsettledFrame ==
  ASSUME outcome' = outcome, NEW s
  PROVE  Unsettled(s)' = Unsettled(s)
BY DEF Unsettled

LEMMA MainBreakIInv == IInv /\ MainBreak => IInv'
<1> SUFFICES ASSUME IInv, MainBreak PROVE IInv'
  OBVIOUS
<1> USE DEF IInv, MainBreak, graph, marks
<1>1. executed = Step
  <2>1. CASE SkipCalled
    BY <2>1 DEF MarksInv
  <2>2. CASE ~SkipCalled
    BY <2>2, StepDAGAssumption, FS_Subset DEF MarksInv, TypeOK, totalSteps
  <2> QED
    BY <2>1, <2>2
<1>2. TypeOK' /\ StageInv' /\ QueueInv' /\ CurrentInv'
  BY DEF TypeOK, StageInv, QueueInv, CurrentInv
<1>3. DegreeInv'
  BY UnsettledFrame DEF DegreeInv
<1>4. MarksInv' /\ ErrorInv' /\ DependenciesFirst'
  BY DEF MarksInv, ErrorInv, SkipCalled, DependenciesFirst
<1>5. ReturnInv'
  BY <1>1 DEF ReturnInv
<1> QED
  BY <1>2, <1>3, <1>4, <1>5

LEMMA MainWaitIInv == IInv /\ MainWait => IInv'
<1> SUFFICES ASSUME IInv, MainWait PROVE IInv'
  OBVIOUS
<1> USE DEF IInv, MainWait, graph, marks
<1>1. TypeOK' /\ StageInv' /\ QueueInv' /\ CurrentInv'
  BY DEF TypeOK, StageInv, QueueInv, CurrentInv
<1>2. DegreeInv'
  BY UnsettledFrame DEF DegreeInv
<1>3. MarksInv' /\ ErrorInv' /\ DependenciesFirst' /\ ReturnInv'
  BY DEF MarksInv, ErrorInv, SkipCalled, DependenciesFirst, ReturnInv
<1> QED
  BY <1>1, <1>2, <1>3

(* Popping the queue's head, for whatever is then done with it.             *)
LEMMA PopFacts ==
  ASSUME TypeOK, QueueInv, ready # <<>>
  PROVE  /\ Head(ready) \in Step /\ Head(ready) \in Elems(ready)
         /\ Tail(ready) \in Seq(Step) /\ Distinct(Tail(ready))
         /\ Elems(Tail(ready)) \subseteq Elems(ready) \ {Head(ready)}
BY PopQueue DEF TypeOK, QueueInv

LEMMA MainDiscardIInv == IInv /\ MainDiscard => IInv'
<1> SUFFICES ASSUME IInv, MainDiscard PROVE IInv'
  OBVIOUS
<1> USE DEF IInv, MainDiscard, Pop, main, marks
<1>1. TypeOK' /\ StageInv' /\ QueueInv' /\ CurrentInv'
  BY PopFacts DEF TypeOK, StageInv, QueueInv, CurrentInv
<1>2. DegreeInv'
  BY UnsettledFrame, PopFacts DEF DegreeInv
<1>3. MarksInv' /\ ErrorInv' /\ DependenciesFirst' /\ ReturnInv'
  BY DEF MarksInv, ErrorInv, SkipCalled, DependenciesFirst, ReturnInv
<1> QED
  BY <1>1, <1>2, <1>3

LEMMA MainPopIInv == IInv /\ MainPop => IInv'
<1> SUFFICES ASSUME IInv, MainPop PROVE IInv'
  OBVIOUS
<1> USE DEF IInv, MainPop, Pop, marks
<1>1. \A d \in DependsOn[Head(ready)] : outcome[d] = "ok"
  <2>1. Unsettled(Head(ready)) = {}
    BY PopFacts DEF DegreeInv
  <2>2. \A d \in DependsOn[Head(ready)] : outcome[d] \in Settled /\ d \in Step
    BY <2>1, PopFacts, StepDAGAssumption DEF Unsettled
  <2> QED
    BY <2>2 DEF MarksInv, Settled
<1>2. TypeOK' /\ StageInv' /\ QueueInv'
  BY PopFacts DEF TypeOK, StageInv, QueueInv
<1>3. CurrentInv'
  BY <1>1, PopFacts DEF CurrentInv, QueueInv
<1>4. DegreeInv'
  BY UnsettledFrame, PopFacts DEF DegreeInv
<1>5. MarksInv' /\ ErrorInv' /\ DependenciesFirst' /\ ReturnInv'
  BY DEF MarksInv, ErrorInv, SkipCalled, DependenciesFirst, ReturnInv
<1> QED
  BY <1>2, <1>3, <1>4, <1>5

LEMMA MainSpawnIInv == IInv /\ MainSpawn => IInv'
<1> SUFFICES ASSUME IInv, MainSpawn PROVE IInv'
  OBVIOUS
<1> USE DEF IInv, MainSpawn, graph, marks
<1>1. TypeOK' /\ StageInv' /\ CurrentInv'
  BY DEF TypeOK, StageInv, CurrentInv, Holding
<1>2. QueueInv'
  BY StepDAGAssumption DEF QueueInv, CurrentInv, TypeOK, Elems
<1>3. DegreeInv'
  BY UnsettledFrame, StepDAGAssumption DEF DegreeInv, CurrentInv, TypeOK
<1>4. DependenciesFirst'
  BY StepDAGAssumption DEF DependenciesFirst, CurrentInv, TypeOK
<1>5. MarksInv' /\ ErrorInv' /\ ReturnInv'
  BY DEF MarksInv, ErrorInv, SkipCalled, ReturnInv
<1> QED
  BY <1>1, <1>2, <1>3, <1>4, <1>5

LEMMA MainReturnIInv == IInv /\ MainReturn => IInv'
<1> SUFFICES ASSUME IInv, MainReturn PROVE IInv'
  OBVIOUS
<1> USE DEF IInv, MainReturn, Joined, graph, marks
<1>1. returned' \in {"nil", "skipped", "failed"}
  BY DEF TypeOK
<1>2. TypeOK' /\ StageInv' /\ QueueInv' /\ CurrentInv'
  BY <1>1 DEF TypeOK, StageInv, QueueInv, CurrentInv
<1>3. DegreeInv'
  BY UnsettledFrame DEF DegreeInv
<1>4. MarksInv' /\ ErrorInv' /\ DependenciesFirst'
  BY DEF MarksInv, ErrorInv, SkipCalled, DependenciesFirst
<1>5. ReturnInv'
  BY <1>1 DEF ReturnInv
<1> QED
  BY <1>2, <1>3, <1>4, <1>5

LEMMA MainBlockIInv == IInv /\ MainBlock => IInv'
<1> SUFFICES ASSUME IInv, MainBlock PROVE IInv'
  OBVIOUS
<1> DEFINE s == Head(ready)
<1> USE DEF IInv
<1>1. /\ s \in Step /\ s \in Elems(ready) /\ pc[s] = "idle" /\ outcome[s] = "none"
      /\ s # current
      /\ Tail(ready) \in Seq(Step) /\ Distinct(Tail(ready))
      /\ Elems(Tail(ready)) \subseteq Elems(ready) \ {s}
  BY PopFacts DEF MainBlock, Pop, QueueInv
<1>2. /\ mainPc = "loop" /\ s \notin executed
      /\ executed' = executed \cup {s} /\ failed' = failed \cup {s}
      /\ completedCount' = completedCount + 1
      /\ outcome' = [outcome EXCEPT ![s] = "blocked"]
      /\ Unblock(s, Tail(ready), {})
      /\ UNCHANGED <<firstError, ctxDone, mainPc, current, pc, returned>>
      /\ \E d \in DependsOn[s] : d \in failed
  BY DEF MainBlock, Pop, main
<1> HIDE DEF s
<1>3. /\ inDegree' \in [Step -> Nat]
      /\ \A d \in Step : inDegree'[d] = Cardinality(Unsettled(d)')
      /\ \A d \in Step : Unsettled(d)' = Unsettled(d) \ {s}
      /\ ready' \in Seq(Step)
      /\ Distinct(ready')
      /\ \A d \in Elems(ready') :
           d \in Elems(Tail(ready)) \/ (d \in Step /\ Unsettled(d) = {s})
  BY <1>1, <1>2, UnblockSettles DEF Settled
<1>4. ~SkipCalled /\ ~SkipCalled'
  BY <1>1, <1>2 DEF MarksInv, SkipCalled, TypeOK
<1>5. TypeOK' /\ StageInv' /\ CurrentInv'
  <2>1. outcome' \in [Step -> {"none", "skip", "cancelled"} \cup Settled]
    BY <1>1, <1>2 DEF TypeOK, Settled
  <2>2. TypeOK'
    BY <1>1, <1>2, <1>3, <2>1 DEF TypeOK
  <2>3. StageInv'
    BY <1>1, <1>2 DEF TypeOK, StageInv
  <2> QED
    BY <1>2, <2>2, <2>3 DEF CurrentInv
<1>6. Unsettled(s) = {}
  BY <1>1 DEF DegreeInv
<1>7. QueueInv'
  <2> SUFFICES ASSUME NEW d \in Elems(ready')
               PROVE  pc'[d] = "idle" /\ outcome'[d] = "none" /\ d # current'
    BY <1>3 DEF QueueInv
  <2>1. CASE d \in Elems(Tail(ready))
    BY <1>1, <1>2, <2>1, QueuesHoldSteps DEF QueueInv, TypeOK
  <2>2. CASE d \in Step /\ Unsettled(d) = {s}
    BY <1>1, <1>2, <1>6, <2>2 DEF DegreeInv, TypeOK
  <2> QED
    BY <1>3, <2>1, <2>2
<1>8. DegreeInv'
  BY <1>1, <1>2, <1>3, <1>6 DEF DegreeInv, TypeOK
<1>9. MarksInv'
  <2>1. failed' = {x \in Step : outcome'[x] \in {"failed", "blocked"}}
    BY <1>1, <1>2 DEF MarksInv, TypeOK
  <2>2. executed' = {x \in Step : outcome'[x] # "none"}
    BY <1>1, <1>2, <1>4 DEF MarksInv, TypeOK
  <2>3. completedCount' = Cardinality(executed')
    BY <1>1, <1>2, <1>4, CountOneMore DEF MarksInv, TypeOK
  <2>4. \A x \in Step :
          outcome'[x] = "blocked" => \E d \in DependsOn[x] : outcome'[d] # "ok"
    BY <1>1, <1>2, StepDAGAssumption DEF MarksInv, TypeOK
  <2> QED
    BY <1>4, <2>1, <2>2, <2>3, <2>4 DEF MarksInv
<1>10. ErrorInv'
  BY <1>1, <1>2, <1>4 DEF ErrorInv, TypeOK
<1>11. ReturnInv'
  BY <1>2 DEF ReturnInv
<1>12. DependenciesFirst'
  BY <1>1, <1>2, StepDAGAssumption DEF DependenciesFirst, TypeOK
<1> QED
  BY <1>5, <1>7, <1>8, <1>9, <1>10, <1>11, <1>12

(* The goroutines.                                                          *)

LEMMA QuietStepIInv ==
  ASSUME NEW s \in Step, IInv, StartStep(s) \/ ExitStep(s)
  PROVE  IInv'
<1> USE DEF IInv
<1>0. /\ \/ pc[s] = "spawned" /\ pc' = [pc EXCEPT ![s] = "running"]
         \/ pc[s] = "exiting" /\ pc' = [pc EXCEPT ![s] = "exited"]
      /\ UNCHANGED <<graph, marks, firstError, ctxDone, main, outcome, returned>>
  BY DEF StartStep, ExitStep
<1> USE DEF graph, marks, main
<1>1. TypeOK' /\ StageInv' /\ CurrentInv'
  <2>1. pc' \in [Step -> {"idle", "exited"} \cup Holding]
    BY <1>0 DEF TypeOK, Holding
  <2>2. \A x \in Step : x # s => pc'[x] = pc[x]
    BY <1>0 DEF TypeOK
  <2>3. s # current
    BY <1>0, StepDAGAssumption DEF CurrentInv
  <2> QED
    BY <1>0, <2>1, <2>2, <2>3, StepDAGAssumption DEF TypeOK, StageInv, CurrentInv
<1>2. QueueInv'
  BY <1>0, QueuesHoldSteps DEF QueueInv, TypeOK
<1>3. DegreeInv'
  BY <1>0, UnsettledFrame, StepDAGAssumption DEF DegreeInv, TypeOK
<1>4. DependenciesFirst'
  BY <1>0, StepDAGAssumption DEF DependenciesFirst, TypeOK
<1>5. MarksInv' /\ ErrorInv' /\ ReturnInv'
  BY <1>0 DEF MarksInv, ErrorInv, SkipCalled, ReturnInv, TypeOK
<1> QED
  BY <1>1, <1>2, <1>3, <1>4, <1>5

LEMMA CancelIInv == IInv /\ Cancel => IInv'
<1> SUFFICES ASSUME IInv, Cancel PROVE IInv'
  OBVIOUS
<1> USE DEF IInv, Cancel, graph, marks, main
<1>1. TypeOK' /\ StageInv' /\ CurrentInv' /\ QueueInv'
  BY DEF TypeOK, StageInv, CurrentInv, QueueInv
<1>2. DegreeInv'
  BY UnsettledFrame DEF DegreeInv
<1>3. MarksInv' /\ ErrorInv' /\ ReturnInv' /\ DependenciesFirst'
  BY DEF MarksInv, ErrorInv, SkipCalled, ReturnInv, DependenciesFirst
<1> QED
  BY <1>1, <1>2, <1>3

(* What a goroutine that records outcome out for s leaves true, whatever    *)
(* else it does: only s's own outcome and stage change.                     *)
LEMMA RecordOutcome ==
  ASSUME IInv, NEW s \in Step, pc[s] \in {"spawned", "running"},
         NEW out \in {"ok", "failed", "skip", "cancelled"},
         pc' = [pc EXCEPT ![s] = "exiting"],
         outcome' = [outcome EXCEPT ![s] = out],
         Signal, UNCHANGED <<current, returned>>
  PROVE  /\ pc' \in [Step -> {"idle", "exited"} \cup Holding]
         /\ outcome' \in [Step -> {"none", "skip", "cancelled"} \cup Settled]
         /\ mainPc' \in {"loop", "waiting", "acquire", "joining", "done"}
         /\ mainPc' = mainPc \/ (mainPc = "waiting" /\ mainPc' = "loop")
         /\ outcome[s] = "none" /\ s \notin Elems(ready) /\ s # current
         /\ Unsettled(s) = {}
         /\ StageInv' /\ CurrentInv' /\ DependenciesFirst'
         /\ mainPc # "done"
<1> USE DEF IInv
<1>1. /\ pc' \in [Step -> {"idle", "exited"} \cup Holding]
      /\ outcome' \in [Step -> {"none", "skip", "cancelled"} \cup Settled]
  BY DEF TypeOK, Holding, Settled
<1>2. /\ mainPc' \in {"loop", "waiting", "acquire", "joining", "done"}
      /\ mainPc' = mainPc \/ (mainPc = "waiting" /\ mainPc' = "loop")
  BY DEF TypeOK, Signal
<1>3. outcome[s] = "none" /\ s \notin Elems(ready) /\ s # current
  BY StepDAGAssumption DEF StageInv, QueueInv, CurrentInv
<1>4. Unsettled(s) = {}
  BY DEF DegreeInv
<1>5. StageInv'
  BY DEF StageInv, TypeOK
<1>6. CurrentInv'
  BY <1>2, <1>3, StepDAGAssumption DEF CurrentInv, TypeOK
<1>7. DependenciesFirst'
  <2> SUFFICES ASSUME NEW x \in Step, pc'[x] # "idle", NEW d \in DependsOn[x]
               PROVE  outcome'[d] = "ok"
    BY DEF DependenciesFirst
  <2>1. pc[x] # "idle" /\ d \in Step
    BY StepDAGAssumption DEF TypeOK
  <2>2. outcome[d] = "ok"
    BY <2>1 DEF DependenciesFirst
  <2> QED
    BY <1>3, <2>1, <2>2 DEF TypeOK
<1>8. mainPc # "done"
  BY DEF ReturnInv
<1> QED
  BY <1>1, <1>2, <1>3, <1>4, <1>5, <1>6, <1>7, <1>8

(* A step that settles nothing changes none of the degrees.                 *)
LEMMA KeepDegrees ==
  ASSUME IInv, NEW s \in Step, pc[s] \in {"spawned", "running"},
         outcome[s] = "none", s \notin Elems(ready),
         NEW out \in {"skip", "cancelled"},
         pc' = [pc EXCEPT ![s] = "exiting"],
         outcome' = [outcome EXCEPT ![s] = out],
         UNCHANGED <<ready, inDegree, current>>
  PROVE  QueueInv' /\ DegreeInv'
<1> USE DEF IInv
<1>1. \A d \in Step : Unsettled(d)' = Unsettled(d)
  BY UnsettledKept DEF Settled
<1>2. QueueInv'
  BY QueuesHoldSteps DEF QueueInv, TypeOK
<1>3. \A d \in Step : inDegree'[d] = Cardinality(Unsettled(d)')
  BY <1>1 DEF DegreeInv
<1>4. ASSUME NEW d \in Step,
             \/ d \in Elems(ready') \/ d = current' \/ pc'[d] # "idle"
             \/ outcome'[d] # "none"
      PROVE  Unsettled(d)' = {}
  <2>1. \/ d \in Elems(ready) \/ d = current \/ pc[d] # "idle"
        \/ outcome[d] # "none"
    BY <1>4 DEF TypeOK
  <2> QED
    BY <1>1, <2>1 DEF DegreeInv
<1> QED
  BY <1>2, <1>3, <1>4 DEF DegreeInv

LEMMA StartCancelledIInv ==
  ASSUME NEW s \in Step, IInv, StartCancelled(s)
  PROVE  IInv'
<1> USE DEF IInv
<1>1. /\ pc[s] = "spawned"
      /\ executed' = executed \cup {s} /\ completedCount' = completedCount + 1
      /\ Signal
      /\ pc' = [pc EXCEPT ![s] = "exiting"]
      /\ outcome' = [outcome EXCEPT ![s] = "cancelled"]
      /\ UNCHANGED <<ready, inDegree, failed, firstError, ctxDone, current, returned>>
  BY DEF StartCancelled, graph
<1>2. /\ pc' \in [Step -> {"idle", "exited"} \cup Holding]
      /\ outcome' \in [Step -> {"none", "skip", "cancelled"} \cup Settled]
      /\ mainPc' \in {"loop", "waiting", "acquire", "joining", "done"}
      /\ mainPc' = mainPc \/ (mainPc = "waiting" /\ mainPc' = "loop")
      /\ outcome[s] = "none" /\ s \notin Elems(ready)
      /\ StageInv' /\ CurrentInv' /\ DependenciesFirst'
      /\ mainPc # "done"
  BY <1>1, RecordOutcome
<1>3. QueueInv' /\ DegreeInv'
  BY <1>1, <1>2, KeepDegrees
<1>4. TypeOK'
  BY <1>1, <1>2 DEF TypeOK
<1>5. SkipCalled' <=> SkipCalled
  BY <1>1, <1>2 DEF SkipCalled, TypeOK
<1>6. MarksInv'
  <2>1. failed' = {x \in Step : outcome'[x] \in {"failed", "blocked"}}
    BY <1>1, <1>2 DEF MarksInv, TypeOK
  <2>2. SkipCalled => executed' = Step
    BY <1>1 DEF MarksInv
  <2>3. ~SkipCalled => executed' = {x \in Step : outcome'[x] # "none"}
    BY <1>1, <1>2 DEF MarksInv, TypeOK
  <2>4. ~SkipCalled => completedCount' = Cardinality(executed')
    <3> SUFFICES ASSUME ~SkipCalled PROVE completedCount' = Cardinality(executed')
      OBVIOUS
    <3>1. executed \in SUBSET Step /\ s \notin executed
      BY <1>2 DEF MarksInv, TypeOK
    <3> QED
      BY <1>1, <3>1, CountOneMore DEF MarksInv
  <2>5. \A x \in Step :
          outcome'[x] = "blocked" => \E d \in DependsOn[x] : outcome'[d] # "ok"
    BY <1>1, <1>2, StepDAGAssumption DEF MarksInv, TypeOK
  <2> QED
    BY <1>5, <2>1, <2>2, <2>3, <2>4, <2>5 DEF MarksInv
<1>7. ErrorInv'
  BY <1>1, <1>2, <1>5 DEF ErrorInv, TypeOK
<1>8. ReturnInv'
  BY <1>1, <1>2 DEF ReturnInv
<1> QED
  BY <1>2, <1>3, <1>4, <1>6, <1>7, <1>8

LEMMA FinishSkipIInv ==
  ASSUME NEW s \in Step, IInv, FinishSkip(s)
  PROVE  IInv'
<1> USE DEF IInv
<1>1. /\ pc[s] = "running"
      /\ executed' = Step
      /\ completedCount' =
           completedCount + 1 + Cardinality(Step \ (executed \cup {s}))
      /\ firstError' = IF firstError = "none" THEN "skip" ELSE firstError
      /\ Signal
      /\ pc' = [pc EXCEPT ![s] = "exiting"]
      /\ outcome' = [outcome EXCEPT ![s] = "skip"]
      /\ UNCHANGED <<ready, inDegree, failed, ctxDone, current, returned>>
  BY DEF FinishSkip, graph
<1>2. /\ pc' \in [Step -> {"idle", "exited"} \cup Holding]
      /\ outcome' \in [Step -> {"none", "skip", "cancelled"} \cup Settled]
      /\ mainPc' \in {"loop", "waiting", "acquire", "joining", "done"}
      /\ mainPc' = mainPc \/ (mainPc = "waiting" /\ mainPc' = "loop")
      /\ outcome[s] = "none" /\ s \notin Elems(ready)
      /\ StageInv' /\ CurrentInv' /\ DependenciesFirst'
      /\ mainPc # "done"
  BY <1>1, RecordOutcome
<1>3. QueueInv' /\ DegreeInv'
  BY <1>1, <1>2, KeepDegrees
<1>4. completedCount' \in Nat
  <2>1. Cardinality(Step \ (executed \cup {s})) \in Nat
    BY CountOneMore
  <2> QED
    BY <1>1, <2>1 DEF TypeOK
<1>5. TypeOK'
  BY <1>1, <1>2, <1>4 DEF TypeOK
<1>6. SkipCalled'
  BY <1>1 DEF SkipCalled, TypeOK
<1>7. MarksInv'
  <2>1. failed' = {x \in Step : outcome'[x] \in {"failed", "blocked"}}
    BY <1>1, <1>2 DEF MarksInv, TypeOK
  <2>2. \A x \in Step :
          outcome'[x] = "blocked" => \E d \in DependsOn[x] : outcome'[d] # "ok"
    BY <1>1, <1>2, StepDAGAssumption DEF MarksInv, TypeOK
  <2> QED
    BY <1>1, <1>6, <2>1, <2>2 DEF MarksInv
<1>8. ErrorInv'
  BY <1>1, <1>2, <1>6 DEF ErrorInv, TypeOK
<1>9. ReturnInv'
  BY <1>1, <1>2 DEF ReturnInv
<1> QED
  BY <1>2, <1>3, <1>5, <1>7, <1>8, <1>9

(* FinishOk and FinishFailed: the outcome settles the step.                 *)
LEMMA FinishSettledIInv ==
  ASSUME NEW s \in Step, IInv, FinishOk(s) \/ FinishFailed(s)
  PROVE  IInv'
<1> USE DEF IInv
<1>1. PICK out \in {"ok", "failed"} :
        /\ pc[s] = "running"
        /\ executed' = executed \cup {s} /\ completedCount' = completedCount + 1
        /\ failed' = IF out = "failed" THEN failed \cup {s} ELSE failed
        /\ firstError' = IF out = "failed" /\ firstError = "none" /\ s \notin ContinueOnError
                           THEN "error" ELSE firstError
        /\ Unblock(s, ready, executed')
        /\ Signal
        /\ pc' = [pc EXCEPT ![s] = "exiting"]
        /\ outcome' = [outcome EXCEPT ![s] = out]
        /\ UNCHANGED <<ctxDone, current, returned>>
  BY DEF FinishOk, FinishFailed, RecordError
<1>2. /\ pc' \in [Step -> {"idle", "exited"} \cup Holding]
      /\ outcome' \in [Step -> {"none", "skip", "cancelled"} \cup Settled]
      /\ mainPc' \in {"loop", "waiting", "acquire", "joining", "done"}
      /\ mainPc' = mainPc \/ (mainPc = "waiting" /\ mainPc' = "loop")
      /\ outcome[s] = "none" /\ s \notin Elems(ready)
      /\ Unsettled(s) = {}
      /\ StageInv' /\ CurrentInv' /\ DependenciesFirst'
      /\ mainPc # "done"
  BY <1>1, RecordOutcome
<1>3. /\ inDegree' \in [Step -> Nat]
      /\ \A d \in Step : inDegree'[d] = Cardinality(Unsettled(d)')
      /\ \A d \in Step : Unsettled(d)' = Unsettled(d) \ {s}
      /\ ready' \in Seq(Step)
      /\ Distinct(ready')
      /\ \A d \in Elems(ready') :
           d \in Elems(ready) \/ (d \in Step /\ Unsettled(d) = {s})
  <2>1. out \in Settled /\ outcome[s] \notin Settled
    BY <1>2 DEF Settled
  <2>2. ready \in Seq(Step) /\ Distinct(ready)
    BY DEF TypeOK, QueueInv
  <2> QED
    BY <1>1, <2>1, <2>2, UnblockSettles
<1>4. TypeOK'
  BY <1>1, <1>2, <1>3 DEF TypeOK
<1>5. SkipCalled' <=> SkipCalled
  BY <1>1, <1>2 DEF SkipCalled, TypeOK
<1>6. QueueInv'
  <2> SUFFICES ASSUME NEW d \in Elems(ready')
               PROVE  pc'[d] = "idle" /\ outcome'[d] = "none" /\ d # current'
    BY <1>3 DEF QueueInv
  <2>1. CASE d \in Elems(ready)
    BY <1>1, <1>2, <2>1, QueuesHoldSteps DEF QueueInv, TypeOK
  <2>2. CASE d \in Step /\ Unsettled(d) = {s}
    BY <1>1, <1>2, <2>2 DEF DegreeInv, TypeOK
  <2> QED
    BY <1>3, <2>1, <2>2
<1>7. DegreeInv'
  <2> SUFFICES ASSUME NEW d \in Step,
                      \/ d \in Elems(ready') \/ d = current' \/ pc'[d] # "idle"
                      \/ outcome'[d] # "none"
               PROVE  Unsettled(d)' = {}
    BY <1>3 DEF DegreeInv
  <2>1. Unsettled(d) \in {{}, {s}}
    BY <1>1, <1>2, <1>3 DEF DegreeInv, TypeOK
  <2> QED
    BY <1>3, <2>1
<1>8. MarksInv'
  <2>1. failed' = {x \in Step : outcome'[x] \in {"failed", "blocked"}}
    BY <1>1, <1>2 DEF MarksInv, TypeOK
  <2>2. SkipCalled => executed' = Step
    BY <1>1 DEF MarksInv
  <2>3. ~SkipCalled => executed' = {x \in Step : outcome'[x] # "none"}
    BY <1>1, <1>2 DEF MarksInv, TypeOK
  <2>4. ~SkipCalled => completedCount' = Cardinality(executed')
    <3> SUFFICES ASSUME ~SkipCalled PROVE completedCount' = Cardinality(executed')
      OBVIOUS
    <3>1. executed \in SUBSET Step /\ s \notin executed
      BY <1>2 DEF MarksInv, TypeOK
    <3> QED
      BY <1>1, <3>1, CountOneMore DEF MarksInv
  <2>5. \A x \in Step :
          outcome'[x] = "blocked" => \E d \in DependsOn[x] : outcome'[d] # "ok"
    <3> SUFFICES ASSUME NEW x \in Step, outcome'[x] = "blocked"
                 PROVE  \E d \in DependsOn[x] : outcome'[d] # "ok"
      OBVIOUS
    <3>1. outcome[x] = "blocked" /\ Unsettled(x) = {}
      BY <1>1, <1>2 DEF DegreeInv, TypeOK
    <3>2. PICK d \in DependsOn[x] : outcome[d] # "ok"
      BY <3>1 DEF MarksInv
    <3>3. outcome[d] \in Settled
      BY <3>1 DEF Unsettled
    <3>4. d # s
      BY <1>2, <3>3 DEF Settled
    <3> QED
      BY <1>1, <3>2, <3>4, StepDAGAssumption DEF TypeOK
  <2> QED
    BY <1>5, <2>1, <2>2, <2>3, <2>4, <2>5 DEF MarksInv
<1>9. ErrorInv'
  <2>1. \A x \in Step : x # s => outcome'[x] = outcome[x]
    BY <1>1 DEF TypeOK
  <2>2. outcome'[s] = out
    BY <1>1 DEF TypeOK
  <2>3. CASE firstError' = firstError
    BY <1>1, <1>2, <1>5, <2>1, <2>2, <2>3 DEF ErrorInv
  <2>4. CASE firstError' = "error" /\ out = "failed" /\ s \notin ContinueOnError
    BY <2>2, <2>4 DEF ErrorInv
  <2> QED
    BY <1>1, <2>3, <2>4
<1>10. ReturnInv'
  BY <1>1, <1>2 DEF ReturnInv, TypeOK
<1> QED
  BY <1>2, <1>4, <1>6, <1>7, <1>8, <1>9, <1>10
-----------------------------------------------------------------------------
LEMMA NextIInv == IInv /\ [Next]_vars => IInv'
<1> SUFFICES ASSUME IInv, [Next]_vars PROVE IInv'
  OBVIOUS
<1>1. CASE MainNext
  <2>1. CASE MainSpin
    <3>1. UNCHANGED vars
      BY <2>1 DEF MainSpin
    <3> QED
      BY <3>1 DEF vars, graph, marks, main, IInv, TypeOK, StageInv, QueueInv,
        CurrentInv, DegreeInv, Unsettled, MarksInv, SkipCalled, ErrorInv, ReturnInv,
        DependenciesFirst
  <2> QED
    BY <1>1, <2>1, MainBreakIInv, MainWaitIInv, MainDiscardIInv, MainBlockIInv,
      MainPopIInv, MainSpawnIInv, MainReturnIInv DEF MainNext
<1>2. CASE \E s \in Step : StepNext(s)
  BY <1>2, QuietStepIInv, StartCancelledIInv, FinishSettledIInv, FinishSkipIInv
  DEF StepNext
<1>3. CASE Cancel
  BY <1>3, CancelIInv
<1>4. CASE UNCHANGED vars
  BY <1>4 DEF vars, graph, marks, main, IInv, TypeOK, StageInv, QueueInv,
    CurrentInv, DegreeInv, Unsettled, MarksInv, SkipCalled, ErrorInv, ReturnInv,
    DependenciesFirst
<1> QED
  BY <1>1, <1>2, <1>3, <1>4 DEF Next, Done

LEMMA Invariance == Spec => []IInv
BY InitIInv, NextIInv, PTL DEF Spec

(* Every variable keeps its type; in particular no step's count of          *)
(* unsettled dependencies ever goes below zero.                             *)
THEOREM TypeCorrect == Spec => []TypeOK
<1>1. IInv => TypeOK
  BY DEF IInv
<1> QED
  BY <1>1, Invariance, PTL

(* No step starts before all the steps it depends on have succeeded, under  *)
(* failures, skip() and cancellation alike.                                 *)
THEOREM DependenciesComeFirst == Spec => []DependenciesFirst
<1>1. IInv => DependenciesFirst
  BY DEF IInv
<1> QED
  BY <1>1, Invariance, PTL

(* Without a skip() the main loop's counter is exactly the number of        *)
(* executed steps.                                                          *)
THEOREM CounterIsExact == Spec => []CountsEachStepOnce
<1>1. IInv => CountsEachStepOnce
  BY DEF IInv, MarksInv, CountsEachStepOnce
<1> QED
  BY <1>1, Invariance, PTL

(* Once executeStepsDAG has returned, no goroutine of it is left.           *)
THEOREM NoGoroutineOutlivesCall == Spec => []ReturnsQuiescent
<1>1. IInv => ReturnsQuiescent
  BY DEF IInv, ReturnInv, ReturnsQuiescent, Holding
<1> QED
  BY <1>1, Invariance, PTL

(* The error returned agrees with what the steps did.                       *)
THEOREM ErrorIsTruthful == Spec => []ErrorMatchesSteps
<1>1. IInv => ErrorMatchesSteps
  BY DEF IInv, TypeOK, ReturnInv, ErrorInv, ErrorMatchesSteps
<1> QED
  BY <1>1, Invariance, PTL

(* Only a done context makes a goroutine give its step up.                  *)
CancelledInv == \A s \in Step : outcome[s] = "cancelled" => ctxDone

LEMMA CancelledInvariance == Spec => []CancelledInv
<1>1. Init => CancelledInv
  BY DEF Init, CancelledInv
<1>2. IInv /\ CancelledInv /\ [Next]_vars => CancelledInv'
  <2> SUFFICES ASSUME IInv, CancelledInv, [Next]_vars PROVE CancelledInv'
    OBVIOUS
  <2> USE DEF IInv, TypeOK, CancelledInv
  <2>1. ASSUME UNCHANGED outcome, ctxDone => ctxDone' PROVE CancelledInv'
    BY <2>1
  <2>2. CASE MainNext
    BY <2>1, <2>2 DEF MainNext, MainBreak, MainWait, MainSpin, MainDiscard, MainPop,
      MainSpawn, MainReturn, MainBlock, vars
  <2>3. CASE \E s \in Step : StepNext(s)
    BY <2>3 DEF StepNext, StartStep, StartCancelled, FinishOk, FinishFailed,
      FinishSkip, ExitStep
  <2>4. CASE Cancel \/ UNCHANGED vars
    BY <2>1, <2>4 DEF Cancel, vars
  <2> QED
    BY <2>2, <2>3, <2>4 DEF Next, Done
<1> QED
  BY <1>1, <1>2, Invariance, PTL DEF Spec

(* A nil result means that every step was settled, or given up under a done *)
(* context: no step is forgotten.                                           *)
THEOREM NilIsHonest == Spec => []NilMeansAllAccounted
<1>1. IInv /\ CancelledInv => NilMeansAllAccounted
  <2> SUFFICES ASSUME IInv, CancelledInv, returned = "nil", NEW s \in Step
               PROVE  outcome[s] \in Settled \/ (outcome[s] = "cancelled" /\ ctxDone)
    BY DEF NilMeansAllAccounted
  <2> USE DEF IInv, TypeOK
  <2>1. executed = Step /\ firstError = "none"
    BY DEF ReturnInv
  <2>2. ~SkipCalled
    BY <2>1 DEF ErrorInv
  <2>3. outcome[s] # "none" /\ outcome[s] # "skip"
    BY <2>1, <2>2 DEF MarksInv, SkipCalled
  <2> QED
    BY <2>3 DEF CancelledInv, Settled
<1> QED
  BY <1>1, Invariance, CancelledInvariance, PTL

(* All together: what the call returns is final and agrees with what every  *)
(* step did.                                                                *)
THEOREM ResultHonest == Spec => []ResultIsHonest
  BY NoGoroutineOutlivesCall, ErrorIsTruthful, NilIsHonest, PTL DEF ResultIsHonest
-----------------------------------------------------------------------------
(* The main loop is never stuck.  Here the graph's being acyclic matters.   *)

(* Whoever changes the queue or the counter wakes the loop that waits.      *)
WakeInv == mainPc = "waiting" => ready = <<>> /\ completedCount < totalSteps

(* A step with nothing left to wait for has been queued.                    *)
ReadyInv ==
  ~SkipCalled =>
    \A s \in Step :
      outcome[s] = "none" /\ pc[s] = "idle" /\ Unsettled(s) = {}
        => s \in Elems(ready) \/ s = current

LEMMA OrdersCover ==
  ASSUME NEW S \in SUBSET Step, NEW q \in Orders(S)
  PROVE  S \subseteq Elems(q)
<1> DEFINE n == Cardinality(S)
<1>1. IsFiniteSet(S) /\ n \in Nat
  BY StepDAGAssumption, FS_Subset, FS_CardinalityType
<1>2. q \in [1 .. n -> S] /\ \A i, j \in 1 .. n : q[i] = q[j] => i = j
  BY DEF Orders, Distinct
<1>3. q \in Injection(1 .. n, S)
  BY <1>2 DEF Injection, IsInjective
<1>4. IsFiniteSet(1 .. n) /\ Cardinality(1 .. n) = n
  BY <1>1, FS_Interval
<1>5. q \in Surjection(1 .. n, S)
  BY <1>1, <1>3, <1>4, FS_Injection
<1> QED
  BY <1>2, <1>5 DEF Surjection, Elems

(* What is appended to a queue, or left of it by a pop, is all there.       *)
LEMMA ConcatKeeps ==
  ASSUME NEW p \in Seq(Step), NEW q \in Seq(Step)
  PROVE  Elems(p) \cup Elems(q) \subseteq Elems(p \o q)
<1>1. /\ \A i \in DOMAIN p : i \in DOMAIN (p \o q) /\ (p \o q)[i] = p[i]
      /\ \A j \in DOMAIN q : /\ Len(p) + j \in DOMAIN (p \o q)
                            /\ (p \o q)[Len(p) + j] = q[j]
  BY ConcatProperties, LenProperties
<1> QED
  BY <1>1 DEF Elems

LEMMA TailKeeps ==
  ASSUME NEW q \in Seq(Step), q # <<>>
  PROVE  Elems(q) \subseteq Elems(Tail(q)) \cup {Head(q)}
<1>1. \A i \in DOMAIN q : i = 1 \/ (i - 1 \in DOMAIN Tail(q) /\ Tail(q)[i - 1] = q[i])
  BY HeadTailProperties, LenProperties
<1>2. Head(q) = q[1]
  BY HeadTailProperties
<1> QED
  BY <1>1, <1>2 DEF Elems

(* Settling a step queues every step it was the last one to hold up, unless *)
(* that is marked already, and drops nothing that was to stay queued.       *)
LEMMA UnblockQueues ==
  ASSUME TypeOK, DegreeInv, NEW s \in Step, outcome[s] \notin Settled,
         NEW rest \in Seq(Step), NEW marked, Unblock(s, rest, marked)
  PROVE  /\ Elems(rest) \subseteq Elems(ready')
         /\ \A d \in Step : Unsettled(d) = {s} /\ d \notin marked => d \in Elems(ready')
<1> DEFINE freed == {d \in Step : s \in DependsOn[d] /\ inDegree[d] = 1 /\ d \notin marked}
<1>1. PICK q \in Orders(freed) : ready' = rest \o q
  BY DEF Unblock
<1>2. q \in Seq(Step) /\ freed \subseteq Elems(q)
  BY OrdersAreQueues, OrdersCover
<1>3. Elems(rest) \cup Elems(q) \subseteq Elems(ready')
  BY <1>1, <1>2, ConcatKeeps
<1>4. ASSUME NEW d \in Step, Unsettled(d) = {s}, d \notin marked
      PROVE  d \in freed
  <2>1. inDegree[d] = 1
    BY <1>4, FS_Singleton DEF DegreeInv
  <2>2. s \in DependsOn[d]
    BY <1>4 DEF Unsettled
  <2> QED
    BY <1>4, <2>1, <2>2
<1> HIDE DEF freed
<1> QED
  BY <1>2, <1>3, <1>4

LEMMA InitWait == Init => WakeInv /\ ReadyInv
<1> SUFFICES ASSUME Init PROVE WakeInv /\ ReadyInv
  OBVIOUS
<1>1. {s \in Step : DependsOn[s] = {}} \subseteq Elems(ready)
  BY OrdersCover DEF Init
<1>2. \A s \in Step : Unsettled(s) = DependsOn[s]
  BY StepDAGAssumption DEF Init, Unsettled, Settled
<1> QED
  BY <1>1, <1>2 DEF Init, WakeInv, ReadyInv

(* The steps of the main loop; MainBlock settles the step it pops.          *)
LEMMA MainWaits ==
  ASSUME IInv, WakeInv, ReadyInv, MainNext
  PROVE  WakeInv' /\ ReadyInv'
<1> USE DEF IInv
<1>1. ASSUME UNCHANGED <<ready, pc, outcome, current>> PROVE ReadyInv'
  BY <1>1, UnsettledFrame DEF ReadyInv, SkipCalled
<1>2. CASE MainBreak \/ MainReturn
  <2>1. WakeInv'
    BY <1>2 DEF MainBreak, MainReturn, WakeInv
  <2> QED
    BY <1>1, <1>2, <2>1 DEF MainBreak, MainReturn, graph
<1>3. CASE MainWait \/ MainSpin
  <2>1. WakeInv'
    BY <1>3 DEF MainWait, MainSpin, WakeInv, graph, marks, vars, main
  <2> QED
    BY <1>1, <1>3, <2>1 DEF MainWait, MainSpin, graph, vars, main
<1>4. CASE MainDiscard
  <2>1. WakeInv'
    BY <1>4 DEF MainDiscard, Pop, WakeInv, main
  <2>2. SkipCalled' <=> SkipCalled
    BY <1>4 DEF MainDiscard, SkipCalled
  <2>3. SkipCalled
    BY <1>4, PopFacts DEF MainDiscard, Pop, MarksInv, QueueInv
  <2> QED
    BY <2>1, <2>2, <2>3 DEF ReadyInv
<1>5. CASE MainPop
  <2>1. WakeInv'
    BY <1>5 DEF MainPop, WakeInv
  <2>2. Elems(ready) \subseteq Elems(ready') \cup {current'}
    BY <1>5, TailKeeps DEF MainPop, Pop, TypeOK
  <2>3. current \notin Step
    BY <1>5, StepDAGAssumption DEF MainPop, Pop, CurrentInv
  <2>4. UNCHANGED <<pc, outcome>>
    BY <1>5 DEF MainPop
  <2> QED
    BY <2>1, <2>2, <2>3, <2>4, UnsettledFrame DEF ReadyInv, SkipCalled
<1>6. CASE MainSpawn
  <2>1. WakeInv'
    BY <1>6 DEF MainSpawn, WakeInv
  <2>2. \A s \in Step : pc'[s] = "idle" => pc[s] = "idle" /\ s # current
    BY <1>6 DEF MainSpawn, TypeOK
  <2>3. UNCHANGED <<ready, outcome>>
    BY <1>6 DEF MainSpawn, graph
  <2> QED
    BY <2>1, <2>2, <2>3, UnsettledFrame DEF ReadyInv, SkipCalled
<1>7. CASE MainBlock
  <2> DEFINE s == Head(ready)
  <2>1. /\ mainPc = "loop" /\ mainPc' = mainPc /\ current' = current /\ pc' = pc
        /\ outcome' = [outcome EXCEPT ![s] = "blocked"]
        /\ Unblock(s, Tail(ready), {}) /\ ready # <<>>
    BY <1>7 DEF MainBlock, Pop, main
  <2>2. s \in Step /\ outcome[s] = "none" /\ Tail(ready) \in Seq(Step)
    BY <2>1, PopFacts DEF QueueInv
  <2>3. Elems(ready) \subseteq Elems(Tail(ready)) \cup {s}
    BY <2>1, TailKeeps DEF TypeOK
  <2> HIDE DEF s
  <2>4. outcome[s] \notin Settled
    BY <2>2 DEF Settled
  <2>5. /\ Elems(Tail(ready)) \subseteq Elems(ready')
        /\ \A d \in Step : Unsettled(d) = {s} => d \in Elems(ready')
    <3>1. PICK rest \in Seq(Step), marked \in SUBSET Step :
            rest = Tail(ready) /\ marked = {} /\ Unblock(s, rest, marked)
      BY <2>1, <2>2
    <3>2. /\ Elems(rest) \subseteq Elems(ready')
          /\ \A d \in Step : Unsettled(d) = {s} /\ d \notin marked => d \in Elems(ready')
      BY <2>2, <2>4, <3>1, UnblockQueues
    <3> QED
      BY <3>1, <3>2
  <2>6. \A d \in Step : Unsettled(d)' = Unsettled(d) \ {s}
    BY <2>1, <2>2, StepDAGAssumption DEF Unsettled, Settled, TypeOK
  <2>7. WakeInv'
    BY <2>1 DEF WakeInv
  <2>8. ReadyInv'
    <3> SUFFICES ASSUME ~SkipCalled', NEW d \in Step, outcome'[d] = "none",
                        pc'[d] = "idle", Unsettled(d)' = {}
                 PROVE  d \in Elems(ready') \/ d = current'
      BY DEF ReadyInv
    <3>1. d # s /\ outcome[d] = "none" /\ pc[d] = "idle"
      BY <2>1, <2>2 DEF TypeOK
    <3>2. ~SkipCalled
      BY <2>1, <2>2 DEF SkipCalled, TypeOK
    <3>3. Unsettled(d) \in {{}, {s}}
      BY <2>6
    <3> QED
      BY <2>1, <2>3, <2>5, <3>1, <3>2, <3>3 DEF ReadyInv
  <2> QED
    BY <2>7, <2>8
<1> QED
  BY <1>2, <1>3, <1>4, <1>5, <1>6, <1>7 DEF MainNext

(* A goroutine that records an outcome wakes the loop.                      *)
LEMMA StepWaits ==
  ASSUME IInv, WakeInv, ReadyInv, NEW s \in Step, StepNext(s)
  PROVE  WakeInv' /\ ReadyInv'
<1> USE DEF IInv
<1>1. CASE StartStep(s) \/ ExitStep(s)
  <2>1. /\ UNCHANGED <<ready, completedCount, mainPc, current, outcome>>
        /\ \A x \in Step : pc'[x] = "idle" => pc[x] = "idle"
    BY <1>1 DEF StartStep, ExitStep, graph, marks, main, TypeOK
  <2> QED
    BY <2>1, UnsettledFrame DEF WakeInv, ReadyInv, SkipCalled
<1>2. CASE StartCancelled(s) \/ FinishSkip(s)
  <2>1. PICK out \in {"cancelled", "skip"} :
          /\ pc' = [pc EXCEPT ![s] = "exiting"] /\ outcome' = [outcome EXCEPT ![s] = out]
          /\ Signal /\ UNCHANGED <<ready, current>> /\ pc[s] # "idle"
    BY <1>2 DEF StartCancelled, FinishSkip, graph
  <2>2. mainPc' # "waiting"
    BY <2>1 DEF Signal
  <2>3. outcome[s] \notin Settled /\ outcome[s] # "skip"
    BY <1>2 DEF StageInv, Settled, StartCancelled, FinishSkip
  <2>4. \A d \in Step : Unsettled(d)' = Unsettled(d)
    BY <2>1, <2>3, UnsettledKept DEF Settled
  <2>5. /\ SkipCalled => SkipCalled'
        /\ \A x \in Step : pc'[x] = "idle" => pc[x] = "idle" /\ outcome'[x] = outcome[x]
    BY <2>1, <2>3 DEF SkipCalled, TypeOK
  <2> QED
    BY <2>1, <2>2, <2>4, <2>5 DEF WakeInv, ReadyInv
<1>3. CASE FinishOk(s) \/ FinishFailed(s)
  <2>1. PICK out \in {"ok", "failed"} :
          /\ pc' = [pc EXCEPT ![s] = "exiting"] /\ outcome' = [outcome EXCEPT ![s] = out]
          /\ executed' = executed \cup {s} /\ Unblock(s, ready, executed')
          /\ Signal /\ UNCHANGED current /\ pc[s] = "running"
    BY <1>3 DEF FinishOk, FinishFailed
  <2>2. mainPc' # "waiting"
    BY <2>1 DEF Signal
  <2>3. outcome[s] = "none" /\ outcome[s] \notin Settled
    BY <2>1 DEF StageInv, Settled
  <2>4. /\ Elems(ready) \subseteq Elems(ready')
        /\ \A d \in Step : Unsettled(d) = {s} /\ d \notin executed' => d \in Elems(ready')
    BY <2>1, <2>3, UnblockQueues DEF TypeOK
  <2>5. \A d \in Step : Unsettled(d)' = Unsettled(d) \ {s}
    BY <2>1, <2>3, StepDAGAssumption DEF Unsettled, Settled, TypeOK
  <2>6. SkipCalled => SkipCalled'
    BY <2>1, <2>3 DEF SkipCalled, TypeOK
  <2>7. ReadyInv'
    <3> SUFFICES ASSUME ~SkipCalled, NEW x \in Step, outcome'[x] = "none",
                        pc'[x] = "idle", Unsettled(x)' = {}
                 PROVE  x \in Elems(ready') \/ x = current'
      BY <2>6 DEF ReadyInv
    <3>1. x # s /\ outcome[x] = "none" /\ pc[x] = "idle"
      BY <2>1 DEF TypeOK
    <3>2. Unsettled(x) \in {{}, {s}}
      BY <2>5
    <3>3. x \notin executed'
      BY <2>1, <3>1 DEF MarksInv
    <3> QED
      BY <2>1, <2>4, <3>1, <3>2, <3>3 DEF ReadyInv
  <2> QED
    BY <2>2, <2>7 DEF WakeInv
<1> QED
  BY <1>1, <1>2, <1>3 DEF StepNext

LEMMA WaitInvariance == Spec => [](WakeInv /\ ReadyInv)
<1>1. IInv /\ WakeInv /\ ReadyInv /\ [Next]_vars => WakeInv' /\ ReadyInv'
  <2> SUFFICES ASSUME IInv, WakeInv, ReadyInv, [Next]_vars PROVE WakeInv' /\ ReadyInv'
    OBVIOUS
  <2>1. CASE Cancel \/ UNCHANGED vars
    <3>1. UNCHANGED <<ready, completedCount, mainPc, current, pc, outcome>>
      BY <2>1 DEF Cancel, vars, graph, marks, main
    <3> QED
      BY <3>1, UnsettledFrame DEF WakeInv, ReadyInv, SkipCalled
  <2> QED
    BY <2>1, MainWaits, StepWaits DEF Next, Done
<1> QED
  BY <1>1, InitWait, Invariance, PTL DEF Spec

(* The main loop waits for somebody and never spins, for every acyclic      *)
(* graph, unless a step called skip() or was abandoned: what is unfinished  *)
(* has a first step, which waits for nothing and so was queued and started. *)
THEOREM LoopNeverStuck == Spec => []LoopIsNeverStuck
<1>1. IInv /\ WakeInv /\ ReadyInv => LoopIsNeverStuck
  <2> SUFFICES ASSUME IInv, WakeInv, ReadyInv, ~SkipCalled, \A s \in Step : ~Abandons(s)
               PROVE  /\ completedCount <= totalSteps
                      /\ mainPc = "waiting" =>
                           \E s \in Step : pc[s] \in {"spawned", "running"}
    BY DEF LoopIsNeverStuck
  <2> USE DEF IInv
  <2>1. executed = {s \in Step : outcome[s] # "none"} /\ completedCount = Cardinality(executed)
    BY DEF MarksInv
  <2>2. completedCount <= totalSteps
    BY <2>1, StepDAGAssumption, FS_Subset DEF totalSteps
  <2>3. ASSUME mainPc = "waiting"
        PROVE  \E s \in Step : pc[s] \in {"spawned", "running"}
    <3> DEFINE left == {s \in Step : outcome[s] = "none"}
    <3>0. ready = <<>> /\ completedCount < totalSteps /\ completedCount \in Nat
      BY <2>3 DEF WakeInv, TypeOK
    <3>1. ready = <<>> /\ executed # Step
      <4> SUFFICES ASSUME executed = Step PROVE completedCount = totalSteps
        BY <3>0 DEF totalSteps
      <4>1. completedCount = Cardinality(executed)
        BY <2>1
      <4> QED
        BY <4>1 DEF totalSteps
    <3>2. left \in (SUBSET Step) \ {{}}
      BY <2>1, <3>1
    <3>3. PICK s \in left : DependsOn[s] \cap left = {}
      BY <3>2, AcyclicAssumption DEF Acyclic
    <3>4. Unsettled(s) = {}
      <4> SUFFICES ASSUME NEW d \in DependsOn[s] PROVE outcome[d] \in Settled
        BY DEF Unsettled
      <4>1. d \in Step /\ outcome[d] # "none"
        BY <3>3, StepDAGAssumption
      <4>2. outcome[d] \notin {"skip", "cancelled"}
        BY <3>3, <4>1 DEF SkipCalled, Abandons
      <4> QED
        BY <4>1, <4>2 DEF TypeOK
    <3>5. pc[s] # "idle"
      BY <2>3, <3>1, <3>3, <3>4, StepDAGAssumption DEF ReadyInv, CurrentInv, Elems
    <3>6. pc[s] \in {"spawned", "running"}
      BY <3>3, <3>5 DEF StageInv, TypeOK, Holding
    <3> QED
      BY <3>3, <3>6
  <2> QED
    BY <2>2, <2>3
<1> QED
  BY <1>1, Invariance, WaitInvariance, PTL
-----------------------------------------------------------------------------
(* StepDAG implements StepOrder.                                            *)

LEMMA StatusDomain ==
  /\ DOMAIN stepStatus = Step
  /\ \A s \in Step : stepStatus[s] =
       IF outcome[s] # "none" THEN outcome[s]
       ELSE IF pc[s] = "running" THEN "running" ELSE "pending"
BY DEF stepStatus

(* A step of the abstract run changes one entry of the status function.     *)
LEMMA BecomeStep ==
  ASSUME IInv, NEW s \in Step, NEW from, NEW to,
         returned = "no", returned' = "no",
         stepStatus[s] = from, stepStatus'[s] = to,
         \A x \in Step : x # s => outcome'[x] = outcome[x] /\ pc'[x] = pc[x]
  PROVE  Order!Become(s, from, to)
<1>1. stepStatus' = [stepStatus EXCEPT ![s] = to]
  BY DEF stepStatus
<1> QED
  BY <1>1 DEF Order!Become

LEMMA StepRefines ==
  ASSUME IInv, IInv', [Next]_vars
  PROVE  [Order!Next]_(Order!vars)
<1> USE DEF IInv
<1>1. ASSUME UNCHANGED <<outcome, returned>>,
             \A s \in Step : outcome[s] = "none" => (pc'[s] = "running" <=> pc[s] = "running")
      PROVE  UNCHANGED Order!vars
  BY <1>1 DEF Order!vars, stepStatus
<1>2. CASE UNCHANGED vars
  BY <1>1, <1>2 DEF vars
<1>3. CASE MainNext
  <2>1. CASE MainBreak \/ MainWait \/ MainSpin \/ MainDiscard \/ MainPop
    BY <1>1, <2>1 DEF MainBreak, MainWait, MainSpin, MainDiscard, MainPop, main, vars
  <2>2. CASE MainSpawn
    BY <1>1, <2>2, StepDAGAssumption DEF MainSpawn, TypeOK, CurrentInv
  <2>3. CASE MainBlock
    <3> DEFINE s == Head(ready)
    <3>1. /\ s \in Step /\ pc[s] = "idle" /\ outcome[s] = "none"
          /\ Unsettled(s) = {}
      BY <2>3, PopFacts DEF MainBlock, Pop, QueueInv, DegreeInv
    <3>2. /\ outcome' = [outcome EXCEPT ![s] = "blocked"]
          /\ UNCHANGED <<pc, returned>>
          /\ returned = "no"
          /\ \E d \in DependsOn[s] : d \in failed
      BY <2>3 DEF MainBlock, Pop, main, ReturnInv
    <3> HIDE DEF s
    <3>3. \A d \in DependsOn[s] : d \in Step /\ outcome[d] \in Settled
      BY <3>1, StepDAGAssumption DEF Unsettled
    <3>4. \A d \in DependsOn[s] : stepStatus[d] \in Order!Settled
      BY <3>3, StatusDomain DEF Order!Settled, Settled
    <3>5. \E d \in DependsOn[s] : stepStatus[d] # "ok"
      BY <3>2, <3>3, StatusDomain DEF MarksInv
    <3>6. stepStatus[s] = "pending" /\ stepStatus'[s] = "blocked"
      BY <3>1, <3>2 DEF stepStatus, TypeOK
    <3>7. Order!Become(s, "pending", "blocked")
      BY <3>1, <3>2, <3>6, BecomeStep DEF TypeOK
    <3> QED
      BY <3>1, <3>4, <3>5, <3>7 DEF Order!Next, Order!Block
  <2>4. CASE MainReturn
    <3>1. /\ returned = "no" /\ returned' # "no"
          /\ \A s \in Step : pc[s] # "running"
          /\ executed = Step
          /\ UNCHANGED <<outcome, pc>>
      BY <2>4 DEF MainReturn, Joined, ReturnInv
    <3>2. stepStatus' = stepStatus
      BY <3>1 DEF stepStatus
    <3>3. \A s \in Step : stepStatus[s] # "running"
      BY <3>1, StatusDomain DEF TypeOK, Settled
    <3>4. (\A s \in Step : stepStatus[s] \in Order!Settled) \/ Order!CutShort
      <4>1. CASE SkipCalled
        BY <4>1, StatusDomain DEF SkipCalled, Order!CutShort
      <4>2. CASE ~SkipCalled
        <5>1. \A s \in Step : outcome[s] \in {"cancelled"} \cup Settled
          BY <3>1, <4>2 DEF MarksInv, SkipCalled, TypeOK
        <5>2. \A s \in Step : stepStatus[s] = outcome[s]
          BY <5>1, StatusDomain DEF Settled
        <5> QED
          BY <5>1, <5>2 DEF Order!CutShort, Order!Settled, Settled
      <4> QED
        BY <4>1, <4>2
    <3> QED
      BY <3>1, <3>2, <3>3, <3>4 DEF Order!Next, Order!End
  <2> QED
    BY <1>3, <2>1, <2>2, <2>3, <2>4 DEF MainNext
<1>4. ASSUME NEW s \in Step, StepNext(s)
      PROVE  [Order!Next]_(Order!vars)
  <2>1. \A d \in DependsOn[s] : d \in Step
    BY StepDAGAssumption
  <2>2. pc[s] \in {"spawned", "running"} => returned = "no"
    BY DEF ReturnInv
  <2>3. Order!DepsSucceeded(s) \/ pc[s] = "idle"
    BY <2>1, StatusDomain DEF DependenciesFirst, Order!DepsSucceeded
  <2>4. CASE StartStep(s)
    <3>1. /\ pc[s] = "spawned" /\ outcome[s] = "none"
          /\ pc' = [pc EXCEPT ![s] = "running"] /\ UNCHANGED <<outcome, returned>>
      BY <2>4 DEF StartStep, StageInv
    <3>2. stepStatus[s] = "pending" /\ stepStatus'[s] = "running"
      BY <3>1 DEF stepStatus, TypeOK
    <3>3. Order!Become(s, "pending", "running")
      BY <2>2, <3>1, <3>2, BecomeStep DEF TypeOK
    <3> QED
      BY <2>3, <3>1, <3>3 DEF Order!Next, Order!Start
  <2>5. CASE StartCancelled(s)
    <3>1. /\ pc[s] = "spawned" /\ outcome[s] = "none"
          /\ pc' = [pc EXCEPT ![s] = "exiting"]
          /\ outcome' = [outcome EXCEPT ![s] = "cancelled"] /\ UNCHANGED returned
      BY <2>5 DEF StartCancelled, StageInv
    <3>2. stepStatus[s] = "pending" /\ stepStatus'[s] = "cancelled"
      BY <3>1 DEF stepStatus, TypeOK
    <3>3. Order!Become(s, "pending", "cancelled")
      BY <2>2, <3>1, <3>2, BecomeStep DEF TypeOK
    <3> QED
      BY <2>3, <3>1, <3>3 DEF Order!Next, Order!Cancelled
  <2>6. CASE FinishOk(s) \/ FinishFailed(s) \/ FinishSkip(s)
    <3>1. PICK out \in {"ok", "failed", "skip"} :
            /\ pc[s] = "running" /\ outcome[s] = "none"
            /\ pc' = [pc EXCEPT ![s] = "exiting"]
            /\ outcome' = [outcome EXCEPT ![s] = out] /\ UNCHANGED returned
      BY <2>6 DEF FinishOk, FinishFailed, RecordError, FinishSkip, StageInv
    <3>2. stepStatus[s] = "running" /\ stepStatus'[s] = out
      BY <3>1 DEF stepStatus, TypeOK
    <3>3. Order!Become(s, "running", out)
      BY <2>2, <3>1, <3>2, BecomeStep DEF TypeOK
    <3> QED
      BY <3>1, <3>3 DEF Order!Next, Order!Finish
  <2>7. CASE ExitStep(s)
    <3>1. /\ outcome[s] # "none" /\ pc' = [pc EXCEPT ![s] = "exited"]
          /\ UNCHANGED <<outcome, returned>>
      BY <2>7 DEF ExitStep, StageInv
    <3> QED
      BY <1>1, <3>1 DEF TypeOK
  <2> QED
    BY <1>4, <2>4, <2>5, <2>6, <2>7 DEF StepNext
<1>5. CASE Cancel
  BY <1>1, <1>5 DEF Cancel
<1> QED
  BY <1>2, <1>3, <1>4, <1>5 DEF Next, Done

(* Every run of executeStepsDAG is a run of StepOrder: each step starts at  *)
(* most once and only after its dependencies succeeded, is blocked only by  *)
(* a failure upstream, and the call ends with everything settled unless a   *)
(* skip() or a cancellation cut it short.                                   *)
THEOREM Refinement == Spec => ImplementsOrder
<1>1. Init => Order!Init
  BY DEF Init, Degree, Order!Init, stepStatus
<1>2. IInv /\ IInv' /\ [Next]_vars => [Order!Next]_(Order!vars)
  BY StepRefines
<1> QED
  BY <1>1, <1>2, Invariance, PTL DEF Spec, ImplementsOrder, Order!Spec
=============================================================================

----------------------- MODULE WriteCoordinator_proof ----------------------
(***************************************************************************)
(* Proofs about WriteCoordinator: for any steps, modules, threshold and    *)
(* number of failed writes, no result is stored twice, and none is lost as *)
(* long as no write fails.                                                 *)
(***************************************************************************)
EXTENDS WriteCoordinator, TLAPS, FiniteSetTheorems

(* Only recorded results are buffered.                                      *)
BufferInv == stepResults \subseteq Recorded

(* The run moves on when the calls of every step have returned.             *)
InFlightInv == mainPc # "steps" => \A s \in Step : ~ InFlight(s)

(* Whoever stopped the coordinator has waited for the ticker, so nothing is *)
(* flushed later.                                                           *)
StopInv == stopped /\ mainPc \notin {"joining", "closing"} => ticker = "exited"

IInv ==
  /\ TypeOK
  /\ BufferInv /\ InFlightInv /\ StopInv
  /\ NeverStoredTwice /\ NothingLost /\ ProgressConserved

-----------------------------------------------------------------------------
LEMMA StepSetsFinite ==
  ASSUME NEW S \in SUBSET Step
  PROVE  IsFiniteSet(S) /\ Cardinality(S) \in Nat
BY WriteCoordinatorAssumption, FS_Subset, FS_CardinalityType

(* What a flush of results does, whatever the sink and wherever it fails.   *)
LEMMA FlushEffect ==
  ASSUME TypeOK,
         NEW results \in SUBSET Step, NEW delta \in Nat, NEW arts \in SUBSET Artifact,
         IsEmpty(results, delta, arts) =>
           results = stepResults /\ delta = progressDelta /\ arts = artifacts,
         FlushLocked(results, delta, arts)
  PROVE  /\ stepResults' \in SUBSET results
         /\ progressDelta' \in Nat
         /\ artifacts' \in SUBSET Artifact
         /\ faults' \in 0 .. MaxFaults
         /\ rows' \in [Step -> Nat]
         /\ completedSteps' \in Nat
         /\ storedArtifacts' \in SUBSET Artifact
         /\ \A s \in Step : \/ rows'[s] = rows[s]
                            \/ s \in results \ stepResults' /\ rows'[s] = rows[s] + 1
         /\ faults' = 0 =>
              /\ faults = 0
              /\ stepResults' = {}
              /\ \A s \in Step : rows'[s] = IF s \in results THEN rows[s] + 1 ELSE rows[s]
              /\ sinkKind = "db" => /\ completedSteps' = completedSteps + delta
                                    /\ progressDelta' = 0
<1>1. CASE IsEmpty(results, delta, arts)
  BY <1>1 DEF FlushLocked, IsEmpty, TypeOK, buffers, sink
<1>2. CASE ~IsEmpty(results, delta, arts) /\ sinkKind = "redis"
  <2>1. PICK sent \in SUBSET results :
          /\ faults' = faults + Cardinality(results \ sent)
          /\ faults' <= MaxFaults
          /\ rows' = Inserted(sent)
          /\ completedSteps' = completedSteps + Cardinality(sent)
          /\ stepResults' = {}
          /\ progressDelta' = 0
          /\ artifacts' = {}
          /\ UNCHANGED storedArtifacts
    BY <1>2 DEF FlushLocked, SendToRedis
  <2>2. /\ IsFiniteSet(results \ sent)
        /\ Cardinality(results \ sent) \in Nat
        /\ Cardinality(sent) \in Nat
    BY <2>1, StepSetsFinite
  <2>3. Cardinality(results \ sent) = 0 => sent = results
    BY <2>1, <2>2, FS_EmptySet
  <2> QED
    BY <1>2, <2>1, <2>2, <2>3, WriteCoordinatorAssumption DEF TypeOK, Inserted
<1>3. CASE ~IsEmpty(results, delta, arts) /\ sinkKind # "redis"
  <2>1. Transaction(results, delta, arts)
    BY <1>3 DEF FlushLocked
  <2> QED
    BY <1>3, <2>1, WriteCoordinatorAssumption DEF Transaction, TypeOK, Inserted
<1> QED
  BY <1>1, <1>2, <1>3

-----------------------------------------------------------------------------
LEMMA InitIInv == Init => IInv
<1> SUFFICES ASSUME Init PROVE IInv
  OBVIOUS
<1>1. /\ Recorded = {} /\ Counted = {} /\ {s \in Step : rows[s] > 0} = {} /\ reported = {}
      /\ \A s \in Step : ~ InFlight(s)
  BY DEF Init, Recorded, Counted, InFlight
<1>2. /\ Cardinality(Counted) = 0 /\ Cardinality(reported) = 0
      /\ Cardinality({s \in Step : rows[s] > 0}) = 0
  BY <1>1, FS_EmptySet
<1>3. TypeOK
  <2>1. Modules \in Nat \ {0} /\ MaxFaults \in Nat
    BY WriteCoordinatorAssumption
  <2>2. faults \in 0 .. MaxFaults /\ module \in 1 .. Modules + 1
    BY <2>1 DEF Init
  <2> QED
    BY <2>2 DEF Init, TypeOK
<1>4. BufferInv /\ InFlightInv /\ StopInv
  BY <1>1 DEF Init, BufferInv, InFlightInv, StopInv
<1> QED
  BY <1>1, <1>2, <1>3, <1>4
  DEF Init, IInv, NeverStoredTwice, NothingLost, ProgressConserved

(* A flush of the buffered results, to which a step that has just been      *)
(* recorded may have been added.                                            *)
LEMMA FlushIInv ==
  ASSUME IInv,
         NEW results \in SUBSET Step,
         stepResults \subseteq results,
         results \cap Recorded \subseteq stepResults,
         IsEmpty(results, progressDelta, artifacts) => results = stepResults,
         FlushLocked(results, progressDelta, artifacts),
         Recorded' = Recorded \cup results,
         Counted' = Counted,
         UNCHANGED <<sinkKind, reported>>,
         mainPc' = "completed" => mainPc = "completed" /\ ~stopped',
         mainPc = "completed" => mainPc' = "completed"
  PROVE  /\ BufferInv' /\ NeverStoredTwice' /\ NothingLost' /\ ProgressConserved'
         /\ stepResults' \in SUBSET Step
         /\ progressDelta' \in Nat
         /\ artifacts' \in SUBSET Artifact
         /\ faults' \in 0 .. MaxFaults
         /\ rows' \in [Step -> Nat]
         /\ completedSteps' \in Nat
         /\ storedArtifacts' \in SUBSET Artifact
<1> USE DEF IInv
<1>1. progressDelta \in Nat /\ artifacts \in SUBSET Artifact
  BY DEF TypeOK
<1> DEFINE Effect ==
      /\ stepResults' \in SUBSET results
      /\ progressDelta' \in Nat
      /\ artifacts' \in SUBSET Artifact
      /\ faults' \in 0 .. MaxFaults
      /\ rows' \in [Step -> Nat]
      /\ completedSteps' \in Nat
      /\ storedArtifacts' \in SUBSET Artifact
      /\ \A s \in Step : \/ rows'[s] = rows[s]
                         \/ s \in results \ stepResults' /\ rows'[s] = rows[s] + 1
      /\ faults' = 0 =>
           /\ faults = 0
           /\ stepResults' = {}
           /\ \A s \in Step : rows'[s] = IF s \in results THEN rows[s] + 1 ELSE rows[s]
           /\ sinkKind = "db" => /\ completedSteps' = completedSteps + progressDelta
                                 /\ progressDelta' = 0
<1>2. Effect
  BY <1>1, FlushEffect
<1>3. \A s \in results : rows[s] = 0
  BY DEF NeverStoredTwice, TypeOK
<1>4. BufferInv'
  BY <1>2 DEF BufferInv
<1>5. NeverStoredTwice'
  BY <1>2, <1>3 DEF NeverStoredTwice, TypeOK
<1>6. faults' = 0 => \A s \in Recorded' : rows'[s] = 1
  <2> SUFFICES ASSUME faults' = 0, NEW s \in Recorded \cup results PROVE rows'[s] = 1
    OBVIOUS
  <2>1. s \in Step
    BY DEF Recorded
  <2>2. faults = 0 /\ rows'[s] = IF s \in results THEN rows[s] + 1 ELSE rows[s]
    BY <1>2, <2>1
  <2>3. s \notin results => rows[s] = 1
    BY <2>2 DEF NothingLost
  <2> QED
    BY <1>3, <2>2, <2>3
<1>7. NothingLost'
  BY <1>6 DEF NothingLost
<1>8. ProgressConserved'
  <2> SUFFICES ASSUME faults' = 0, sinkKind' = "db", mainPc' # "completed"
               PROVE  /\ completedSteps' + progressDelta'
                           = Cardinality(Counted)' + Cardinality(reported)'
                      /\ completedSteps' <= Cardinality({s \in Step : rows[s] > 0})'
                                             + Cardinality(reported)'
    BY DEF ProgressConserved
  <2>1. /\ faults = 0 /\ sinkKind = "db" /\ mainPc # "completed"
        /\ completedSteps' = completedSteps + progressDelta /\ progressDelta' = 0
    BY <1>2
  <2>2. completedSteps + progressDelta = Cardinality(Counted) + Cardinality(reported)
    BY <2>1 DEF ProgressConserved
  <2>3. Counted \in SUBSET Step /\ Counted \subseteq Recorded /\ reported \in SUBSET Step
    BY DEF Counted, Recorded, TypeOK
  <2>4. {s \in Step : rows'[s] > 0} \in SUBSET Step
    OBVIOUS
  <2>5. Counted \subseteq {s \in Step : rows'[s] > 0}
    BY <1>6, <2>3
  <2>6. Cardinality(Counted) <= Cardinality({s \in Step : rows'[s] > 0})
    BY <2>4, <2>5, StepSetsFinite, FS_Subset
  <2>7. /\ Cardinality(Counted) \in Nat /\ Cardinality(reported) \in Nat
        /\ Cardinality({s \in Step : rows'[s] > 0}) \in Nat
    BY <2>3, <2>4, StepSetsFinite
  <2>8. Cardinality(Counted)' = Cardinality(Counted) /\ Cardinality(reported)' = Cardinality(reported)
    OBVIOUS
  <2> QED
    BY <2>1, <2>2, <2>6, <2>7, <2>8
<1> QED
  BY <1>2, <1>4, <1>5, <1>7, <1>8

-----------------------------------------------------------------------------
(* The ticker's flushes and the last section of FlushAll.                   *)
LEMMA FlushersIInv == IInv /\ (Tick \/ TickerStop \/ FlushAllFinish) => IInv'
<1> SUFFICES ASSUME IInv, Tick \/ TickerStop \/ FlushAllFinish PROVE IInv'
  OBVIOUS
<1>1. Flush /\ UNCHANGED <<sinkKind, stepPc, reported, stopped, stopCh>>
  BY DEF Tick, TickerStop, FlushAllFinish, client, control
<1>2. Recorded' = Recorded /\ Counted' = Counted /\ stepResults \subseteq Recorded
  BY <1>1 DEF Recorded, Counted, IInv, BufferInv
<1>3. stepResults \in SUBSET Step
  BY DEF IInv, TypeOK
<1>4. \/ mainPc' = mainPc /\ module' = module /\ ticker = "running"
      \/ mainPc = "joining" /\ mainPc' \in {"steps", "done"} /\ ticker = "exited" /\ ticker' = "exited"
  BY DEF Tick, TickerStop, FlushAllFinish, NextModule, client
<1>5. mainPc' = "completed" <=> mainPc = "completed"
  BY <1>4
<1>6. mainPc' = "completed" => ~stopped'
  BY <1>1, <1>4 DEF IInv, StopInv
<1>7. /\ BufferInv' /\ NeverStoredTwice' /\ NothingLost' /\ ProgressConserved'
      /\ stepResults' \in SUBSET Step
      /\ progressDelta' \in Nat
      /\ artifacts' \in SUBSET Artifact
      /\ faults' \in 0 .. MaxFaults
      /\ rows' \in [Step -> Nat]
      /\ completedSteps' \in Nat
      /\ storedArtifacts' \in SUBSET Artifact
  BY <1>1, <1>2, <1>3, <1>5, <1>6, FlushIInv DEF Flush
<1>8. TypeOK'
  <2>1. /\ ticker' \in {"running", "exited"}
        /\ module' \in 1 .. Modules + 1
        /\ mainPc' \in {"steps", "closing", "joining", "done", "failed", "completed"}
    BY WriteCoordinatorAssumption
    DEF IInv, TypeOK, Tick, TickerStop, FlushAllFinish, NextModule, LastCall, client
  <2> QED
    BY <1>1, <1>7, <2>1 DEF IInv, TypeOK
<1>9. InFlightInv'
  BY <1>1, <1>4 DEF IInv, InFlightInv, InFlight, Reports
<1>10. StopInv'
  BY <1>1, <1>4 DEF IInv, StopInv
<1> QED
  BY <1>7, <1>8, <1>9, <1>10 DEF IInv

LEMMA AddStepResultIInv ==
  ASSUME IInv, NEW s \in Step, AddStepResult(s)
  PROVE  IInv'
<1> DEFINE results == stepResults \cup {s}
<1>1. /\ stepPc[s] = "todo" /\ stepPc' = [stepPc EXCEPT ![s] = "recorded"]
      /\ mainPc = "steps"
      /\ UNCHANGED <<sinkKind, stopped, stopCh, ticker, reported, module, mainPc>>
  BY DEF AddStepResult, MayRun, control
<1>2. Recorded' = Recorded \cup {s} /\ Counted' = Counted /\ s \notin Recorded
  BY <1>1 DEF Recorded, Counted, IInv, TypeOK
<1>3. results \in SUBSET Step /\ stepResults \subseteq results
      /\ results \cap Recorded \subseteq stepResults
      /\ Recorded' = Recorded \cup results
      /\ ~IsEmpty(results, progressDelta, artifacts)
  BY <1>2 DEF IInv, BufferInv, TypeOK, IsEmpty
<1>4. /\ BufferInv' /\ NeverStoredTwice' /\ NothingLost' /\ ProgressConserved'
      /\ stepResults' \in SUBSET Step
      /\ progressDelta' \in Nat
      /\ artifacts' \in SUBSET Artifact
      /\ faults' \in 0 .. MaxFaults
      /\ rows' \in [Step -> Nat]
      /\ completedSteps' \in Nat
      /\ storedArtifacts' \in SUBSET Artifact
  <2>1. CASE FlushLocked(results, progressDelta, artifacts)
    BY <1>1, <1>2, <1>3, <2>1, FlushIInv
  <2>2. CASE stepResults' = results /\ UNCHANGED <<progressDelta, artifacts, sink>>
    <3>1. BufferInv' /\ NeverStoredTwice' /\ NothingLost'
      BY <1>2, <2>2
      DEF IInv, TypeOK, BufferInv, NeverStoredTwice, NothingLost, sink
    <3>2. ProgressConserved'
      <4>1. /\ Cardinality({t \in Step : rows[t] > 0})' = Cardinality({t \in Step : rows[t] > 0})
            /\ Cardinality(Counted)' = Cardinality(Counted)
            /\ Cardinality(reported)' = Cardinality(reported)
        BY <1>1, <1>2, <2>2 DEF sink
      <4> QED
        BY <1>1, <2>2, <4>1 DEF IInv, ProgressConserved, sink
    <3> QED
      BY <1>3, <2>2, <3>1, <3>2 DEF IInv, TypeOK, sink
  <2> QED
    BY <2>1, <2>2 DEF AddStepResult
<1>5. TypeOK'
  BY <1>1, <1>4 DEF IInv, TypeOK
<1>6. InFlightInv' /\ StopInv'
  BY <1>1 DEF IInv, InFlightInv, StopInv
<1> QED
  BY <1>4, <1>5, <1>6 DEF IInv

LEMMA IncrementProgressIInv ==
  ASSUME IInv, NEW s \in Step, IncrementProgress(s)
  PROVE  IInv'
<1>1. /\ stepPc[s] = "recorded" /\ stepPc' = [stepPc EXCEPT ![s] = "counted"]
      /\ progressDelta' = progressDelta + 1
      /\ UNCHANGED <<stepResults, artifacts, rows, completedSteps, storedArtifacts, faults,
                     sinkKind, stopped, stopCh, ticker, reported, module, mainPc>>
  BY DEF IncrementProgress, sink, control
<1>2. Recorded' = Recorded /\ Counted' = Counted \cup {s} /\ s \notin Counted
  BY <1>1 DEF Recorded, Counted, IInv, TypeOK
<1>3. TypeOK'
  BY <1>1 DEF IInv, TypeOK
<1>4. BufferInv' /\ NeverStoredTwice' /\ NothingLost'
  BY <1>1, <1>2 DEF IInv, BufferInv, NeverStoredTwice, NothingLost
<1>5. mainPc = "steps"
  BY <1>1 DEF IInv, InFlightInv, InFlight
<1>6. InFlightInv' /\ StopInv'
  BY <1>1, <1>5 DEF IInv, InFlightInv, StopInv
<1>7. Cardinality(Counted)' = Cardinality(Counted) + 1
  <2>1. IsFiniteSet(Counted)
    BY StepSetsFinite DEF Counted
  <2>2. Cardinality(Counted \cup {s}) = Cardinality(Counted) + 1
    BY <1>2, <2>1, FS_AddElement
  <2> QED
    BY <1>2, <2>2
<1>8. ProgressConserved'
  <2>1. /\ Cardinality({t \in Step : rows[t] > 0})' = Cardinality({t \in Step : rows[t] > 0})
        /\ Cardinality(reported)' = Cardinality(reported)
    BY <1>1
  <2>2. Cardinality(Counted) \in Nat /\ Cardinality(reported) \in Nat
    BY StepSetsFinite DEF Counted, IInv, TypeOK
  <2>3. faults = 0 /\ sinkKind = "db" =>
          completedSteps' + progressDelta' = Cardinality(Counted) + 1 + Cardinality(reported)
    BY <1>1, <1>5, <2>2 DEF IInv, TypeOK, ProgressConserved
  <2> QED
    BY <1>1, <1>5, <1>7, <2>1, <2>3 DEF IInv, ProgressConserved
<1> QED
  BY <1>3, <1>4, <1>6, <1>8 DEF IInv

(* The second writer of completed_steps counts a step once.                 *)
LEMMA OnStepCompletedIInv ==
  ASSUME IInv, NEW s \in Step, OnStepCompleted(s)
  PROVE  IInv'
<1>1. /\ InFlight(s) /\ s \notin reported
      /\ reported' = reported \cup {s}
      /\ \/ completedSteps' = completedSteps + 1 /\ faults' = faults
         \/ faults < MaxFaults /\ faults' = faults + 1 /\ completedSteps' = completedSteps
      /\ UNCHANGED <<stepResults, progressDelta, artifacts, rows, storedArtifacts, sinkKind,
                     stopped, stopCh, ticker, stepPc, module, mainPc>>
  BY DEF OnStepCompleted, InFlight, buffers, control
<1>2. mainPc = "steps"
  BY <1>1 DEF IInv, InFlightInv
<1>3. TypeOK'
  BY <1>1, WriteCoordinatorAssumption DEF IInv, TypeOK
<1>4. Recorded' = Recorded /\ Counted' = Counted
  BY <1>1 DEF Recorded, Counted
<1>5. faults' = 0 => faults = 0 /\ completedSteps' = completedSteps + 1
  BY <1>1, WriteCoordinatorAssumption DEF IInv, TypeOK
<1>6. BufferInv' /\ NeverStoredTwice' /\ NothingLost' /\ InFlightInv' /\ StopInv'
  BY <1>1, <1>2, <1>4, <1>5
  DEF IInv, BufferInv, NeverStoredTwice, NothingLost, InFlightInv, StopInv
<1>7. ProgressConserved'
  <2>1. /\ Cardinality({t \in Step : rows[t] > 0})' = Cardinality({t \in Step : rows[t] > 0})
        /\ Cardinality(Counted)' = Cardinality(Counted)
    BY <1>1, <1>4
  <2>2. IsFiniteSet(reported)
    BY StepSetsFinite DEF IInv, TypeOK
  <2>3. Cardinality(reported \cup {s}) = Cardinality(reported) + 1
    BY <1>1, <2>2, FS_AddElement
  <2>4. Cardinality(reported)' = Cardinality(reported) + 1
    BY <1>1, <2>3
  <2>5. /\ Cardinality({t \in Step : rows[t] > 0}) \in Nat
        /\ Cardinality(Counted) \in Nat /\ Cardinality(reported) \in Nat
    BY StepSetsFinite DEF Counted, IInv, TypeOK
  <2>6. faults' = 0 /\ sinkKind = "db" =>
          /\ completedSteps + progressDelta = Cardinality(Counted) + Cardinality(reported)
          /\ completedSteps <= Cardinality({t \in Step : rows[t] > 0}) + Cardinality(reported)
    BY <1>2, <1>5 DEF IInv, ProgressConserved
  <2>7. completedSteps \in Nat /\ progressDelta \in Nat
    BY DEF IInv, TypeOK
  <2>8. faults' = 0 /\ sinkKind = "db" =>
          /\ completedSteps' + progressDelta
               = Cardinality(Counted) + (Cardinality(reported) + 1)
          /\ completedSteps' <= Cardinality({t \in Step : rows[t] > 0})
                                 + (Cardinality(reported) + 1)
    BY <1>5, <2>5, <2>6, <2>7
  <2> QED
    BY <1>1, <1>2, <2>1, <2>4, <2>8 DEF ProgressConserved
<1> QED
  BY <1>3, <1>6, <1>7 DEF IInv

(* What touches neither results nor progress.                               *)
LEMMA QuietIInv ==
  ASSUME IInv, TypeOK', InFlightInv', StopInv',
         Recorded' = Recorded, Counted' = Counted,
         UNCHANGED <<stepResults, progressDelta, rows, completedSteps, faults, sinkKind,
                     reported>>,
         mainPc' = "completed" =>
           \/ mainPc = "completed" /\ (stopped' => stopped)
           \/ faults = 0 /\ sinkKind = "db" => completedSteps = TotalSteps,
         mainPc = "completed" => mainPc' = "completed"
  PROVE  IInv'
<1>1. BufferInv' /\ NeverStoredTwice' /\ NothingLost'
  BY DEF IInv, BufferInv, NeverStoredTwice, NothingLost
<1>2. Cardinality({t \in Step : rows[t] > 0})' = Cardinality({t \in Step : rows[t] > 0})
  OBVIOUS
<1>3. Cardinality(Counted)' = Cardinality(Counted) /\ Cardinality(reported)' = Cardinality(reported)
  OBVIOUS
<1>4. ProgressConserved'
  BY <1>2, <1>3 DEF IInv, ProgressConserved
<1> QED
  BY <1>1, <1>4 DEF IInv

LEMMA FailStepIInv ==
  ASSUME IInv, NEW s \in Step, FailStep(s)
  PROVE  IInv'
<1>1. TypeOK'
  BY DEF IInv, TypeOK, FailStep, buffers, sink, control
<1>2. Recorded' = Recorded /\ Counted' = Counted
  BY DEF IInv, TypeOK, Recorded, Counted, FailStep
<1>3. InFlightInv' /\ StopInv' /\ mainPc = "steps" /\ mainPc' = "steps"
  BY DEF IInv, InFlightInv, StopInv, FailStep, MayRun, control
<1> QED
  BY <1>1, <1>2, <1>3, QuietIInv DEF FailStep, buffers, sink

LEMMA AddArtifactIInv ==
  ASSUME IInv, NEW a \in Artifact, AddArtifact(a)
  PROVE  IInv'
<1>1. TypeOK'
  BY DEF IInv, TypeOK, AddArtifact, sink, control, client
<1>2. Recorded' = Recorded /\ Counted' = Counted
  BY DEF Recorded, Counted, AddArtifact, client
<1>3. InFlightInv' /\ StopInv' /\ mainPc = "steps" /\ mainPc' = "steps"
  BY DEF IInv, InFlightInv, StopInv, AddArtifact, control, client
<1> QED
  BY <1>1, <1>2, <1>3, QuietIInv DEF AddArtifact, sink, client

(* The moves of the flow's goroutine that write nothing.                    *)
MainMoves ==
  \/ FlushAll \/ FlushAllStopped \/ EndModuleEarly \/ RunFails \/ Stop \/ StopFinish
  \/ ProcessEnds \/ UNCHANGED vars

LEMMA MainMovesIInv == IInv /\ MainMoves => IInv'
<1> SUFFICES ASSUME IInv, MainMoves PROVE IInv'
  OBVIOUS
<1>1. UNCHANGED <<buffers, sink, sinkKind, stepPc, reported>>
  BY DEF MainMoves, FlushAll, FlushAllStopped, EndModuleEarly, RunFails, Stop, StopFinish,
         ProcessEnds, vars, client
<1>2. /\ module' \in 1 .. Modules + 1
      /\ mainPc' \in {"steps", "closing", "joining", "done", "failed", "completed"}
      /\ ticker' \in {"running", "exited"}
  BY WriteCoordinatorAssumption
  DEF IInv, TypeOK, MainMoves, FlushAll, FlushAllStopped, EndModuleEarly, RunFails, Stop,
      StopFinish, ProcessEnds, vars, client, NextModule, LastCall
<1>3. stopped' \in BOOLEAN /\ stopCh' \in BOOLEAN
  BY DEF IInv, TypeOK, MainMoves, FlushAll, FlushAllStopped, EndModuleEarly, RunFails, Stop,
         StopFinish, ProcessEnds, vars, control
<1>4. TypeOK'
  BY <1>1, <1>2, <1>3 DEF IInv, TypeOK, buffers, sink
<1>5. Recorded' = Recorded /\ Counted' = Counted
  BY <1>1 DEF Recorded, Counted
<1>6. \/ \A s \in Step : ~ InFlight(s)
      \/ mainPc' = mainPc
  BY DEF IInv, InFlightInv, MainMoves, FlushAll, FlushAllStopped, EndModuleEarly, RunFails, Stop,
         StopFinish, ModuleDone, Quiet, ProcessEnds, vars, client
<1>7. InFlightInv'
  BY <1>1, <1>6 DEF IInv, InFlightInv, InFlight, Reports
<1>8. StopInv'
  BY DEF IInv, StopInv, MainMoves, FlushAll, FlushAllStopped, EndModuleEarly, RunFails, Stop,
         StopFinish, ModuleDone, Quiet, NextModule, ProcessEnds, vars, client, control
<1>9. /\ mainPc' = "completed" => mainPc = "completed" /\ (stopped' => stopped)
      /\ mainPc = "completed" => mainPc' = "completed"
  BY DEF MainMoves, FlushAll, FlushAllStopped, EndModuleEarly, RunFails, Stop, StopFinish,
         ModuleDone, Quiet, NextModule, ProcessEnds, vars, client, control
<1> QED
  BY <1>1, <1>4, <1>5, <1>7, <1>8, <1>9, QuietIInv DEF buffers, sink

(* The caller writes the total over what was counted.                       *)
LEMMA UpdateRunStatusIInv == IInv /\ UpdateRunStatus => IInv'
<1> SUFFICES ASSUME IInv, UpdateRunStatus PROVE IInv'
  OBVIOUS
<1>1. /\ mainPc = "done" /\ mainPc' = "completed"
      /\ \/ /\ completedSteps' = IF sinkKind = "db" THEN TotalSteps ELSE completedSteps
            /\ faults' = faults
         \/ faults < MaxFaults /\ faults' = faults + 1 /\ completedSteps' = completedSteps
      /\ UNCHANGED <<stepResults, progressDelta, artifacts, rows, storedArtifacts, sinkKind,
                     stopped, stopCh, ticker, stepPc, reported, module>>
  BY DEF UpdateRunStatus, buffers, control
<1>2. TypeOK'
  BY <1>1, WriteCoordinatorAssumption DEF IInv, TypeOK
<1>3. Recorded' = Recorded
  BY <1>1 DEF Recorded
<1>4. faults' = 0 => faults = 0 /\ (sinkKind = "db" => completedSteps' = TotalSteps)
  BY <1>1, WriteCoordinatorAssumption DEF IInv, TypeOK
<1>5. BufferInv' /\ NeverStoredTwice' /\ NothingLost'
  BY <1>1, <1>3, <1>4 DEF IInv, BufferInv, NeverStoredTwice, NothingLost
<1>6. InFlightInv' /\ StopInv'
  BY <1>1 DEF IInv, InFlightInv, InFlight, Reports, StopInv
<1>7. ProgressConserved'
  BY <1>1, <1>4 DEF ProgressConserved
<1> QED
  BY <1>2, <1>5, <1>6, <1>7 DEF IInv

LEMMA NextIInv == IInv /\ [Next]_vars => IInv'
<1> SUFFICES ASSUME IInv, [Next]_vars PROVE IInv'
  OBVIOUS
<1>1. CASE \E s \in Step : StepNext(s)
  BY <1>1, AddStepResultIInv, IncrementProgressIInv, FailStepIInv, OnStepCompletedIInv
  DEF StepNext
<1>2. CASE \E a \in Artifact : AddArtifact(a)
  BY <1>2, AddArtifactIInv
<1>3. CASE TickerNext \/ FlushAllFinish
  BY <1>3, FlushersIInv DEF TickerNext
<1>4. CASE UpdateRunStatus
  BY <1>4, UpdateRunStatusIInv
<1>5. CASE MainMoves
  BY <1>5, MainMovesIInv
<1> QED
  BY <1>1, <1>2, <1>3, <1>4, <1>5 DEF Next, MainNext, EarlyNext, Done, MainMoves

LEMMA Invariance == Spec => []IInv
BY InitIInv, NextIInv, PTL DEF Spec

-----------------------------------------------------------------------------
(* Every variable keeps its type: only steps and artifacts are buffered and *)
(* the flow never runs past its last module.                                *)
THEOREM TypeCorrect == Spec => []TypeOK
<1>1. IInv => TypeOK
  BY DEF IInv
<1> QED
  BY <1>1, Invariance, PTL

(* Whichever of threshold, ticker and FlushAll flushes, and wherever a      *)
(* transaction fails, no result is stored twice or is stored and buffered.  *)
THEOREM StoredOnce == Spec => []NeverStoredTwice
<1>1. IInv => NeverStoredTwice
  BY DEF IInv
<1> QED
  BY <1>1, Invariance, PTL

(* A recorded result is in the buffer or in the sink until a write fails.   *)
THEOREM NoResultLost == Spec => []NothingLost
<1>1. IInv => NothingLost
  BY DEF IInv
<1> QED
  BY <1>1, Invariance, PTL

(* completed_steps is what its two writers added to it, each step that      *)
(* succeeded twice and each that failed once, until a write fails or the    *)
(* caller, in the end, writes the total over it.                            *)
THEOREM ProgressIsConserved == Spec => []ProgressConserved
<1>1. IInv => ProgressConserved
  BY DEF IInv
<1> QED
  BY <1>1, Invariance, PTL

(* Only the final flush of FlushAll ends the wait for the ticker.           *)
LEMMA FlushAllStep ==
  ASSUME IInv, Next, mainPc = "joining", mainPc' # "joining", faults' = 0
  PROVE  /\ \A s \in Recorded : rows'[s] = 1
         /\ sinkKind = "db" =>
              completedSteps' = Cardinality(Counted) + Cardinality(reported)
<1>1. FlushAllFinish
  BY DEF Next, StepNext, AddStepResult, IncrementProgress, FailStep, OnStepCompleted,
         AddArtifact, MayRun, TickerNext, Tick, TickerStop, MainNext, FlushAll,
         FlushAllStopped, EarlyNext, EndModuleEarly, RunFails, ProcessEnds, Stop, StopFinish,
         UpdateRunStatus, ModuleDone, Quiet, Done, client
<1>2. FlushLocked(stepResults, progressDelta, artifacts)
  BY <1>1 DEF FlushAllFinish, Flush
<1>3. /\ stepResults \in SUBSET Step /\ progressDelta \in Nat /\ artifacts \in SUBSET Artifact
      /\ TypeOK
  BY DEF IInv, TypeOK
<1>4. /\ faults = 0
      /\ \A s \in Step : rows'[s] = IF s \in stepResults THEN rows[s] + 1 ELSE rows[s]
      /\ sinkKind = "db" => completedSteps' = completedSteps + progressDelta
  BY <1>2, <1>3, FlushEffect
<1>5. \A s \in Recorded : rows'[s] = 1
  <2> SUFFICES ASSUME NEW s \in Recorded PROVE rows'[s] = 1
    OBVIOUS
  <2>1. s \in Step
    BY DEF Recorded
  <2>2. s \in stepResults => rows[s] = 0
    BY <1>3, <2>1 DEF IInv, NeverStoredTwice, TypeOK
  <2>3. s \notin stepResults => rows[s] = 1
    BY <1>4 DEF IInv, NothingLost
  <2> QED
    BY <1>4, <2>1, <2>2, <2>3
<1>6. sinkKind = "db" => completedSteps' = Cardinality(Counted) + Cardinality(reported)
  BY <1>4 DEF IInv, ProgressConserved
<1> QED
  BY <1>5, <1>6

(* The FlushAll that stops the coordinator returns with every recorded      *)
(* result stored and every increment applied, unless a write has failed.    *)
THEOREM FlushAllIsComplete == Spec => FlushAllEmpties
<1>1. IInv /\ [Next]_vars =>
        [mainPc = "joining" /\ mainPc' # "joining" /\ faults' = 0 =>
           /\ \A s \in Recorded : rows'[s] = 1
           /\ sinkKind = "db" =>
                completedSteps' = Cardinality(Counted) + Cardinality(reported)]_vars
  BY FlushAllStep
<1> QED
  BY <1>1, Invariance, PTL DEF Spec, FlushAllEmpties

-----------------------------------------------------------------------------
(* Without Stop, a coordinator is stopped by the FlushAll of a module that  *)
(* reached its end, or of the flow.  No step of the first module runs after *)
(* that; the steps of later modules do, and nobody flushes what they record.*)
OfFirst == {s \in Step : ModuleOf[s] = 1}

FirstInv ==
  ~UseStop =>
    /\ mainPc # "closing"
    /\ mainPc = "joining" => stopped
    /\ stopped /\ mainPc = "steps" => module > 1
    /\ stopped /\ mainPc # "joining" /\ faults = 0 =>
         \A s \in OfFirst \cap Recorded : rows[s] = 1

(* Rows are only added, and a failed write is not forgotten.                *)
LEMMA RowsGrow ==
  ASSUME IInv, [Next]_vars
  PROVE  (\A s \in Step : rows'[s] >= rows[s]) /\ (faults' = 0 => faults = 0)
<1> USE DEF IInv, TypeOK
<1>1. ASSUME NEW results \in SUBSET Step, FlushLocked(results, progressDelta, artifacts),
             results = stepResults \/ results # {}
      PROVE  (\A s \in Step : rows'[s] >= rows[s]) /\ (faults' = 0 => faults = 0)
  <2>1. progressDelta \in Nat /\ artifacts \in SUBSET Artifact
    OBVIOUS
  <2>2. (\A s \in Step : rows'[s] \in {rows[s], rows[s] + 1}) /\ (faults' = 0 => faults = 0)
    <3>1. IsEmpty(results, progressDelta, artifacts) => results = stepResults
      BY <1>1 DEF IsEmpty
    <3> QED
      BY <1>1, <2>1, <3>1, FlushEffect
  <2> QED
    BY <2>2
<1>2. CASE UNCHANGED sink
  BY <1>2 DEF sink
<1>3. ASSUME NEW s \in Step, AddStepResult(s)
      PROVE  \/ UNCHANGED sink
             \/ \E results \in SUBSET Step :
                  results # {} /\ FlushLocked(results, progressDelta, artifacts)
  BY <1>3 DEF AddStepResult
<1>4. CASE Tick \/ TickerStop \/ FlushAllFinish
  BY <1>1, <1>4 DEF Tick, TickerStop, FlushAllFinish, Flush
<1>5. ASSUME \/ UpdateRunStatus
             \/ \E s \in Step : OnStepCompleted(s)
      PROVE  rows' = rows /\ (faults' = 0 => faults = 0)
  BY <1>5, WriteCoordinatorAssumption DEF UpdateRunStatus, OnStepCompleted
<1> QED
  BY <1>1, <1>2, <1>3, <1>4, <1>5
  DEF Next, StepNext, IncrementProgress, FailStep, AddArtifact, TickerNext, MainNext, FlushAll,
      FlushAllStopped, EarlyNext, EndModuleEarly, RunFails, ProcessEnds, Stop, StopFinish,
      Done, vars

LEMMA NextFirstInv == IInv /\ FirstInv /\ [Next]_vars => FirstInv'
<1> SUFFICES ASSUME IInv, FirstInv, ~UseStop, [Next]_vars PROVE FirstInv'
  BY DEF FirstInv
<1>1. IInv'
  BY NextIInv
<1>2. ASSUME NEW s \in Step, rows[s] = 1, s \in Recorded, faults' = 0 PROVE rows'[s] = 1
  <2>1. rows'[s] >= 1 /\ rows'[s] \in Nat
    BY <1>1, <1>2, RowsGrow DEF IInv, TypeOK
  <2>2. rows'[s] <= 1
    BY <1>1, <1>2 DEF IInv, NeverStoredTwice, TypeOK
  <2> QED
    BY <2>1, <2>2
<1>3. /\ module \in 1 .. Modules + 1 /\ OfFirst \subseteq Step /\ Recorded \subseteq Step
      /\ faults' = 0 => faults = 0
  BY RowsGrow DEF IInv, TypeOK, OfFirst, Recorded
<1>4. ASSUME UNCHANGED <<stopped, module>>,
             mainPc' \notin {"closing", "joining"},
             mainPc # "joining",
             mainPc' = "steps" => mainPc = "steps",
             stopped => OfFirst \cap Recorded' \subseteq Recorded
      PROVE  FirstInv'
  BY <1>2, <1>3, <1>4 DEF FirstInv, OfFirst
<1>5. ASSUME NEW s \in Step, StepNext(s) PROVE FirstInv'
  <2>1. UNCHANGED <<stopped, mainPc, module>> /\ mainPc = "steps"
    BY <1>5 DEF StepNext, AddStepResult, IncrementProgress, FailStep, OnStepCompleted, MayRun,
                control, IInv, InFlightInv, InFlight
  <2>2. stopped => ~(s \in OfFirst /\ AddStepResult(s))
    BY <1>3, <2>1 DEF AddStepResult, MayRun, FirstInv, OfFirst
  <2>3. stepPc \in [Step -> {"todo", "recorded", "counted", "failed", "passed"}]
    BY DEF IInv, TypeOK
  <2>4. OfFirst \cap Recorded' \subseteq Recorded \/ (s \in OfFirst /\ AddStepResult(s))
    BY <1>5, <2>3
    DEF StepNext, AddStepResult, IncrementProgress, FailStep, OnStepCompleted, Recorded, OfFirst
  <2> QED
    BY <1>4, <2>1, <2>2, <2>4
<1>6. CASE FlushAll
  BY <1>6 DEF FlushAll, FirstInv
<1>7. CASE FlushAllFinish
  <2>1. /\ mainPc = "joining" /\ mainPc' \in {"steps", "done"} /\ stopped /\ stopped'
        /\ mainPc' = "steps" => module' = module + 1
        /\ stepPc' = stepPc
    BY <1>7 DEF FlushAllFinish, NextModule, FirstInv, control
  <2>2. Next
    BY <1>7 DEF Next, MainNext
  <2>3. faults' = 0 => \A s \in Recorded : rows'[s] = 1
    BY <2>1, <2>2, FlushAllStep
  <2>4. Recorded' = Recorded
    BY <2>1 DEF Recorded
  <2> QED
    BY <1>3, <2>1, <2>3, <2>4 DEF FirstInv, OfFirst
<1>8. CASE FlushAllStopped \/ EndModuleEarly
  <2>1. /\ UNCHANGED <<stopped, stepPc>> /\ mainPc = "steps"
        /\ \/ module' = module + 1 /\ mainPc' = "steps"
           \/ module' = module /\ mainPc' = "done"
    BY <1>8 DEF FlushAllStopped, EndModuleEarly, ModuleDone, Quiet, NextModule, control
  <2>2. Recorded' = Recorded
    BY <2>1 DEF Recorded
  <2> QED
    BY <1>2, <1>3, <2>1, <2>2 DEF FirstInv, OfFirst
<1>9. CASE RunFails \/ UpdateRunStatus \/ ProcessEnds
  <2>1. /\ UNCHANGED <<stopped, module, stepPc>> /\ mainPc # "joining"
        /\ mainPc' \in {"failed", "completed"}
    BY <1>9 DEF RunFails, UpdateRunStatus, ProcessEnds, Quiet, control, client
  <2>2. Recorded' = Recorded
    BY <2>1 DEF Recorded
  <2> QED
    BY <1>4, <2>1, <2>2
<1>10. ~(Stop \/ StopFinish)
  BY DEF Stop, StopFinish, FirstInv
<1>11. ASSUME UNCHANGED <<stopped, mainPc, module, stepPc>> PROVE FirstInv'
  <2>1. Recorded' = Recorded
    BY <1>11 DEF Recorded
  <2> QED
    BY <1>2, <1>3, <1>11, <2>1 DEF FirstInv, OfFirst
<1> QED
  BY <1>5, <1>6, <1>7, <1>8, <1>9, <1>10, <1>11
  DEF Next, AddArtifact, TickerNext, Tick, TickerStop, MainNext, EarlyNext, Done, vars, control,
      client

LEMMA FirstInvariance == Spec => [](IInv /\ FirstInv)
<1>1. Init => FirstInv
  BY DEF Init, FirstInv
<1> QED
  BY <1>1, NextFirstInv, Invariance, PTL DEF Spec

(* Once a FlushAll has stopped the coordinator and returned, every result   *)
(* the first module recorded is stored and stays stored, unless a write has *)
(* failed: what the flow of WriteCoordinator_modules loses its later        *)
(* modules recorded.  Nothing is said of a run that never got to a FlushAll,*)
(* its modules having returned early.                                       *)
THEOREM FirstModuleIsFlushed ==
  Spec => [](~UseStop /\ faults = 0 /\ stopped /\ mainPc # "joining" =>
               \A s \in Recorded : ModuleOf[s] = 1 => rows[s] = 1)
<1>1. FirstInv => (~UseStop /\ faults = 0 /\ stopped /\ mainPc # "joining" =>
                     \A s \in Recorded : ModuleOf[s] = 1 => rows[s] = 1)
  BY DEF FirstInv, OfFirst, Recorded
<1> QED
  BY <1>1, FirstInvariance, PTL

(* FlushedAtEnd, which a flow of two modules does not keep, holds of a run  *)
(* of one module: if a FlushAll came, the module's own or its flow's, then  *)
(* it stored everything.                                                    *)
THEOREM OneModuleIsFlushed ==
  Spec => [](Modules = 1 /\ ~UseStop /\ faults = 0 => FlushedAtEnd)
<1>1. Modules = 1 => OfFirst = Step
  BY WriteCoordinatorAssumption DEF OfFirst
<1>2. FirstInv => (Modules = 1 /\ ~UseStop /\ faults = 0 => FlushedAtEnd)
  BY <1>1 DEF FirstInv, FlushedAtEnd, Recorded
<1> QED
  BY <1>2, FirstInvariance, PTL
=============================================================================

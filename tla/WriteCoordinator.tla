-------------------------- MODULE WriteCoordinator -------------------------
(***************************************************************************)
(* The batching of a run's database writes: WriteCoordinator in            *)
(* internal/database/write_coordinator.go, and the calls the executor      *)
(* makes to it while it runs the modules of a flow one after the other.    *)
(* The run's completed_steps has two more writers: the callback the        *)
(* executor calls after every step, and the caller, when the run ended.    *)
(*                                                                         *)
(* Every method holds mu for the whole of its critical section, so each    *)
(* section is one action.  Between two sections the steps of a module (in  *)
(* parallel when it declares depends_on), the ticker goroutine and the     *)
(* caller of FlushAll interleave.                                          *)
(***************************************************************************)
EXTENDS Integers, FiniteSets

CONSTANTS
  Step,           \* the steps of the flow's modules, one result each
  Modules,        \* how many modules the flow runs, in sequence
  IsFlow,         \* FALSE: a module is run on its own
  ModuleOf,       \* ModuleOf[s]: the module of step s
  HookStep,       \* the steps of a module's hooks
  TotalSteps,     \* total_steps of the run's row
  Artifact,       \* artifacts that may be registered with AddArtifact
  FlushThreshold, \* results that trigger a flush (10 in the code)
  Sinks,          \* where results may go: "db", "redis" on a distributed worker
  MaxFaults,      \* bound: how many writes to the sink may fail
  UseStop         \* whether Stop is called (the tests end a module with it)

ASSUME WriteCoordinatorAssumption ==
  /\ IsFiniteSet(Step)
  /\ Modules \in Nat \ {0}
  /\ IsFlow \in BOOLEAN /\ (IsFlow \/ Modules = 1)
  /\ ModuleOf \in [Step -> 1 .. Modules]
  /\ HookStep \subseteq Step /\ TotalSteps \in Nat
  /\ FlushThreshold \in Nat \ {0}
  /\ Sinks \subseteq {"db", "redis"}
  /\ MaxFaults \in Nat
  /\ UseStop \in BOOLEAN

VARIABLES
  stepResults,    \* buffered results, by step
  progressDelta,  \* buffered increments of completed_steps
  artifacts,      \* buffered artifacts
  stopped,        \* the field stopped
  stopCh,         \* stopCh is closed
  ticker,         \* the ticker goroutine: "running" or "exited"
  rows,           \* rows[s]: how often s's result was stored by the sink
  completedSteps, \* the run's completed_steps; with Redis, what the master
                  \* will have added to it
  storedArtifacts,
  faults,         \* failed writes so far
  reported,       \* the steps whose end was reported to the callback
  sinkKind,       \* shouldUseDistributedHooks: one answer for a process
  stepPc,         \* where executeStep is for each step
  module,         \* the module being run; after the last one, the flow's end
  mainPc          \* where the goroutine that runs the flow is

buffers == <<stepResults, progressDelta, artifacts>>
sink    == <<rows, completedSteps, storedArtifacts, faults>>
control == <<stopped, stopCh>>
client  == <<stepPc, reported, module, mainPc>>
vars    == <<buffers, sink, sinkKind, control, ticker, client>>

TypeOK ==
  /\ stepResults \in SUBSET Step
  /\ progressDelta \in Nat
  /\ artifacts \in SUBSET Artifact
  /\ stopped \in BOOLEAN
  /\ stopCh \in BOOLEAN
  /\ ticker \in {"running", "exited"}
  /\ rows \in [Step -> Nat]
  /\ completedSteps \in Nat
  /\ storedArtifacts \in SUBSET Artifact
  /\ faults \in 0 .. MaxFaults
  /\ sinkKind \in Sinks
  /\ stepPc \in [Step -> {"todo", "recorded", "counted", "failed", "passed"}]
  /\ reported \in SUBSET Step
  /\ module \in 1 .. Modules + 1
  /\ mainPc \in {"steps", "closing", "joining", "done", "failed", "completed"}

Init ==
  /\ stepResults = {}
  /\ progressDelta = 0
  /\ artifacts = {}
  /\ stopped = FALSE
  /\ stopCh = FALSE
  /\ ticker = "running"
  /\ rows = [s \in Step |-> 0]
  /\ completedSteps = 0
  /\ storedArtifacts = {}
  /\ faults = 0
  /\ sinkKind \in Sinks
  /\ stepPc = [s \in Step |-> "todo"]
  /\ reported = {}
  /\ module = 1
  /\ mainPc = "steps"

-----------------------------------------------------------------------------
(* flushLocked, run on buffers holding results, delta and arts.             *)

Inserted(results) == [s \in Step |-> IF s \in results THEN rows[s] + 1 ELSE rows[s]]

(* Mutant: the buffers are not emptied after a write.                       *)
TransactionKeepsBuffers(results, delta, arts) ==
  /\ stepResults' = results
  /\ progressDelta' = delta
  /\ artifacts' = arts
  /\ rows' = Inserted(results)
  /\ completedSteps' = completedSteps + delta
  /\ storedArtifacts' = storedArtifacts \cup arts
  /\ UNCHANGED faults

(* One transaction.  Each statement empties its buffer as soon as it has    *)
(* succeeded; the commit comes last.  reached is the last point it got to:  *)
(* failing there rolls the database back, not the buffers.                  *)
Transaction(results, delta, arts) ==
  \E reached \in {"begin", "progress", "artifacts", "commit", "done"} :
    /\ reached # "done" => faults < MaxFaults
    /\ reached = "progress" => delta > 0
    /\ reached = "artifacts" => arts # {}
    /\ stepResults' = IF reached = "begin" THEN results ELSE {}
    /\ progressDelta' = IF reached \in {"begin", "progress"} THEN delta ELSE 0
    /\ artifacts' = IF reached \in {"begin", "progress", "artifacts"} THEN arts ELSE {}
    /\ IF reached = "done"
         THEN /\ rows' = Inserted(results)
              /\ completedSteps' = completedSteps + delta
              /\ storedArtifacts' = storedArtifacts \cup arts
              /\ UNCHANGED faults
         ELSE /\ faults' = faults + 1
              /\ UNCHANGED <<rows, completedSteps, storedArtifacts>>

(* Mutant: what could not be sent stays buffered with what was sent.        *)
SendToRedisKeepsBuffer(results) ==
  \E sent \in SUBSET results :
    /\ faults' = faults + Cardinality(results \ sent)
    /\ faults' <= MaxFaults
    /\ rows' = Inserted(sent)
    /\ completedSteps' = completedSteps + Cardinality(sent)
    /\ stepResults' = IF sent = results THEN {} ELSE results
    /\ progressDelta' = 0
    /\ artifacts' = {}
    /\ UNCHANGED storedArtifacts

(* A distributed worker sends the results one by one and forgets            *)
(* everything, what could not be sent, the progress and the artifacts       *)
(* included: the master counts completed_steps itself, per result.          *)
SendToRedis(results) ==
  \E sent \in SUBSET results :
    /\ faults' = faults + Cardinality(results \ sent)
    /\ faults' <= MaxFaults
    /\ rows' = Inserted(sent)
    /\ completedSteps' = completedSteps + Cardinality(sent)
    /\ stepResults' = {}
    /\ progressDelta' = 0
    /\ artifacts' = {}
    /\ UNCHANGED storedArtifacts

(* Mutant: isEmpty forgets the progress.                                    *)
IsEmptyIgnoringProgress(results, delta, arts) == results = {} /\ arts = {}

IsEmpty(results, delta, arts) == results = {} /\ delta = 0 /\ arts = {}

FlushLocked(results, delta, arts) ==
  IF IsEmpty(results, delta, arts)
    THEN UNCHANGED <<buffers, sink>>
    ELSE IF sinkKind = "redis" THEN SendToRedis(results)
                           ELSE Transaction(results, delta, arts)

(* Mutant: Flush, like AddStepResult, waits for a full buffer.              *)
FlushWhenFull ==
  IF Cardinality(stepResults) >= FlushThreshold
    THEN FlushLocked(stepResults, progressDelta, artifacts)
    ELSE UNCHANGED <<buffers, sink>>

Flush == FlushLocked(stepResults, progressDelta, artifacts)

-----------------------------------------------------------------------------
(* The steps of the module being run: executeStep records a successful      *)
(* step in two calls, and a failed or skipped one not at all.  Its caller   *)
(* then calls the callback, which every process that writes to the database *)
(* has set, and a distributed worker has not; hooks do without it.          *)

MayRun(s) == mainPc = "steps" /\ ModuleOf[s] = module

Reports(s) == sinkKind = "db" /\ s \notin HookStep

(* A step that has ended, but not all the calls that follow.                *)
InFlight(s) ==
  \/ stepPc[s] = "recorded"
  \/ stepPc[s] \in {"counted", "failed"} /\ Reports(s) /\ s \notin reported

(* Mutant: a full buffer is flushed first and the new result forgotten.     *)
AddStepResultAfterFlush(s) ==
  LET results == stepResults \cup {s}
  IN  /\ MayRun(s)
      /\ stepPc[s] = "todo"
      /\ stepPc' = [stepPc EXCEPT ![s] = "recorded"]
      /\ IF Cardinality(results) >= FlushThreshold
           THEN FlushLocked(stepResults, progressDelta, artifacts)
           ELSE stepResults' = results /\ UNCHANGED <<progressDelta, artifacts, sink>>
      /\ UNCHANGED <<sinkKind, control, ticker, reported, module, mainPc>>

AddStepResult(s) ==
  LET results == stepResults \cup {s}
  IN  /\ MayRun(s)
      /\ stepPc[s] = "todo"
      /\ stepPc' = [stepPc EXCEPT ![s] = "recorded"]
      /\ IF Cardinality(results) >= FlushThreshold
           THEN FlushLocked(results, progressDelta, artifacts)
           ELSE stepResults' = results /\ UNCHANGED <<progressDelta, artifacts, sink>>
      /\ UNCHANGED <<sinkKind, control, ticker, reported, module, mainPc>>

IncrementProgress(s) ==
  /\ stepPc[s] = "recorded"
  /\ stepPc' = [stepPc EXCEPT ![s] = "counted"]
  /\ progressDelta' = progressDelta + 1
  /\ UNCHANGED <<stepResults, artifacts, sink, sinkKind, control, ticker, reported, module,
                 mainPc>>

(* It fails, is skipped, or (the second) is passed over by a decision.      *)
FailStep(s) ==
  /\ MayRun(s)
  /\ stepPc[s] = "todo"
  /\ \E pc \in {"failed", "passed"} : stepPc' = [stepPc EXCEPT ![s] = pc]
  /\ UNCHANGED <<buffers, sink, sinkKind, control, ticker, reported, module, mainPc>>

(* onStepCompleted: IncrementRunCompletedSteps adds one to the same column, *)
(* past the coordinator, however the step ended.                            *)
OnStepCompleted(s) ==
  /\ InFlight(s) /\ stepPc[s] # "recorded"
  /\ reported' = reported \cup {s}
  /\ \/ completedSteps' = completedSteps + 1 /\ UNCHANGED faults
     \/ faults < MaxFaults /\ faults' = faults + 1 /\ UNCHANGED completedSteps
  /\ UNCHANGED <<buffers, rows, storedArtifacts, sinkKind, control, ticker, stepPc, module,
                 mainPc>>

AddArtifact(a) ==
  /\ mainPc = "steps" /\ module <= Modules
  /\ a \notin artifacts \cup storedArtifacts
  /\ artifacts' = artifacts \cup {a}
  /\ UNCHANGED <<stepResults, progressDelta, sink, sinkKind, control, ticker, client>>

-----------------------------------------------------------------------------
(* The ticker goroutine: select between stopCh and the next tick.           *)

Tick ==
  /\ ticker = "running"
  /\ Flush
  /\ UNCHANGED <<sinkKind, control, ticker, client>>

(* Mutant: the stopCh branch flushes and does not return.                   *)
TickerStopLoops ==
  /\ ticker = "running"
  /\ stopCh
  /\ Flush
  /\ UNCHANGED <<sinkKind, control, ticker, client>>

TickerStop ==
  /\ ticker = "running"
  /\ stopCh
  /\ Flush
  /\ ticker' = "exited"
  /\ UNCHANGED <<sinkKind, control, client>>

-----------------------------------------------------------------------------
(* The flow's goroutine.  An ExecuteModule that reaches its end calls       *)
(* FlushAll there, and ExecuteFlow once more at its own end; every other    *)
(* return of the two leaves the coordinator as it is.                       *)

Quiet == mainPc = "steps" /\ \A s \in Step : ~ InFlight(s)

ModuleDone == Quiet /\ \A s \in Step : ModuleOf[s] = module => stepPc[s] # "todo"

(* Where the run ends: with its only module, or after the flow's last one.  *)
LastCall == IF IsFlow THEN Modules + 1 ELSE 1

(* Mutant: an off-by-one in the loop over the modules.                      *)
NextModuleOffByOne ==
  IF module <= LastCall
    THEN module' = module + 1 /\ mainPc' = "steps"
    ELSE UNCHANGED module /\ mainPc' = "done"

NextModule ==
  IF module < LastCall
    THEN module' = module + 1 /\ mainPc' = "steps"
    ELSE UNCHANGED module /\ mainPc' = "done"

(* FlushAll, first section: stopped is set and stopCh closed.               *)
FlushAll ==
  /\ ModuleDone
  /\ ~stopped
  /\ stopped' = TRUE
  /\ stopCh' = TRUE
  /\ mainPc' = "joining"
  /\ UNCHANGED <<buffers, sink, sinkKind, ticker, stepPc, reported, module>>

(* wg.Wait() and the final Flush.                                           *)
FlushAllFinish ==
  /\ mainPc = "joining"
  /\ ticker = "exited"
  /\ Flush
  /\ NextModule
  /\ UNCHANGED <<sinkKind, control, ticker, stepPc, reported>>

(* FlushAll on a stopped coordinator returns at once.                       *)
FlushAllStopped ==
  /\ ModuleDone
  /\ stopped
  /\ NextModule
  /\ UNCHANGED <<buffers, sink, sinkKind, control, ticker, stepPc, reported>>

(* ExecuteModule returns early and the run goes on: skip(), or, in a flow,  *)
(* parameters, a dependency or a step that failed, without an abort.        *)
EndModuleEarly ==
  /\ Quiet /\ module <= Modules
  /\ NextModule
  /\ UNCHANGED <<buffers, sink, sinkKind, control, ticker, stepPc, reported>>

(* The run returns an error: of its only module or of one with an abort, of *)
(* a module that cannot be loaded, of its context, or, at the end, of a     *)
(* circular dependency.                                                     *)
RunFails ==
  /\ Quiet
  /\ mainPc' = "failed"
  /\ UNCHANGED <<buffers, sink, sinkKind, control, ticker, stepPc, reported, module>>

(* Stop: the same as FlushAll without the final Flush.                      *)
Stop ==
  /\ UseStop
  /\ ModuleDone
  /\ ~stopped
  /\ stopped' = TRUE
  /\ stopCh' = TRUE
  /\ mainPc' = "closing"
  /\ UNCHANGED <<buffers, sink, sinkKind, ticker, stepPc, reported, module>>

StopFinish ==
  /\ mainPc = "closing"
  /\ ticker = "exited"
  /\ NextModule
  /\ UNCHANGED <<buffers, sink, sinkKind, control, ticker, stepPc, reported>>

(* UpdateRunStatus of the caller: a run that completed shows completed      *)
(* steps equal to the total, whatever was counted.  (Over Redis, the master *)
(* writes the row.)                                                         *)
UpdateRunStatus ==
  /\ mainPc = "done"
  /\ mainPc' = "completed"
  /\ \/ /\ completedSteps' = IF sinkKind = "db" THEN TotalSteps ELSE completedSteps
        /\ UNCHANGED faults
     \/ faults < MaxFaults /\ faults' = faults + 1 /\ UNCHANGED completedSteps
  /\ UNCHANGED <<buffers, rows, storedArtifacts, sinkKind, control, ticker, stepPc, reported,
                 module>>

(* The command line's process ends with its run; the server's goes on, with *)
(* the ticker of every run that did not stop its coordinator.               *)
ProcessEnds ==
  /\ mainPc \in {"completed", "failed"}
  /\ ticker' = "exited"
  /\ UNCHANGED <<buffers, sink, sinkKind, control, client>>

-----------------------------------------------------------------------------
StepNext(s) == AddStepResult(s) \/ IncrementProgress(s) \/ FailStep(s) \/ OnStepCompleted(s)
TickerNext == Tick \/ TickerStop
MainNext ==
  FlushAll \/ FlushAllFinish \/ FlushAllStopped \/ Stop \/ StopFinish \/ UpdateRunStatus
EarlyNext == EndModuleEarly \/ RunFails \/ ProcessEnds

Done == mainPc \in {"completed", "failed"} /\ UNCHANGED vars

Next ==
  \/ \E s \in Step : StepNext(s)
  \/ \E a \in Artifact : AddArtifact(a)
  \/ TickerNext
  \/ MainNext
  \/ EarlyNext
  \/ Done

(* Goroutines run, the ticker ticks and, once stopCh is closed, its select  *)
(* takes that branch eventually.  A step's command may run for ever.        *)
Fairness ==
  /\ \A s \in Step : WF_vars(IncrementProgress(s) \/ OnStepCompleted(s))
  /\ WF_vars(Tick) /\ WF_vars(TickerStop)
  /\ WF_vars(MainNext)

Spec == Init /\ [][Next]_vars
FairSpec == Spec /\ Fairness
-----------------------------------------------------------------------------
Recorded == {s \in Step : stepPc[s] \in {"recorded", "counted"}}
Counted == {s \in Step : stepPc[s] = "counted"}

(* A result is in the buffer or in the sink, never in both and never stored *)
(* twice, whichever of the flushes takes it and whatever fails.             *)
NeverStoredTwice ==
  \A s \in Step : rows[s] <= (IF s \in Recorded /\ s \notin stepResults THEN 1 ELSE 0)

(* As long as no write has failed nothing recorded is lost.                 *)
NothingLost ==
  faults = 0 => \A s \in Recorded : s \in stepResults \/ rows[s] = 1

(* In the database completed_steps is the sum of its two writers: no        *)
(* increment of either is lost or applied twice, so a step that succeeded   *)
(* counts twice and one that failed once (executor.go:1360, :2693).  What   *)
(* the coordinator adds never runs ahead of the stored results: a step is   *)
(* recorded before it is counted and both travel in one transaction.  In    *)
(* the end the caller writes the total over it (seed.go:4150), and nothing  *)
(* is added later if the coordinator was stopped.                           *)
ProgressConserved ==
  faults = 0 /\ sinkKind = "db" =>
    IF mainPc = "completed"
      THEN stopped => completedSteps = TotalSteps
      ELSE /\ completedSteps + progressDelta = Cardinality(Counted) + Cardinality(reported)
           /\ completedSteps <= Cardinality({s \in Step : rows[s] > 0}) + Cardinality(reported)

(* A FlushAll that had to stop the coordinator leaves nothing behind.       *)
FlushAllEmpties ==
  [][mainPc = "joining" /\ mainPc' # "joining" /\ faults' = 0 =>
       /\ \A s \in Recorded : rows'[s] = 1
       /\ sinkKind = "db" =>
            completedSteps' = Cardinality(Counted) + Cardinality(reported)]_vars

(* When a run has come to its end, FlushAll included, everything recorded   *)
(* is stored.                                                               *)
FlushedAtEnd ==
  mainPc = "done" /\ stopped => \A s \in Recorded : rows[s] = 1

(* While the ticker runs, a recorded result is eventually stored, even if   *)
(* its module never ends, and although nobody flushes when it ends early.   *)
EventuallyStored ==
  \A s \in Step : s \in Recorded ~> (rows[s] = 1 \/ ticker = "exited" \/ faults > 0)

(* Once the steps of a module have ended, the flow moves on: waiting in     *)
(* FlushAll for the ticker never blocks it for good.                        *)
FlowMovesOn ==
  \A m \in 1 .. Modules + 1 :
    (module = m /\ ModuleDone) ~> (module > m \/ mainPc \in {"done", "failed", "completed"})
=============================================================================

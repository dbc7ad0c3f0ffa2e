------------------------------ MODULE StepDAG ------------------------------
(***************************************************************************)
(* The step scheduler of a module whose steps declare depends_on:          *)
(* Executor.executeStepsDAG in internal/executor/executor.go.              *)
(*                                                                         *)
(* One goroutine runs the main loop; it pops ready steps and starts one    *)
(* goroutine per step, at most MaxConcurrency at a time.  The mutex mu     *)
(* makes each critical section of the code one action here; what happens   *)
(* between an unlock and the next lock is a separate action.               *)
(***************************************************************************)
EXTENDS Integers, Sequences, FiniteSets

CONSTANTS
  Step,             \* the step names of the module
  DependsOn,        \* DependsOn[s]: the steps named in s.DependsOn
  MaxConcurrency,   \* capacity of the semaphore (8 in the code)
  ContinueOnError,  \* steps with an on_error action "continue"
  CanFail,          \* steps whose executeStep may return an error
  CanSkip,          \* steps that may call skip()
  Cancellable,      \* whether the run's context may be cancelled
  NoStep            \* not a step

(***************************************************************************)
(* ExecuteModule calls executeStepsDAG only after validateStepDependencies *)
(* and detectStepCycles have accepted the module: every dependency is a    *)
(* step, and no set of steps depends on itself.                            *)
(***************************************************************************)
ASSUME StepDAGAssumption ==
  /\ IsFiniteSet(Step)
  /\ DependsOn \in [Step -> SUBSET Step]
  /\ MaxConcurrency \in Nat \ {0}
  /\ ContinueOnError \subseteq Step
  /\ CanFail \subseteq Step
  /\ CanSkip \subseteq Step
  /\ Cancellable \in BOOLEAN
  /\ NoStep \notin Step

Acyclic ==
  \A S \in (SUBSET Step) \ {{}} : \E s \in S : DependsOn[s] \cap S = {}

ASSUME AcyclicAssumption == Acyclic

VARIABLES
  ready,           \* queue of steps whose dependencies are all settled
  inDegree,        \* per step, its dependencies that are not settled yet
  executed,        \* the map executed, as a set
  failed,          \* the map failed, as a set
  completedCount,  \* the atomic counter the main loop compares to totalSteps
  firstError,      \* "none", "error", or "skip" for ErrSkipModule
  ctxDone,         \* ctx has been cancelled
  mainPc,          \* where the main loop is
  current,         \* the step it has popped and not started yet
  pc,              \* where the goroutine of each step is
  outcome,         \* what became of each step; ok, failed, skip are collected results
  returned         \* what executeStepsDAG returned

graph == <<ready, inDegree>>
marks == <<executed, failed, completedCount>>
main  == <<mainPc, current>>
vars  == <<graph, marks, firstError, ctxDone, main, pc, outcome, returned>>

totalSteps == Cardinality(Step)

Holding == {"spawned", "running", "exiting"}   \* goroutines with a semaphore slot
Settled == {"ok", "failed", "blocked"}         \* outcomes that unblock dependents

(* The orders in which a set of steps can be queued: the first steps come   *)
(* out of a Go map, in no particular order.                                 *)
Elems(q) == {q[i] : i \in DOMAIN q}
Distinct(q) == \A i, j \in DOMAIN q : q[i] = q[j] => i = j
Orders(S) == {q \in [1 .. Cardinality(S) -> S] : Distinct(q)}

(* buildStepDependencyGraph: how many dependencies s waits for.             *)
(* Mutant: a step with dependencies waits for one of them.                  *)
DegreeAtMostOne(s) == IF DependsOn[s] = {} THEN 0 ELSE 1

Degree(s) == Cardinality(DependsOn[s])

TypeOK ==
  /\ ready \in Seq(Step)
  /\ inDegree \in [Step -> Nat]
  /\ executed \in SUBSET Step
  /\ failed \in SUBSET Step
  /\ completedCount \in Nat
  /\ firstError \in {"none", "error", "skip"}
  /\ ctxDone \in BOOLEAN
  /\ mainPc \in {"loop", "waiting", "acquire", "joining", "done"}
  /\ current \in Step \cup {NoStep}
  /\ pc \in [Step -> {"idle", "exited"} \cup Holding]
  /\ outcome \in [Step -> {"none", "skip", "cancelled"} \cup Settled]
  /\ returned \in {"no", "nil", "skipped", "failed"}

Init ==
  /\ inDegree = [s \in Step |-> Degree(s)]
  /\ ready \in Orders({s \in Step : DependsOn[s] = {}})
  /\ executed = {}
  /\ failed = {}
  /\ completedCount = 0
  /\ firstError = "none"
  /\ ctxDone = FALSE
  /\ mainPc = "loop"
  /\ current = NoStep
  /\ pc = [s \in Step |-> "idle"]
  /\ outcome = [s \in Step |-> "none"]
  /\ returned = "no"

-----------------------------------------------------------------------------
(* Mutant: the main loop is never woken.                                    *)
LostSignal == mainPc' = mainPc

(* cond.Signal: the main loop is the only waiter, so a signal to nobody is  *)
(* lost, and a woken main loop goes back to its checks.                     *)
Signal ==
  mainPc' = IF mainPc = "waiting" THEN "loop" ELSE mainPc

(* Mutant: of the steps that s frees, only one is queued.                   *)
UnblockOne(s, rest, marked) ==
  LET freed == {d \in Step : s \in DependsOn[d] /\ inDegree[d] = 1 /\ d \notin marked}
  IN  /\ inDegree' = [d \in Step |->
           IF s \in DependsOn[d] THEN inDegree[d] - 1 ELSE inDegree[d]]
      /\ \E q \in Orders(freed) : ready' = IF q = <<>> THEN rest ELSE Append(rest, Head(q))

(* Count s as finished for each of its dependents, and queue behind rest    *)
(* those with no unsettled dependency left that are not in marked.          *)
Unblock(s, rest, marked) ==
  LET freed == {d \in Step : s \in DependsOn[d] /\ inDegree[d] = 1 /\ d \notin marked}
  IN  /\ inDegree' = [d \in Step |->
           IF s \in DependsOn[d] THEN inDegree[d] - 1 ELSE inDegree[d]]
      /\ \E q \in Orders(freed) : ready' = rest \o q

-----------------------------------------------------------------------------
(* The main loop.  Every iteration first compares the counter: only when it *)
(* equals totalSteps does the loop end.                                     *)

(* Mutant: an off-by-one in the completion check.                           *)
MainBreakEarly ==
  /\ mainPc = "loop"
  /\ completedCount >= totalSteps - 1
  /\ mainPc' = "joining"
  /\ UNCHANGED <<graph, marks, firstError, ctxDone, current, pc, outcome, returned>>

MainBreak ==
  /\ mainPc = "loop"
  /\ completedCount = totalSteps
  /\ mainPc' = "joining"
  /\ UNCHANGED <<graph, marks, firstError, ctxDone, current, pc, outcome, returned>>

MainWait ==
  /\ mainPc = "loop"
  /\ ready = <<>>
  /\ completedCount < totalSteps
  /\ mainPc' = "waiting"
  /\ UNCHANGED <<graph, marks, firstError, ctxDone, current, pc, outcome, returned>>

(* A counter beyond totalSteps neither waits nor ends the loop: it unlocks  *)
(* and starts over, a busy loop.                                            *)
MainSpin ==
  /\ mainPc = "loop"
  /\ ready = <<>>
  /\ completedCount > totalSteps
  /\ UNCHANGED vars

Pop ==
  /\ mainPc = "loop"
  /\ completedCount # totalSteps
  /\ ready # <<>>

MainDiscard ==
  /\ Pop
  /\ Head(ready) \in executed
  /\ ready' = Tail(ready)
  /\ UNCHANGED <<inDegree, marks, firstError, ctxDone, main, pc, outcome, returned>>

(* A step with a failed dependency is marked failed without running.        *)
MainBlock ==
  LET s == Head(ready)
  IN  /\ Pop
      /\ s \notin executed
      /\ DependsOn[s] \cap failed # {}
      /\ executed' = executed \cup {s}
      /\ failed' = failed \cup {s}
      /\ completedCount' = completedCount + 1
      /\ outcome' = [outcome EXCEPT ![s] = "blocked"]
      /\ Unblock(s, Tail(ready), {})
      /\ UNCHANGED <<firstError, ctxDone, main, pc, returned>>

MainPop ==
  /\ Pop
  /\ Head(ready) \notin executed
  /\ DependsOn[Head(ready)] \cap failed = {}
  /\ current' = Head(ready)
  /\ ready' = Tail(ready)
  /\ mainPc' = "acquire"
  /\ UNCHANGED <<inDegree, marks, firstError, ctxDone, pc, outcome, returned>>

(* sem <- struct{}{}; go func(...): mu is not held while it blocks here.    *)
MainSpawn ==
  /\ mainPc = "acquire"
  /\ Cardinality({s \in Step : pc[s] \in Holding}) < MaxConcurrency
  /\ pc' = [pc EXCEPT ![current] = "spawned"]
  /\ current' = NoStep
  /\ mainPc' = "loop"
  /\ UNCHANGED <<graph, marks, firstError, ctxDone, outcome, returned>>

(* wg.Wait() returns when every goroutine that was started has ended.       *)
Joined == \A s \in Step : pc[s] \in {"idle", "exited"}

(* wg.Wait() and the translation of firstError into the module's result.    *)
MainReturn ==
  /\ mainPc = "joining"
  /\ Joined
  /\ mainPc' = "done"
  /\ returned' = CASE firstError = "none"  -> "nil"
                   [] firstError = "skip"  -> "skipped"
                   [] firstError = "error" -> "failed"
  /\ UNCHANGED <<graph, marks, firstError, ctxDone, current, pc, outcome>>
-----------------------------------------------------------------------------
(* The goroutine of step s.                                                 *)

StartStep(s) ==
  /\ pc[s] = "spawned"
  /\ ~ctxDone
  /\ pc' = [pc EXCEPT ![s] = "running"]
  /\ UNCHANGED <<graph, marks, firstError, ctxDone, main, outcome, returned>>

(* The context is done before the step starts: it is counted, its           *)
(* dependents are not.                                                      *)
StartCancelled(s) ==
  /\ pc[s] = "spawned"
  /\ ctxDone
  /\ executed' = executed \cup {s}
  /\ completedCount' = completedCount + 1
  /\ Signal
  /\ pc' = [pc EXCEPT ![s] = "exiting"]
  /\ outcome' = [outcome EXCEPT ![s] = "cancelled"]
  /\ UNCHANGED <<graph, failed, firstError, ctxDone, current, returned>>

FinishOk(s) ==
  /\ pc[s] = "running"
  /\ executed' = executed \cup {s}
  /\ completedCount' = completedCount + 1
  /\ Unblock(s, ready, executed')
  /\ Signal
  /\ pc' = [pc EXCEPT ![s] = "exiting"]
  /\ outcome' = [outcome EXCEPT ![s] = "ok"]
  /\ UNCHANGED <<failed, firstError, ctxDone, current, returned>>

(* The first error of a step without on_error: continue is the module's.    *)
RecordError(s) ==
  firstError' = IF firstError = "none" /\ s \notin ContinueOnError
                  THEN "error" ELSE firstError

(* A cancelled context makes any running step able to fail.                 *)
FinishFailed(s) ==
  /\ pc[s] = "running"
  /\ s \in CanFail \/ ctxDone
  /\ executed' = executed \cup {s}
  /\ failed' = failed \cup {s}
  /\ completedCount' = completedCount + 1
  /\ RecordError(s)
  /\ Unblock(s, ready, executed')
  /\ Signal
  /\ pc' = [pc EXCEPT ![s] = "exiting"]
  /\ outcome' = [outcome EXCEPT ![s] = "failed"]
  /\ UNCHANGED <<ctxDone, current, returned>>

(* skip(): every step not executed yet is counted, running ones included.   *)
FinishSkip(s) ==
  /\ pc[s] = "running"
  /\ s \in CanSkip
  /\ executed' = Step
  /\ completedCount' = completedCount + 1 + Cardinality(Step \ (executed \cup {s}))
  /\ firstError' = IF firstError = "none" THEN "skip" ELSE firstError
  /\ Signal
  /\ pc' = [pc EXCEPT ![s] = "exiting"]
  /\ outcome' = [outcome EXCEPT ![s] = "skip"]
  /\ UNCHANGED <<graph, failed, ctxDone, current, returned>>

(* The deferred <-sem and wg.Done run after mu is released.                 *)
ExitStep(s) ==
  /\ pc[s] = "exiting"
  /\ pc' = [pc EXCEPT ![s] = "exited"]
  /\ UNCHANGED <<graph, marks, firstError, ctxDone, main, outcome, returned>>

Cancel ==
  /\ Cancellable
  /\ ~ctxDone
  /\ mainPc # "done"
  /\ ctxDone' = TRUE
  /\ UNCHANGED <<graph, marks, firstError, main, pc, outcome, returned>>

-----------------------------------------------------------------------------
MainNext ==
  \/ MainBreak \/ MainWait \/ MainSpin \/ MainDiscard
  \/ MainBlock \/ MainPop \/ MainSpawn \/ MainReturn

StepNext(s) ==
  \/ StartStep(s) \/ StartCancelled(s)
  \/ FinishOk(s) \/ FinishFailed(s) \/ FinishSkip(s)
  \/ ExitStep(s)

(* The call has returned and the module goes on elsewhere.                  *)
Done == mainPc = "done" /\ UNCHANGED vars

Next == MainNext \/ (\E s \in Step : StepNext(s)) \/ Cancel \/ Done

(* The Go scheduler runs every goroutine that can run, and every step's     *)
(* command ends: the liveness below is about the scheduler, not about       *)
(* commands that hang.                                                      *)
Fairness == WF_vars(MainNext) /\ \A s \in Step : WF_vars(StepNext(s))

Spec == Init /\ [][Next]_vars
FairSpec == Spec /\ Fairness

-----------------------------------------------------------------------------
(* A step's goroutine exists only if every step it depends on ran and       *)
(* succeeded: a dependent of a failed, blocked, cancelled or skipped step   *)
(* never starts, whatever order the goroutines finish in.                   *)
DependenciesFirst ==
  \A s \in Step : pc[s] # "idle" => \A d \in DependsOn[s] : outcome[d] = "ok"

(* Unless a step called skip(), the counter the main loop compares with     *)
(* totalSteps counts each executed step exactly once, over all the places   *)
(* that add to it (main loop, cancelled and finished goroutines).           *)
SkipCalled == \E s \in Step : outcome[s] = "skip"

CountsEachStepOnce ==
  ~SkipCalled => completedCount = Cardinality(executed)

(* No step is still running, holds a slot or can start once the call has    *)
(* returned: result.Steps is complete and nothing writes to execCtx.        *)
ReturnsQuiescent ==
  returned # "no" => \A s \in Step : pc[s] \notin Holding

(* The error the call returns agrees with what the steps did: nil only if   *)
(* every failed step said on_error: continue and none called skip(), an     *)
(* error only if some step without it failed, "skipped" only after a skip() *)
ErrorMatchesSteps ==
  /\ returned = "nil" =>
       /\ ~SkipCalled
       /\ \A s \in Step : outcome[s] = "failed" => s \in ContinueOnError
  /\ returned = "failed" =>
       \E s \in Step \ ContinueOnError : outcome[s] = "failed"
  /\ returned = "skipped" => SkipCalled

(* A call that returns nil has accounted for every step: it ran, or was     *)
(* blocked by a failed dependency, or its goroutine found the context done. *)
NilMeansAllAccounted ==
  returned = "nil" =>
    \A s \in Step : outcome[s] \in Settled \/ (outcome[s] = "cancelled" /\ ctxDone)

(* The result is honest in all respects: it is final, the error tells what  *)
(* failed, and nil leaves no step out, in whatever order steps fail, skip   *)
(* or find the context done (executor.go:1591, :1637-1650, :1663-1693).     *)
ResultIsHonest == ReturnsQuiescent /\ ErrorMatchesSteps /\ NilMeansAllAccounted

(* A step whose dependents wait for good: its goroutine found the context   *)
(* done, and counted the step without unblocking them (executor.go:1591).   *)
Abandons(s) == outcome[s] = "cancelled" /\ \E d \in Step : s \in DependsOn[d]

(* The main loop never waits for nobody and never spins: if it waits, the   *)
(* goroutine of some step will wake it, and the counter never passes the    *)
(* number of steps, whatever fails, is blocked or continues on error.  Only *)
(* skip() and an abandoned step are exceptions (executor.go:1524-1544).     *)
LoopIsNeverStuck ==
  ~SkipCalled /\ (\A s \in Step : ~Abandons(s)) =>
    /\ completedCount <= totalSteps
    /\ mainPc = "waiting" => \E s \in Step : pc[s] \in {"spawned", "running"}

(* The call returns.                                                        *)
Termination == <>(mainPc = "done")

(* The call returns if no step calls skip() and the run is not cancelled,   *)
(* whatever fails.                                                          *)
TerminatesUnstopped == [](~SkipCalled /\ ~ctxDone) => Termination

(* The steps as StepOrder sees them.                                        *)
stepStatus ==
  [s \in Step |-> IF outcome[s] # "none" THEN outcome[s]
                  ELSE IF pc[s] = "running" THEN "running" ELSE "pending"]

Order == INSTANCE StepOrder WITH status <- stepStatus, ended <- returned # "no"

(* The scheduler keeps StepOrder's promise.                                 *)
ImplementsOrder == Order!Spec
=============================================================================

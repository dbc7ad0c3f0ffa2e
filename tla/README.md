# Osmedeus in TLA+

Osmedeus runs scanning workflows: a *module* is a list of steps, a *flow* a list
of modules. This directory models the parts of the Go program in which goroutines,
processes or machines interleave, checks them with TLC on small instances, and
proves part of the result with TLAPS for every instance.

Each definition that stands for code is listed in `PROJECT.json` under `map` with
the lines it was translated from; `hazards` lists what is hard to test in this
code, with the properties that watch over it.

## Inventory

The components with state that several actors touch come first.

| Component | Code | State | Operations | Hard because |
|---|---|---|---|---|
| Step scheduler | `internal/executor/executor.go` 1491-1690 | ready queue, in-degrees, maps `executed` and `failed`, an atomic counter, `firstError` | main loop; one goroutine per step; semaphore of 8; condition variable; skip(), on_error, cancellation | steps end in any order; the loop ends by comparing a counter that four places increment |
| Write coordinator | `internal/database/write_coordinator.go` | buffers of results, progress and artifacts, `stopped`, `stopCh`, a ticker goroutine | AddStepResult, IncrementProgress, AddArtifact, Flush, FlushAll, Stop | three flush paths race; the transaction can fail at each statement; the modules of a flow share one coordinator |
| Distributed task queue | `internal/distributed/` | Redis: pending list, running hash, results, registry, heartbeats | submit; the worker's loop; heartbeat; the master's health check and reassignment; shutdown | only single commands are atomic; crashes, late heartbeats and shutdowns fall between any two |
| Run control | `internal/executor/run_control_plane.go`, `pkg/server/handlers/runs.go`, `internal/runner/host_runner.go` | one `ActiveRun` per run UUID (cancel function, PIDs), the run's row (status, current PID), processes | register, unregister, AddPID, RemovePID, Cancel, KillAllPIDs, CancelRun | a flow and its modules register under one key; requests come at any time |
| Flow scheduling | `executor.go` 1751-2346 | in-degrees and queue of modules | Kahn's algorithm over modules, one at a time | which modules unblock their dependents |
| Sequential execution, decisions | `executor.go` 1317-1425, 2913-3295 | step index, exports | goto, conditions, on_success, on_error | the last goto wins; loops |
| Scheduler and event receiver | `internal/scheduler/`, `pkg/server/eventreceiver.go` | triggers, event channel, deduplication cache, debounce timers | register, emit, listen, start, stop | locks taken twice, a channel closed under its senders |
| Circuit breaker | `internal/retry/circuit_breaker.go` | atomic state and counters | beforeRequest, afterRequest, Reset | the state is read twice per request, its counters reset in between |
| SSH pool | `internal/runner/ssh_pool.go` | connections with reference counts | Get, Release, cleanup | the lock is dropped while dialling; Release finds its connection by key |
| Queue poller | `pkg/cli/worker_queue.go` | rows with status queued, a channel, a set of seen UUIDs | two pollers, executors, Stop | claims in the database and pops from Redis are not one step; bounded channel |
| Step executors | `internal/executor/*_executor.go` | worker pools per step | one executor per step type | cancellation of a pool's producer |
| Server, database, loader, templates, functions, cloud, AI, configuration, CLI and others | see `components` in `PROJECT.json` | rows, files, caches | requests, I/O | mostly sequential; what is not is under `hazards` |

How they interact. The CLI, the API server, the queue poller, the scheduler and a
distributed worker all call `ExecuteFlow` or `ExecuteModule`. These register with
the run control plane, run steps one after another or through the step scheduler,
record each successful step with the write coordinator, and report the PIDs of
their processes back to the control plane through the runner. The coordinator
writes to the database, or, on a distributed worker, to Redis lists that the
master drains. A cancel request reaches a run through the control plane only.

What makes each correct, in a sentence:

- Step scheduler: a step runs once, after all it depends on succeeded; the call
  returns, and its error agrees with what happened.
- Write coordinator: a result recorded is stored exactly once, the progress counter
  agrees with the results, and FlushAll leaves nothing behind.
- Task queue: a submitted task is always somewhere and ends with a result; only tasks
  of a worker found dead are given out again.
- Run control: as long as a process runs, a cancel request can find it, and no
  process outlives its step.
- Flow scheduling: every module runs at most once, after those it depends on have
  ended, and the verdict on the flow agrees with what happened; a loop of gotos
  ends when its context does.
- Queue poller: a queued run is claimed once, a process executes it once, none that it
  has seen is forgotten, and a row that says running will be written again; Stop returns.
- Scheduler and event receiver: an event is in the channel or in the database until
  it has been dealt with, each trigger is asked about it, and a deduplication key
  is let through once in a window.
- Circuit breaker: a half-open breaker does not lose the places it counts.
- SSH pool: a connection in use is not closed, one that is not in use is not kept.

## Modules

| Module | Models | Checked by | Proved in |
|---|---|---|---|
| `StepOrder` | abstract: what a module with depends_on promises | (refined by StepDAG) | |
| `StepDAG` | `executeStepsDAG` whole | `MCStepDAG` | `StepDAG_proof` |
| `WriteCoordinator` | the coordinator, with its callers in the executor | `MCWriteCoordinator` | `WriteCoordinator_proof` |
| `TaskQueue` | the tasks a master and workers share in Redis | `MCTaskQueue` | `TaskQueue_proof` |
| `RunControl` | a run from its row to its final status, with cancel requests | `MCRunControl` | `RunControl_proof` |
| `RunQueue` | queued runs: rows, Redis list, QueuePollers, StartRun and CancelRun | `MCRunQueue` | `RunQueue_proof` |
| `FlowOrder` | abstract: what a flow promises about the order of its modules | (refined by FlowRun) | |
| `StepLoop` | the sequential loop of `ExecuteModule` with decisions | (part of FlowRun) | |
| `FlowRun` | `ExecuteFlow`; runs each module by StepLoop | `MCFlowRun` | `FlowRun_proof` |
| `EventBus` | events from the run that sends them to the triggers | `MCServices` | `EventBus_proof` |
| `CircuitBreaker` | the breaker, one action per atomic access | `MCServices` | `Services_proof` |
| `SSHPool` | the pool of SSH connections with its users | `MCServices` | `Services_proof` |
| `Services` | EventBus, CircuitBreaker and SSHPool side by side | `MCServices` | `Services_proof` |

An MC module names constants for TLC and, where every initial state of the
specification would be too many, the instances among them that are explored;
`MCServices` explores the three components of `Services` one at a time. Operators whose comment begins with
"Mutant:" are faulty variants of the definition that follows them: each says
which mistake the property listed with it in `PROJECT.json` would reveal. They
are not part of the specifications.

### StepDAG

The mutex `mu` makes each critical section of `executeStepsDAG` one action:
`MainBreak`, `MainWait`, `MainSpin`, `MainDiscard`, `MainBlock` and `MainPop` are the
outcomes of an iteration of the main loop; `MainSpawn` takes the semaphore and
starts the goroutine, with `mu` released; `MainReturn` is `wg.Wait` and what follows.
A goroutine is `StartStep` or `StartCancelled`, then `FinishOk`, `FinishFailed` or
`FinishSkip`, then `ExitStep` (the deferred release of the slot). The ready queue,
`inDegree`, `executed`, `failed`, the counter and `firstError` are the variables of the
code; `outcome` stands for the collected results. What a step does is abstracted to
its outcome; the orders that a Go map may give are all considered. `execCtx`,
exports and printing are left out.

`StepOrder` has only a status per step. `StepDAG` implements it (`ImplementsOrder`)
under `stepStatus`, which shows a goroutine that has not looked at its context
as pending.

### WriteCoordinator

Every method holds `mu` throughout, so each is one action, `FlushAll` and `Stop`
two, with `wg.Wait` between. `Transaction` is `flushLocked` with the point at which it
fails: the buffers are emptied statement by statement, inside the transaction.
`SendToRedis` is the worker's path. The client part is what executor.go does:
`AddStepResult` and `IncrementProgress` per successful step, and FlushAll where
`ExecuteModule` and `ExecuteFlow` reach their ends. Their other returns do without it:
`EndModuleEarly` (skip(), or a failure that the flow survives) and `RunFails` (an abort, a
context, a module that cannot be loaded, a circular dependency). A flow comes to its own end
as `module = Modules + 1`; a module run on its own has only the one (`LastCall`).

The coordinator is not the only writer of `completed_steps`. The callback that API and CLI set
(`onStepCompleted`) adds one per ended step past the coordinator, so every step that succeeds
counts twice (`OnStepCompleted`; the steps of hooks and of distributed workers do without);
and when the run has completed the caller writes `total_steps` over it (`UpdateRunStatus`).
`ProcessEnds` is the end of a CLI process, with a ticker that nobody stopped.

### TaskQueue

One action per Redis command. A worker is register, heartbeat, BRPOP, HSET running,
status, execute, result, HDEL running, status; a shutdown cancels its context, after
which its commands fail without reaching Redis, until `cleanup` removes it with a
context of its own. The master's health check lists the workers, then handles
each suspect: list the running hash, and per task LPUSH and HDEL. `held` and
`judgedDead` remember what no Redis key does, for the properties. A restarted
worker is another element of `Worker`, as its ID is generated anew. Redis itself does
not fail.

### RunControl

One run: a flow of `Modules` modules run in sequence, or a single module. Level 0
is the flow's `ActiveRun`, level m that of its m-th module; `entry` says which one the
control plane has. A step starts one process, whose PID goes through `ReportPID`,
`UpdateRunPID`, `Wait`, `ForgetPID`, `ClearRunPID`. A request to CancelRun is read row, look
up, cancel context, kill PIDs, kill the recorded PID, update row. Simplified: one
process per step; no tmux session, hook, retry or DAG module; PIDs are not reused;
the loop of `KillAllPIDs` is one action; the deferred `cancel()` of a call's own
context, after which nothing looks at it, is omitted.

### RunQueue

A row's `status` is what database and API see. A QueuePoller has a DB goroutine
(`DbPoll`, `DbNext`, `DbClaim`, `DbSend`), a Redis goroutine (`RedisPop`, `RedisCheck`,
`RedisSend`), a channel of twice as many places as executors, and the executors; one
set `seen` for both sources. `DbClaim` is one statement that asks for the status
and changes it, and may fail. `Stop` cancels the context, after which statements fail,
selects may return and sends still wait. StartRun and CancelRun read a row and
write it in a later step. The order of the two lists is left open.

### StepLoop, FlowRun and FlowOrder

`StepLoop` has the index of `ExecuteModule`'s loop and what a step may do to it: a
decision names the next step, the end or nothing, skip() ends the module, a failure
ends it unless the step continues on error, a done context ends it before the next
step. A step or the runner's setup may return a context's error although the
context is not done: the timeout of an HTTP request or of a dial is `DeadlineExceeded` too, and
`ExecuteFlow` cannot tell it from its own (`ModuleCancelled`). `FlowRun` builds the graph by name, as `buildDependencyGraph` does: `EntriesOf` are the
entries of a name, `EntryOf` the one that `buildModuleMap` keeps, and `Edges` the items of
`depends_on` of all of them, each of which counts. It pops the ready queue and enters a module's loop; excluded, skipped, unloadable, failed, aborting
and cancelled modules are actions of their own. The order of dependents that become
ready together is left open (the code ranges over a map). Parameters, hooks, reports and what
a step computes are left out; all modules of a flow have the same steps.
`FlowOrder` has only a status per module: `FlowRun` implements it
(`ImplementsFlowOrder`), with repeated names, repeated and missing dependencies.

### EventBus

The sender (`SendEvent`, `SendFails`, `QueueEventToDatabase`) is another process than the
server. In the server, each request's goroutine and the one for queued rows (`Backlog`) run
`EmitEvent`: it is refused, checked, sends, waits for room, drops, or panics when `Stop`
has closed the channel. The listener receives, locks, and asks one trigger after the
other; a deduplication key is looked up and marked in between. `Die` loses what is in
memory. `schedLock` is `s.mu` where it is held for long: by Stop, or for good by the
registration of a watch trigger. Topics and filters are the constant `Accepts`.

### CircuitBreaker

Every atomic load, store and add of a caller is one action, with the mutex taken and
released where the code does; `saw` is the state a caller loaded, which it goes on
with. The recovery timeout may pass at any time the breaker is open.

### SSHPool

`Get` is `GetPooled` (holding the lock), or `GetDead`/`GetNone`, which drop it, then `Dial` without
it and `Store` with it. `refCount` is the connection's count, `displaced` remembers a
host whose connection was replaced while it was in use, `kept` the references of users whose
Setup failed after Get. `Break` is the network. Docker and the commands run
over a connection are I/O.

## Runs

| Run | Instance | Distinct states | Shows |
|---|---|---|---|
| `StepDAG` | diamond of 4 steps and an independent one, 2 slots, failures, skip(), cancellation | 3,906 | an honest result, refinement of StepOrder; the loop is never stuck, and ends, unless a step skips or is cancelled |
| `StepDAG_skip` | chain of 3 and an independent step that skips | 250 | counterexample: after skip() the loop may never end |
| `StepDAG_cancel` | the same, cancelled | 698 | counterexample: a cancelled step with dependents leaves the loop waiting |
| `WriteCoordinator` | 3 results over 2 modules, one of a hook, 1 artifact, threshold 2, 1 failed write, both sinks | 47,235 | nothing stored twice or lost, `completed_steps` the sum of its writers, FlushAll complete, liveness |
| `WriteCoordinator_modules` | the same without failures, artifacts and Redis | | counterexample: results of the second module remain buffered at the end |
| `TaskQueue` | 1 task, 2 workers, 1 crash, 1 shutdown | 197,714 | no task vanishes, none queued twice, the running hash leads to the holder, reassignment touches only the dead, liveness |
| `TaskQueue_stop` | 1 task, 2 workers, 1 shutdown | | counterexample: a task stopped with its worker is never reassigned |
| `RunControl` | flow of 2 modules with 2 steps, or one module; 2 requests | 339,238 | tracking, what a request finds and what it can miss, no process left behind, a cancelled call returns |
| `RunControl_cancel` | flow of 2 modules, 1 request | | counterexample: an answered cancel request, and the flow goes on |
| `RunQueue` | a new run, 2 processes and a request; 3 queued runs and 1 process; a pending run, 1 process and 2 requests; a queued run, 1 process and a request; 1 failed claim | 224,964 | runs claimed and executed once, none forgotten, the queue moves on, Stop ends or sticks in a send |
| `FlowRun` | all flows of 3 entries with up to 3 dependencies (one name may repeat), one step per module; one module with every sequence of up to 3 steps, any routing and timeouts | 202,953 | order, verdict, refinement of FlowOrder, cancelled flows end |
| `Services` | 2 events, a channel of 1, 3 triggers, 2 starts; 2 callers and Reset, 1 half-open place; 3 users of one host, 1 failed Setup | 483,849 | nothing accepted is lost, one firing per window, no half-open slot leaks, connections are kept |

Why the bounds are enough. StepDAG needs a fan-out, a join, a step next to both, and
fewer slots than steps that are ready at once (3 with `side`); failures and skip()
are allowed where they meet, `left` continues on error and `right` does not.
WriteCoordinator needs a module that reaches the threshold and one that does not, each of
which may end early, and a step that is reported to the callback and one that is not.
TaskQueue needs a worker that has the task, a second that gets it on
reassignment, and one event that takes each kind of departure; its safety
invariants were also explored with two tasks (2.8 million states), which is too
long with liveness. RunControl needs a first and a later module, a first and a
later step, and two requests that overtake one another. RunQueue needs two
processes for one row, more runs than channel and executor can take for the sends that
wait, a request next to the processes that claim and stop, and two requests for one row;
`MCRunQueue` takes these in turn. FlowRun takes
every graph of three entries, circular ones and those with a name nobody has
included, which contains each way of counting a dependency twice. In Services,
events need two that compete for one place and a queued row from before a restart,
two triggers that share a key and one without; the breaker needs as many callers as there are
places, and one more; the pool two users that dial at once, and a third that shares.
`MCServices` takes its three parts one at a time, as they share nothing; that what holds of
each holds of all of them together is proved (`ServicesAreSound`).
Bounds that cap counters: `MaxFaults` (write failures, failed claims), `MaxCrashes`,
`MaxStops`, `MaxStarts` (of the server), `MaxSetupFails`, `MaxConds` (matching
conditions of a step), `MaxEdges` (dependencies in a flow).

Deadlock is checked for WriteCoordinator. Elsewhere the system really stops: a skipped
or cancelled DAG (see the counterexamples), a queue with nothing to do and no
worker, a run or a flow that has ended, a poller or a server that was stopped.

Fairness. Goroutines that can run do (weak fairness on the main loop and on each
goroutine): the Go scheduler guarantees that. A step's command need not end where
the property is about something else: in WriteCoordinator and RunControl no fairness is
assumed for it (RunControl cancels processes that would run for ever), and in
WriteCoordinator none for early returns and the end of the process, which may happen or not; a
step that was recorded is counted and reported, as these calls follow at once. In StepDAG
it is assumed, as the call cannot end before its commands do. In TaskQueue the worker's and the
master's loops go on, and the heartbeat of a worker that is down expires; a live
worker's heartbeat may expire at any time. In RunQueue the goroutines of a process and
its executors go on, so a run that was begun ends; in FlowRun the executor does and
steps end, but nothing bounds how often they jump back, and nobody is assumed to cancel. In EventBus the listener runs when it can, and
Stop's holder of the lock goes on; senders and the receiver may stop anywhere. Nobody is
assumed to crash, stop, cancel or fail.

## Disagreements between code and documentation

Each is a run with a counterexample and a finding in `PROJECT.json`.

1. `executor.go:1637` "Mark all remaining steps as completed to break the main loop":
   skip() also counts the steps still running; they count themselves again, the
   counter passes `totalSteps` and the loop, which tests for equality, spins.
2. `executor.go:1591`: a step cancelled before it starts does not unblock its
   dependents; the loop waits for ever, with the API's cancellation
   (`runs.go:926`) waiting for it.
3. `write_coordinator.go:202` "FlushAll flushes everything and stops the coordinator":
   the first module of a flow stops it for all the others.
4. `worker.go:427`: a worker that is stopped leaves the registry before its task is
   reassigned; the task stays in the running hash for good.
5. `executor.go:964`: a module's registration replaces the flow's, so a cancel
   request can end a module that is just ending and leave the flow running.

Seen while reading, without a run: in runs of the API and the CLI every step that succeeds is
counted twice while the run lasts, by the coordinator and by the callback (`executor.go:2693` and 1360 or
1628), so `completed_steps` passes `total_steps`, until `seed.go:4150` sets it to the total; a module run on its
own that ends by skip() leaves its ticker running, which may add to the total after that; a CLI run that fails
loses the results still buffered when its process ends; a step's own timeout cancels the whole flow,
whatever its on_error says (`executor.go:2178`, commented "Check for context cancellation FIRST
(interrupt/timeout)"); after skip(), a step that was popped before
still starts (`executor.go:1579`); a cancelled DAG module in which only steps without
dependents were pending returns nil and counts as completed, where the sequential
loop (1318-1330) reports cancelled; results that could not be sent to Redis
are dropped (`write_coordinator.go:125-127`); `Stop` (192-195) promises no flush but the
ticker flushes on its way out (219); `HACKING.md:1319` calls a `wc.Close()` that does not
exist; `HACKING.md:698` gives Cancel a different result; a request that comes
before a run has registered is answered while the run goes on to complete, and
the status written last wins; `write_coordinator.go:110` "in a single transaction": the buffers are
emptied before the commit, so what a rolled back transaction held is gone; an
`abort` in a module's on_error ends the flow also when its condition is false
(`executor.go:2199-2212`, where 3162 asks for the condition), and the `_abort` that a step exports
"so the caller can honor it" (3205, 3269) is read by nobody; the poller's Redis goroutine does not
claim the row of the task it has popped, so a second process may execute the run too
(`worker_queue.go:220`); a Stop of the poller can wait for a send for ever (154, 230); a
deduplication entry may be deleted just after it was renewed (`scheduler.go:115`); the
breaker may let more than `MaxHalfOpenRequests` through, as its counter can become negative
(`circuit_breaker.go:148-176`); a pooled SSH connection that was replaced under its users may be
closed while in use, or never (`ssh_pool.go:166-199`); a worker that was found dead for a late
heartbeat, is alive and crashes between taking its next task and writing its status is not in
the registry, so that task stays in the running hash for good (`worker.go:253-258`, `master.go:211`); the registration of a watch trigger waits for its own
lock (`scheduler.go:276`); a send on the closed event channel ends the server when it comes from
`processQueuedEvents`; and an event whose sender gave up waiting may be emitted twice
(`server_event.go:143`).

## Proofs

`StepDAG_proof` holds for every finite set of steps, every dependency relation, slot
count and choice of failing, skipping and continuing steps, from
`StepDAGAssumption`. The invariants do
not suffice on their own: that a step's dependencies succeeded depends on the
queue, and that on `inDegree`. `IInv` therefore adds that a goroutine's stage fixes its
outcome (`StageInv`), that a queued step is queued once and untouched (`QueueInv`,
`CurrentInv`), that `inDegree` is the number of dependencies not yet settled, zero for
any step that has left its place (`DegreeInv`), that the two maps and the counter
restate the outcomes (`MarksInv`), and what `firstError` and the end of the loop imply
(`ErrorInv`, `ReturnInv`). The lemma `UnblockSettles` carries the argument: settling a step
decrements exactly its dependents and queues exactly those that reach zero.
Theorems: `TypeCorrect`, `DependenciesComeFirst`, `CounterIsExact`,
`NoGoroutineOutlivesCall`, `ErrorIsTruthful`, `NilIsHonest`, `ResultHonest` (both of these as
the run checks them), and `Refinement` (`Spec => ImplementsOrder`).

`LoopNeverStuck` is the part of termination that is a safety property, and the only theorem here
that needs the graph to be acyclic (`AcyclicAssumption`): the condition variable is not waited
for when nobody will signal it, and the counter does not pass `totalSteps`. Two more
invariants: a step whose dependencies are settled is queued, current, or has left its place
(`ReadyInv`, the converse of `DegreeInv`), and the loop waits only with an empty queue (`WakeInv`).
If the loop waits and no goroutine runs, the steps without an outcome would each depend on another of them,
which no acyclic graph allows. So the two counterexamples, `StepDAG_skip` and
`StepDAG_cancel`, are the only ways for the loop to hang.

`RunControl_proof` holds for any number of modules, steps and requests, from
`RunControlAssumption`. `IInv` says where the executor's place puts the entry
(`PlaceInv`), that only the current step has a process (`ProcessInv`), what a request has
done when it kills (`RequestInv`), and that only a request that cancelled the
module's context takes its process out of the books (`TrackInv`). Theorems: `TypeCorrect`,
`ProcessIsTracked`, `EntryBelongsToCall`, `NothingLeftBehind`, `RowNamesCurrent`. With `FoundInv`, that what a
request found lies behind the executor or is where it is, `CancelIsNoticed` says what a request
can miss: only a flow, and only when it found the entry of an earlier module.
`SingleModuleIsReached`: a module run on its own is always reached, so the counterexample of `RunControl_cancel`
comes from the key that a flow shares with its modules and from nothing else.

`WriteCoordinator_proof` holds for any steps, modules, threshold and number of
failing writes, from `WriteCoordinatorAssumption` (a finite set of steps). The
checked invariants need some help: only recorded results are buffered (`BufferInv`), the run
moves on when every call of its steps has returned (`InFlightInv`), and whoever stopped the
coordinator has waited for the ticker (`StopInv`). The last two say why a stopped coordinator adds
nothing once the caller has written the total. The lemma `FlushEffect` says once what a
transaction may do to the sink and the buffers, and `FlushIInv` carries the invariant over it for the
threshold, the ticker and `FlushAll` alike; `OnStepCompletedIInv` and `UpdateRunStatusIInv` do so for
the other two writers of `completed_steps`, `MainMovesIInv` for the moves that write nothing, early returns
among them. Theorems: `TypeCorrect`, `StoredOnce`,
`NoResultLost`, `ProgressIsConserved`, and the action property `FlushAllIsComplete`.
Two theorems bound what the counterexample of `WriteCoordinator_modules` shows, both without Stop and failed writes:
a run of one module that came to its FlushAll ends with everything stored (`OneModuleIsFlushed`), and of
a flow only the modules after the first can lose results to a stopped coordinator: once a FlushAll
has stopped it and returned, whichever modules returned early before, the results of the first are
stored (`FirstModuleIsFlushed`, by `FirstInv`).

`TaskQueue_proof` holds for any tasks and workers, and however many of these crash, stop or
miss their heartbeats, from `TaskQueueAssumption`. The properties are not inductive: that
reassignment queues a task once depends on what master and workers hold in between.
`IInv` adds which worker the master is handling (`MasterInv`), what a worker's place says
of its task (`HeldInv`), that a queued or freshly popped task is not on any list of tasks
to reassign (`QueuedInv`, `PoppedInv`), and that the task of a worker never found dead
stays its own (`LiveInv`). The lemmas `PushLeft` and `PopRight` say what LPUSH and
BRPOP do to a list without duplicates. Theorems: `TypeCorrect`, `NoTaskLost`,
`TaskQueuedOnce`, `EntryNamesHolder`; `TasksStay`, that a task is neither queued again nor with a
second worker before the first was found dead; and, with `RegisteredInv` (who has left the
registry was stopped or found dead), `EntryLeadsThere`: the health check, which goes through the
registry, comes upon the worker that an entry of the running hash names.

`RunQueue_proof` holds for any runs, processes, executors and requests. That a process
executes a run once needs to know where a run can be before: `OnceAt` says of each
process that a run in a goroutine's hands or in the channel was seen, has not begun, and is
in one of these places only; `ClaimInv` that a claimed row is not queued any more. One lemma per
group of actions carries them; `OthersStay` says that a process does not disturb another's, and
`SendKeepsChannel` what a send does to the channel. Theorems: `TypeCorrect`, `RunClaimedOnce`, and
`RunsAreKept`. Its first half, `RunningHasAWriter`, says of a running row that the very process that
claimed it has it in hand or was stopped, or that a StartRun request will write it; what
it needs besides is that claims are never taken back (`WriterStays`). Its second half is the safety part of
`QueuedRunStarts`: a process marks a run as seen before it claims it and never looks at it twice, so what it has seen has to be with it until it is begun
(`SeenIsInHand`, with `KnownInv`: a run without a row is known nowhere). `HasStays` says what a step must not do to that.

`FlowRun_proof` holds for every flow, with names and dependencies that repeat, are missing or
go in a circle, and for any steps of its modules. What makes it work is that `inDegree` counts
items of `depends_on`, not modules: `DegreeInv` says that it is the number of edges whose target
was not dealt with (`Left`), so a name that occurs twice is counted and taken off
twice. `QueueInv` says that what waits for nothing is queued, `EntryInv` that the entry popped is new and
waits for nothing, `ResultsInv` that there is one result per name dealt with, `ExecutedInv` that none of
these waits for a circle or for a name nobody has (`Stuck`). `UnblockKeeps` carries the counts over the
code's loop over dependents; `NothingReady` says that when the queue is empty exactly the stuck modules
are left. `LeastExists` and `GreatestExists` say that a CHOOSE is well defined: the first step of a
name, and the last entry of one. Theorems: `TypeCorrect`, `VerdictRight` (a flow is cancelled only with its
context or by a context's error of its last module, and such an error always ends it), and
`Refinement` (`Spec => ImplementsFlowOrder`), one lemma per kind of step.

`EventBus_proof` holds for any events, triggers, keys, channel size and number of
restarts. `BacklogInv` and `RequestInv` say what an emitting goroutine's place means for the event it
has, `WindowInv` that a key whose window is open is marked in the cache unless the cleanup deleted
the mark. `NoEventIsSkipped` is the safety part of `AcceptedIsDispatched`: an
event leaves the channel for the listener only, and the listener only when every
trigger was asked, unless the process ends; it needs that an idle listener holds
no event. Theorems: `BusTypeCorrect`, `NoEventDisappears`, `KeyOncePerWindow`,
`NoEventIsSkipped`.

`Services_proof` has the other two components of the server, and all three together. The breaker holds
for any number of callers (finite) and any thresholds; `SlotInv`: a
caller is counted from the step that adds it to the one that takes it off
(`BreakerTypeCorrect`, `SlotsComeBack`). The pool holds for any hosts, users (finitely many) and connections;
`PooledInv` says that a connection is under one host and not closed, `DialledInv` that one just
dialled is its caller's alone; `UserComes` and `UserGoes` carry the count (`PoolTypeCorrect`,
`ConnectionsAreKept`). These are about each component's own specification. `ServicesTypeCorrect` and
`ServicesAreSound` are about `Services`, where the steps of the three interleave.

Only model-checked: the liveness properties (`TerminatesUnstopped`, `EventuallyStored`,
`FlowMovesOn`, `CrashedEntriesCleared`, `TasksComplete`, `CancelledCallReturns`,
`QueuedRunStarts`, `StopEndsOrSticks`, `CancelEnds`, `AcceptedIsDispatched`), as liveness under
fairness is out of the provers' reach. Every invariant and safety property of a passing run
is a theorem.

## Not modelled

Per component, with the reason, in `PROJECT.json`. In short: step executors,
templates, functions, parsing, linting, handlers, cloud, AI, notifications,
installation, snapshots and the CLI are sequential data processing or I/O. Of the
modelled components: the master's lock and data queues, the execute request
channel, tmux, Docker and SSH processes, hooks; cron jobs, file watches, debouncing and
what a trigger's handler does with an event; events over Redis; the delays of `retry.Do`.

## Plan

Done: StepDAG with its refinement, WriteCoordinator, TaskQueue, RunControl, RunQueue,
FlowRun with StepLoop and its refinement, EventBus, CircuitBreaker, SSHPool, and the
proofs of all their safety properties. Left, in order of importance:

1. The data queues and the master's lock, next to `TaskQueue`; the execute request channel.
2. The worker pools of foreach and parallel steps, with their cancellation.
3. Cron jobs, watched paths and debouncing, next to `EventBus`.

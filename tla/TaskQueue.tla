------------------------------ MODULE TaskQueue ----------------------------
(***************************************************************************)
(* Distributed execution: the task queue a master and its workers share in *)
(* Redis (internal/distributed: master.go, worker.go, client.go).          *)
(*                                                                         *)
(* Redis executes one command at a time, so every command is one action.   *)
(* Nothing makes two commands atomic: the worker's and the master's        *)
(* sequences of commands interleave freely, and a worker can die between   *)
(* any two of its own.                                                     *)
(***************************************************************************)
EXTENDS Integers, Sequences, FiniteSets

CONSTANTS
  Task,         \* tasks that may be submitted, once each
  Worker,       \* worker processes; a restarted worker has a new ID
  MaxCrashes,   \* bound: how many workers may crash
  MaxStops,     \* bound: how many workers may be shut down
  NoTask, NoWorker

ASSUME TaskQueueAssumption ==
  /\ IsFiniteSet(Task) /\ IsFiniteSet(Worker)
  /\ MaxCrashes \in Nat /\ MaxStops \in Nat
  /\ NoTask \notin Task /\ NoWorker \notin Worker

VARIABLES
  pending,    \* osm:tasks:pending, a list; pushed on the left, popped on the right
  running,    \* osm:tasks:running, the worker recorded for each task
  completed,  \* osm:tasks:completed, the tasks with a result
  workers,    \* osm:workers, the registered workers
  fresh,      \* workers whose entry in osm:workers:heartbeat is recent
  submitted,  \* tasks handed to SubmitTask
  pc,         \* where each worker is
  held,       \* the task each worker popped last and has not finished
  stopping,   \* workers whose context is cancelled
  mpc,        \* where the master's health check is
  toCheck,    \* workers it has listed and not looked at
  suspect,    \* the worker it is handling
  toReassign, \* running tasks it has listed and not reassigned
  inHand,     \* the task it has pushed and not removed from running
  judgedDead  \* workers it has ever found dead

redis  == <<pending, running, completed, workers, fresh>>
local  == <<pc, held, stopping>>
master == <<mpc, toCheck, suspect, toReassign, inHand, judgedDead>>
vars   == <<redis, submitted, local, master>>

TypeOK ==
  /\ pending \in Seq(Task)
  /\ running \in [Task -> Worker \cup {NoWorker}]
  /\ completed \in SUBSET Task
  /\ workers \in SUBSET Worker
  /\ fresh \in SUBSET Worker
  /\ submitted \in SUBSET Task
  /\ pc \in [Worker -> {"new", "joined", "idle", "popped", "marked", "executing",
                        "reported", "removed", "gone", "crashed"}]
  /\ held \in [Worker -> Task \cup {NoTask}]
  /\ stopping \in SUBSET Worker
  /\ mpc \in {"list", "tasks", "push", "hdel", "forget"}
  /\ toCheck \in SUBSET Worker
  /\ suspect \in Worker \cup {NoWorker}
  /\ toReassign \in SUBSET Task
  /\ inHand \in Task \cup {NoTask}
  /\ judgedDead \in SUBSET Worker

Init ==
  /\ pending = <<>>
  /\ running = [t \in Task |-> NoWorker]
  /\ completed = {}
  /\ workers = {}
  /\ fresh = {}
  /\ submitted = {}
  /\ pc = [w \in Worker |-> "new"]
  /\ held = [w \in Worker |-> NoTask]
  /\ stopping = {}
  /\ mpc = "list"
  /\ toCheck = {}
  /\ suspect = NoWorker
  /\ toReassign = {}
  /\ inHand = NoTask
  /\ judgedDead = {}

Down(w) == pc[w] \in {"gone", "crashed"}
-----------------------------------------------------------------------------
(* Submission, by the API server, the CLI or a worker's request.            *)

SubmitTask(t) ==
  /\ t \notin submitted
  /\ submitted' = submitted \cup {t}
  /\ pending' = <<t>> \o pending
  /\ UNCHANGED <<running, completed, workers, fresh, local, master>>

-----------------------------------------------------------------------------
(* A worker.  Once its context is cancelled its commands fail without       *)
(* reaching Redis; every error is logged and the worker goes on.            *)

Goto(w, from, to) == pc[w] = from /\ pc' = [pc EXCEPT ![w] = to]

(* register: two commands.                                                  *)
Register(w) ==
  /\ Goto(w, "new", "joined")
  /\ workers' = workers \cup {w}
  /\ UNCHANGED <<pending, running, completed, fresh, submitted, held, stopping, master>>

FirstHeartbeat(w) ==
  /\ Goto(w, "joined", "idle")
  /\ fresh' = fresh \cup {w}
  /\ UNCHANGED <<pending, running, completed, workers, submitted, held, stopping, master>>

(* heartbeatLoop, a goroutine of its own.                                   *)
UpdateWorkerHeartbeat(w) ==
  /\ pc[w] \notin {"new", "joined"} /\ ~Down(w)
  /\ w \notin stopping
  /\ fresh' = fresh \cup {w}
  /\ UNCHANGED <<pending, running, completed, workers, submitted, local, master>>

(* BRPOP: the task is in nobody's books until SetTaskRunning.               *)
PopTask(w) ==
  /\ Goto(w, "idle", "popped")
  /\ w \notin stopping
  /\ pending # <<>>
  /\ held' = [held EXCEPT ![w] = pending[Len(pending)]]
  /\ pending' = SubSeq(pending, 1, Len(pending) - 1)
  /\ UNCHANGED <<running, completed, workers, fresh, submitted, stopping, master>>

(* Mutant: the task's own ID is stored where the worker's belongs.          *)
SetTaskRunningToTask(w) ==
  /\ Goto(w, "popped", "marked")
  /\ running' = IF w \in stopping THEN running ELSE [running EXCEPT ![held[w]] = held[w]]
  /\ UNCHANGED <<pending, completed, workers, fresh, submitted, held, stopping, master>>

SetTaskRunning(w) ==
  /\ Goto(w, "popped", "marked")
  /\ running' = IF w \in stopping THEN running ELSE [running EXCEPT ![held[w]] = w]
  /\ UNCHANGED <<pending, completed, workers, fresh, submitted, held, stopping, master>>

(* updateStatus writes the whole registry entry: it registers a worker that *)
(* the master has removed again, without a heartbeat.                       *)
Registered(w) == IF w \in stopping THEN workers ELSE workers \cup {w}

UpdateStatusBusy(w) ==
  /\ Goto(w, "marked", "executing")
  /\ workers' = Registered(w)
  /\ UNCHANGED <<pending, running, completed, fresh, submitted, held, stopping, master>>

(* Mutant: a result is not stored.                                          *)
SetNoTaskResult(w) ==
  /\ Goto(w, "executing", "reported")
  /\ UNCHANGED <<redis, submitted, held, stopping, master>>

(* executeTask returns, with success or not, and its result is stored.      *)
SetTaskResult(w) ==
  /\ Goto(w, "executing", "reported")
  /\ completed' = IF w \in stopping THEN completed ELSE completed \cup {held[w]}
  /\ UNCHANGED <<pending, running, workers, fresh, submitted, held, stopping, master>>

(* Mutant: the worker keeps its entry when the master has removed it from   *)
(* the registry meanwhile.                                                  *)
RemoveTaskRunningIfListed(w) ==
  /\ Goto(w, "reported", "removed")
  /\ running' = IF w \in stopping \/ w \notin workers THEN running
                ELSE [running EXCEPT ![held[w]] = NoWorker]
  /\ UNCHANGED <<pending, completed, workers, fresh, submitted, held, stopping, master>>

(* HDEL by task: it removes the entry of whichever worker is recorded.      *)
RemoveTaskRunning(w) ==
  /\ Goto(w, "reported", "removed")
  /\ running' = IF w \in stopping THEN running
                ELSE [running EXCEPT ![held[w]] = NoWorker]
  /\ UNCHANGED <<pending, completed, workers, fresh, submitted, held, stopping, master>>

(* A worker that is stopping keeps held, so that what it took with it can   *)
(* be told.                                                                 *)
UpdateStatusIdle(w) ==
  /\ Goto(w, "removed", "idle")
  /\ workers' = Registered(w)
  /\ held' = IF w \in stopping THEN held ELSE [held EXCEPT ![w] = NoTask]
  /\ UNCHANGED <<pending, running, completed, fresh, submitted, stopping, master>>

(* SIGINT or SIGTERM cancels the worker's context.                          *)
Stop(w) ==
  /\ Cardinality(stopping) < MaxStops
  /\ pc[w] \notin {"new", "joined"} /\ ~Down(w)
  /\ w \notin stopping
  /\ stopping' = stopping \cup {w}
  /\ UNCHANGED <<redis, submitted, pc, held, master>>

(* cleanup, with a context of its own, removes the worker; its heartbeat is *)
(* not asked for any more.                                                  *)
Leave(w) ==
  /\ Goto(w, "idle", "gone")
  /\ w \in stopping
  /\ workers' = workers \ {w}
  /\ fresh' = fresh \ {w}
  /\ UNCHANGED <<pending, running, completed, submitted, held, stopping, master>>

Crash(w) ==
  /\ Cardinality({x \in Worker : pc[x] = "crashed"}) < MaxCrashes
  /\ pc[w] # "new" /\ ~Down(w)
  /\ pc' = [pc EXCEPT ![w] = "crashed"]
  /\ UNCHANGED <<redis, submitted, held, stopping, master>>

(* HeartbeatTimeout passes without a new heartbeat: a live worker may be    *)
(* paused or cut off.                                                       *)
HeartbeatExpires(w) ==
  /\ w \in fresh
  /\ fresh' = fresh \ {w}
  /\ UNCHANGED <<pending, running, completed, workers, submitted, local, master>>

-----------------------------------------------------------------------------
(* The master's workerMonitorLoop: checkWorkerHealth on every tick.         *)

ListWorkers ==
  /\ mpc = "list"
  /\ toCheck = {}
  /\ workers # {}
  /\ toCheck' = workers
  /\ UNCHANGED <<redis, submitted, local, mpc, suspect, toReassign, inHand, judgedDead>>

(* Mutant: only a worker that left the registry counts as dead.             *)
UnregisteredOnly(w) == w \notin fresh /\ w \notin workers

(* No heartbeat at all, or none for longer than HeartbeatTimeout.           *)
MissedHeartbeats(w) == w \notin fresh

GetWorkerHeartbeat ==
  /\ mpc = "list"
  /\ \E w \in toCheck :
       /\ toCheck' = toCheck \ {w}
       /\ IF MissedHeartbeats(w)
            THEN /\ mpc' = "tasks"
                 /\ suspect' = w
                 /\ judgedDead' = judgedDead \cup {w}
            ELSE UNCHANGED <<mpc, suspect, judgedDead>>
  /\ UNCHANGED <<redis, submitted, local, toReassign, inHand>>

(* Mutant: the tasks of every worker are reassigned.                        *)
TasksOfAnyone(w) == {t \in Task : running[t] # NoWorker}

TasksOf(w) == {t \in Task : running[t] = w}

GetAllRunningTasks ==
  /\ mpc = "tasks"
  /\ toReassign' = TasksOf(suspect)
  /\ mpc' = "push"
  /\ UNCHANGED <<redis, submitted, local, toCheck, suspect, inHand, judgedDead>>

(* reassignWorkerTasks goes through the tasks it has listed: it pushes each *)
(* of them, whatever has become of it since, and then removes its entry     *)
(* from the running hash, whosever entry it is by then.                     *)
PushTask ==
  /\ mpc = "push"
  /\ \E t \in toReassign :
       /\ pending' = <<t>> \o pending
       /\ inHand' = t
       /\ toReassign' = toReassign \ {t}
  /\ mpc' = "hdel"
  /\ UNCHANGED <<running, completed, workers, fresh, submitted, local, toCheck,
                 suspect, judgedDead>>

(* Mutant: the reassigned task stays in the running hash.                   *)
KeepReassigned ==
  /\ mpc = "hdel"
  /\ inHand' = NoTask
  /\ mpc' = "push"
  /\ UNCHANGED <<redis, submitted, local, toCheck, suspect, toReassign, judgedDead>>

RemoveReassigned ==
  /\ mpc = "hdel"
  /\ running' = [running EXCEPT ![inHand] = NoWorker]
  /\ inHand' = NoTask
  /\ mpc' = "push"
  /\ UNCHANGED <<pending, completed, workers, fresh, submitted, local, toCheck,
                 suspect, toReassign, judgedDead>>

(* RemoveWorker, two commands.                                              *)
RemoveWorker ==
  /\ mpc = "push"
  /\ toReassign = {}
  /\ workers' = workers \ {suspect}
  /\ mpc' = "forget"
  /\ UNCHANGED <<pending, running, completed, fresh, submitted, local, toCheck,
                 suspect, toReassign, inHand, judgedDead>>

ForgetHeartbeat ==
  /\ mpc = "forget"
  /\ fresh' = fresh \ {suspect}
  /\ suspect' = NoWorker
  /\ mpc' = "list"
  /\ UNCHANGED <<pending, running, completed, workers, submitted, local, toCheck,
                 toReassign, inHand, judgedDead>>

-----------------------------------------------------------------------------
TaskLoop(w) ==
  \/ Register(w) \/ FirstHeartbeat(w)
  \/ PopTask(w) \/ SetTaskRunning(w) \/ UpdateStatusBusy(w)
  \/ SetTaskResult(w) \/ RemoveTaskRunning(w) \/ UpdateStatusIdle(w)
  \/ Leave(w)

WorkerNext(w) ==
  TaskLoop(w) \/ UpdateWorkerHeartbeat(w) \/ Stop(w) \/ Crash(w) \/ HeartbeatExpires(w)

MasterNext ==
  \/ ListWorkers \/ GetWorkerHeartbeat \/ GetAllRunningTasks
  \/ PushTask \/ RemoveReassigned \/ RemoveWorker \/ ForgetHeartbeat

Next ==
  \/ \E t \in Task : SubmitTask(t)
  \/ \E w \in Worker : WorkerNext(w)
  \/ MasterNext

(* Workers and the master make progress while they live; the heartbeat of a *)
(* worker that is down grows old.                                           *)
Fairness ==
  /\ \A w \in Worker : WF_vars(TaskLoop(w)) /\ WF_vars(Down(w) /\ HeartbeatExpires(w))
  /\ WF_vars(MasterNext)

Spec == Init /\ [][Next]_vars
FairSpec == Spec /\ Fairness
-----------------------------------------------------------------------------
Queued == {pending[i] : i \in DOMAIN pending}

(* A submitted task is queued, has a result, or a worker has it: it         *)
(* disappears only with a worker that crashed or was stopped.               *)
NoTaskVanishes ==
  \A t \in submitted : t \in Queued \cup completed \/ \E w \in Worker : held[w] = t

(* Reassignment never queues a task that is still queued.                   *)
QueuedOnce == \A i, j \in DOMAIN pending : pending[i] = pending[j] => i = j

(* An entry of the running hash names a worker that has the task, or had it *)
(* when it went down.                                                       *)
RunningIsHeld ==
  \A t \in Task : running[t] # NoWorker =>
    /\ held[running[t]] = t
    /\ pc[running[t]] \notin {"new", "joined", "popped"}

(* The health check, which goes through the registry, comes upon the worker *)
(* that an entry names.  The exceptions are a worker that was stopped, and  *)
(* one that was found dead before, has taken a task since and has not       *)
(* written its status again: if it crashes there, its task is lost.         *)
RunningIsListed ==
  \A t \in Task : running[t] # NoWorker => running[t] \in workers \cup stopping \cup judgedDead

(* Both: the running hash leads the master to whoever has the task.         *)
EntryLeadsToHolder == RunningIsHeld /\ RunningIsListed

(* A task that a worker still has is queued again only after the master has *)
(* found that very worker dead: reassignment leaves the tasks of the others *)
(* alone, also those that were reassigned to them meanwhile.                *)
RequeuedOnlyAfterDeath ==
  \A t \in Queued, w \in Worker : held[w] = t => w \in judgedDead

(* Two workers have the same task only after one of them was found dead;    *)
(* otherwise a workflow would run twice at once.                            *)
SharedOnlyAfterDeath ==
  \A v, w \in Worker :
    v # w /\ held[v] = held[w] /\ held[w] # NoTask => {v, w} \cap judgedDead # {}

(* Both: a task stays with its worker, and with it alone, until the master  *)
(* has found that worker dead (master.go:206-217, worker.go:240-284).       *)
TasksStayWithTheLiving == RequeuedOnlyAfterDeath /\ SharedOnlyAfterDeath

(* A registered worker that crashed while it was recorded as running a task *)
(* loses that entry: the health check finds it, unless it was handling that *)
(* very worker when it crashed.                                             *)
CrashedEntriesCleared ==
  \A w \in Worker, t \in Task :
    (pc[w] = "crashed" /\ w \in workers /\ suspect # w /\ running[t] = w)
      ~> running[t] # w

(* A submitted task gets a result, unless a worker goes down with it or     *)
(* none is left.                                                            *)
TasksComplete ==
  \A t \in Task :
    t \in submitted ~>
      \/ t \in completed
      \/ \E w \in Worker : Down(w) /\ held[w] = t
      \/ \A w \in Worker : Down(w)

(* As long as a worker is left, every submitted task gets a result: the     *)
(* tasks of the others are reassigned to it.                                *)
TasksSurvive ==
  \A t \in Task : t \in submitted ~> t \in completed \/ \A w \in Worker : Down(w)
=============================================================================

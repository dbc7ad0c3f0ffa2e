------------------------------ MODULE RunQueue -----------------------------
(***************************************************************************)
(* Queued runs.  queueRuns (cli/run.go) creates a row with status queued   *)
(* and then pushes the run to Redis as well.  A QueuePoller                *)
(* (cli/worker_queue.go) reads both sources: one goroutine lists the       *)
(* queued rows and claims them, one pops the Redis list, and both hand     *)
(* their runs through one channel to the executors.  The server and every  *)
(* `worker queue run' have a QueuePoller each, over one database.  The     *)
(* API writes the same rows: StartRun for a run that is pending, CancelRun *)
(* for one that is pending or running (handlers/runs.go).                  *)
(*                                                                         *)
(* The order of the two lists is left open: a poller may take any of their *)
(* runs next.  What CancelRun does to a run's processes is in RunControl.  *)
(***************************************************************************)
EXTENDS Naturals, Sequences, FiniteSets

CONSTANTS
  Run, NoRun,
  Poller,    \* processes with a QueuePoller
  Executor,  \* the executor goroutines of one of them
  Request,   \* requests to StartRun and CancelRun
  MaxFaults  \* bound: claims that fail with a database error

ASSUME RunQueueAssumption ==
  /\ NoRun \notin Run
  /\ IsFiniteSet(Executor) /\ Executor # {}
  /\ MaxFaults \in Nat

VARIABLES
  status,     \* the status in each run's row ("none": there is no row)
  unpushed,   \* rows that queueRuns has created and not yet pushed
  pending,    \* the runs in the Redis list
  mode,       \* each QueuePoller: "up", "stopping" (its context is done), "down"
  seen,       \* the runs each QueuePoller has marked as seen
  dbPc, batch, claiming,  \* its DB goroutine: where it is, the rows left, the run
  redisPc, popped,        \* its Redis goroutine: where it is, the run
  taskCh,     \* its channel
  job,        \* the run each of its executors has, or NoRun
  left,       \* its executors that have returned
  reqPc, reqRun,          \* API requests: where each is, its run
  begun,      \* history: the executions each QueuePoller began of each run
  claimed,    \* history: the QueuePollers that claimed each run
  claimErr    \* history: the runs whose claim failed with an error

rows     == <<status, unpushed, pending>>
dbSide   == <<dbPc, batch, claiming>>
redis    == <<redisPc, popped>>
workers  == <<job, left>>
requests == <<reqPc, reqRun>>
history  == <<begun, claimed, claimErr>>
vars == <<rows, mode, seen, dbSide, redis, taskCh, workers, requests, history>>

Status == {"none", "pending", "queued", "running", "completed", "failed", "cancelled"}

TypeOK ==
  /\ status \in [Run -> Status]
  /\ unpushed \in SUBSET Run /\ pending \in SUBSET Run
  /\ mode \in [Poller -> {"up", "stopping", "down"}]
  /\ seen \in [Poller -> SUBSET Run]
  /\ dbPc \in [Poller -> {"wait", "next", "claim", "send", "gone"}]
  /\ batch \in [Poller -> SUBSET Run]
  /\ claiming \in [Poller -> Run \cup {NoRun}]
  /\ redisPc \in [Poller -> {"pop", "check", "send", "gone"}]
  /\ popped \in [Poller -> Run \cup {NoRun}]
  /\ taskCh \in [Poller -> Seq(Run)]
  /\ job \in [Poller -> [Executor -> Run \cup {NoRun}]]
  /\ left \in [Poller -> SUBSET Executor]
  /\ reqPc \in [Request -> {"idle", "starting", "executing", "cancelling", "done"}]
  /\ reqRun \in [Request -> Run \cup {NoRun}]
  /\ begun \in [Poller -> [Run -> Nat]]
  /\ claimed \in [Run -> SUBSET Poller]
  /\ claimErr \in [Poller -> SUBSET Run]

(* There may be rows from before the processes were started, and processes  *)
(* that have stopped since.  A process that cannot connect to Redis, or     *)
(* ping it, has no Redis goroutine.                                         *)
Init ==
  /\ status \in [Run -> {"none", "queued", "pending", "cancelled"}]
  /\ unpushed = {}
  /\ pending \in SUBSET {r \in Run : status[r] = "queued"}
  /\ mode \in [Poller -> {"up", "down"}]
  /\ seen = [p \in Poller |-> {}]
  /\ dbPc = [p \in Poller |-> IF mode[p] = "up" THEN "wait" ELSE "gone"]
  /\ batch = [p \in Poller |-> {}]
  /\ claiming = [p \in Poller |-> NoRun]
  /\ redisPc \in [Poller -> {"pop", "gone"}]
  /\ \A p \in Poller : mode[p] = "down" => redisPc[p] = "gone"
  /\ popped = [p \in Poller |-> NoRun]
  /\ taskCh = [p \in Poller |-> <<>>]
  /\ job = [p \in Poller |-> [e \in Executor |-> NoRun]]
  /\ left = [p \in Poller |-> IF mode[p] = "up" THEN {} ELSE Executor]
  /\ reqPc \in [Request -> {"idle", "done"}]
  /\ reqRun = [q \in Request |-> NoRun]
  /\ begun = [p \in Poller |-> [r \in Run |-> 0]]
  /\ claimed = [r \in Run |-> {}]
  /\ claimErr = [p \in Poller |-> {}]

CtxDone(p) == mode[p] # "up"
Capacity   == 2 * Cardinality(Executor)

(* UpdateRunStatus writes whatever status it is given, over any other; with *)
(* a context that is done the statement fails and the row stays.            *)
UpdateRunStatus(r, s) == status' = [status EXCEPT ![r] = s]
UpdateQueuedRunStatus(p, r, s) ==
  IF CtxDone(p) THEN UNCHANGED status ELSE UpdateRunStatus(r, s)
-----------------------------------------------------------------------------
(* Creating rows.                                                           *)

(* queueRuns: the row first, the push to Redis after it, if that works.     *)
QueueRun(r) ==
  /\ status[r] = "none"
  /\ status' = [status EXCEPT ![r] = "queued"]
  /\ unpushed' = unpushed \cup {r}
  /\ UNCHANGED <<pending, mode, seen, dbSide, redis, taskCh, workers, requests, history>>

PushQueuedRunToRedis(r) ==
  /\ r \in unpushed
  /\ unpushed' = unpushed \ {r}
  /\ pending' \in {pending, pending \cup {r}}
  /\ UNCHANGED <<status, mode, seen, dbSide, redis, taskCh, workers, requests, history>>

(* A distributed worker pops the same list.                                 *)
WorkerPops(r) ==
  /\ r \in pending
  /\ pending' = pending \ {r}
  /\ UNCHANGED <<status, unpushed, mode, seen, dbSide, redis, taskCh, workers, requests,
                 history>>

DuplicateRun(r) ==
  /\ status[r] = "none"
  /\ status' = [status EXCEPT ![r] = "pending"]
  /\ UNCHANGED <<unpushed, pending, mode, seen, dbSide, redis, taskCh, workers, requests,
                 history>>
-----------------------------------------------------------------------------
(* The DB goroutine.                                                        *)

(* Mutant: a failed query is retried, also when the context is done.        *)
DbPollOn(p) ==
  /\ dbPc[p] = "wait" /\ ~ CtxDone(p)
  /\ batch' = [batch EXCEPT ![p] = {r \in Run : status[r] = "queued"}]
  /\ dbPc' = [dbPc EXCEPT ![p] = IF batch'[p] = {} THEN "wait" ELSE "next"]
  /\ UNCHANGED <<rows, mode, seen, claiming, redis, taskCh, workers, requests, history>>

(* A tick: ListQueued (nothing happens if there is no row).  With the       *)
(* context done the query fails and the goroutine returns.                  *)
DbPoll(p) ==
  /\ dbPc[p] = "wait"
  /\ IF CtxDone(p)
       THEN dbPc' = [dbPc EXCEPT ![p] = "gone"] /\ UNCHANGED batch
       ELSE LET queued == {r \in Run : status[r] = "queued"} IN
            /\ queued # {}
            /\ batch' = [batch EXCEPT ![p] = queued]
            /\ dbPc' = [dbPc EXCEPT ![p] = "next"]
  /\ UNCHANGED <<rows, mode, seen, claiming, redis, taskCh, workers, requests, history>>

DbPollEnd(p) ==
  /\ dbPc[p] = "next" /\ batch[p] = {}
  /\ dbPc' = [dbPc EXCEPT ![p] = "wait"]
  /\ UNCHANGED <<rows, mode, seen, batch, claiming, redis, taskCh, workers, requests,
                 history>>

DbNext(p) ==
  /\ dbPc[p] = "next"
  /\ \E r \in batch[p] :
       /\ batch' = [batch EXCEPT ![p] = @ \ {r}]
       /\ seen' = [seen EXCEPT ![p] = @ \cup {r}]
       /\ IF r \in seen[p]
            THEN UNCHANGED <<dbPc, claiming>>
            ELSE /\ claiming' = [claiming EXCEPT ![p] = r]
                 /\ dbPc' = [dbPc EXCEPT ![p] = "claim"]
  /\ UNCHANGED <<rows, mode, redis, taskCh, workers, requests, history>>

(* Mutant: the claim does not ask for the status queued.                    *)
DbClaimAny(p) ==
  /\ dbPc[p] = "claim"
  /\ LET r == claiming[p] IN
       IF ~ CtxDone(p)
         THEN /\ UpdateRunStatus(r, "running")
              /\ claimed' = [claimed EXCEPT ![r] = @ \cup {p}]
              /\ dbPc' = [dbPc EXCEPT ![p] = "send"]
              /\ UNCHANGED <<claiming, claimErr>>
         ELSE /\ claiming' = [claiming EXCEPT ![p] = NoRun]
              /\ dbPc' = [dbPc EXCEPT ![p] = "next"]
              /\ UNCHANGED <<status, claimed, claimErr>>
  /\ UNCHANGED <<unpushed, pending, mode, seen, batch, redis, taskCh, workers, requests, begun>>

(* Mutant: a run that was not claimed is sent on all the same.              *)
DbClaimIgnored(p) ==
  /\ dbPc[p] = "claim"
  /\ UpdateQueuedRunStatus(p, claiming[p], "running")
  /\ claiming' = [claiming EXCEPT ![p] = NoRun]
  /\ dbPc' = [dbPc EXCEPT ![p] = "send"]
  /\ UNCHANGED <<unpushed, pending, mode, seen, batch, redis, taskCh, workers, requests,
                 history>>

(* ClaimQueuedRun: one statement that asks for the status and changes it.   *)
DbClaim(p) ==
  /\ dbPc[p] = "claim"
  /\ LET r == claiming[p]
         Skip == /\ claiming' = [claiming EXCEPT ![p] = NoRun]
                 /\ dbPc' = [dbPc EXCEPT ![p] = "next"]
                 /\ UNCHANGED <<status, claimed>>
     IN \/ /\ ~ CtxDone(p) /\ status[r] = "queued"
           /\ UpdateRunStatus(r, "running")
           /\ claimed' = [claimed EXCEPT ![r] = @ \cup {p}]
           /\ dbPc' = [dbPc EXCEPT ![p] = "send"]
           /\ UNCHANGED <<claiming, claimErr>>
        \/ /\ CtxDone(p) \/ status[r] # "queued"
           /\ Skip
           /\ UNCHANGED claimErr
        \/ /\ Cardinality(UNION {claimErr[x] : x \in Poller}) < MaxFaults
           /\ claimErr' = [claimErr EXCEPT ![p] = @ \cup {r}]
           /\ Skip
  /\ UNCHANGED <<unpushed, pending, mode, seen, batch, redis, taskCh, workers, requests, begun>>

(* The send waits for room in the channel; it does not look at the context. *)
DbSend(p) ==
  /\ dbPc[p] = "send" /\ Len(taskCh[p]) < Capacity
  /\ taskCh' = [taskCh EXCEPT ![p] = Append(@, claiming[p])]
  /\ claiming' = [claiming EXCEPT ![p] = NoRun]
  /\ dbPc' = [dbPc EXCEPT ![p] = "next"]
  /\ UNCHANGED <<rows, mode, seen, batch, redis, workers, requests, history>>

DbGoroutine(p) == DbPoll(p) \/ DbPollEnd(p) \/ DbNext(p) \/ DbClaim(p) \/ DbSend(p)
-----------------------------------------------------------------------------
(* The Redis goroutine.                                                     *)

RedisReturn(p) ==
  /\ redisPc[p] = "pop" /\ CtxDone(p)
  /\ redisPc' = [redisPc EXCEPT ![p] = "gone"]
  /\ UNCHANGED <<rows, mode, seen, dbSide, popped, taskCh, workers, requests, history>>

(* PopTask takes the task off the list before the process knows it.         *)
RedisPop(p) ==
  /\ redisPc[p] = "pop"
  /\ \E r \in pending :
       /\ pending' = pending \ {r}
       /\ seen' = [seen EXCEPT ![p] = @ \cup {r}]
       /\ IF r \in seen[p]
            THEN UNCHANGED redis
            ELSE /\ popped' = [popped EXCEPT ![p] = r]
                 /\ redisPc' = [redisPc EXCEPT ![p] = "check"]
  /\ UNCHANGED <<status, unpushed, mode, dbSide, taskCh, workers, requests, history>>

(* Mutant: a run that is still queued is left to the DB goroutine.          *)
RedisCheckQueued(p) ==
  /\ redisPc[p] = "check"
  /\ IF ~ CtxDone(p) /\ status[popped[p]] \in {"queued", "running", "completed"}
       THEN /\ redisPc' = [redisPc EXCEPT ![p] = "pop"]
            /\ popped' = [popped EXCEPT ![p] = NoRun]
       ELSE redisPc' = [redisPc EXCEPT ![p] = "send"] /\ UNCHANGED popped
  /\ UNCHANGED <<rows, mode, seen, dbSide, taskCh, workers, requests, history>>

(* The row only keeps the task back if it can be read and says that the run *)
(* runs or has completed; the row is not claimed.                           *)
RedisCheck(p) ==
  /\ redisPc[p] = "check"
  /\ IF ~ CtxDone(p) /\ status[popped[p]] \in {"running", "completed"}
       THEN /\ redisPc' = [redisPc EXCEPT ![p] = "pop"]
            /\ popped' = [popped EXCEPT ![p] = NoRun]
       ELSE redisPc' = [redisPc EXCEPT ![p] = "send"] /\ UNCHANGED popped
  /\ UNCHANGED <<rows, mode, seen, dbSide, taskCh, workers, requests, history>>

RedisSend(p) ==
  /\ redisPc[p] = "send" /\ Len(taskCh[p]) < Capacity
  /\ taskCh' = [taskCh EXCEPT ![p] = Append(@, popped[p])]
  /\ popped' = [popped EXCEPT ![p] = NoRun]
  /\ redisPc' = [redisPc EXCEPT ![p] = "pop"]
  /\ UNCHANGED <<rows, mode, seen, dbSide, workers, requests, history>>

RedisGoroutine(p) ==
  RedisReturn(p) \/ RedisPop(p) \/ RedisCheck(p) \/ RedisSend(p)
-----------------------------------------------------------------------------
(* executeQueuedTasks.  With a task in the channel and the context done,    *)
(* select takes either.                                                     *)

Idle(p, e) == e \notin left[p] /\ job[p][e] = NoRun

TakeTask(p, e) ==
  /\ Idle(p, e) /\ taskCh[p] # <<>>
  /\ job' = [job EXCEPT ![p][e] = Head(taskCh[p])]
  /\ taskCh' = [taskCh EXCEPT ![p] = Tail(@)]
  /\ begun' = [begun EXCEPT ![p][Head(taskCh[p])] = @ + 1]
  /\ UNCHANGED <<rows, mode, seen, dbSide, redis, left, requests, claimed, claimErr>>

(* Mutant: a task that cannot be loaded is dropped and its row stays.       *)
FinishTaskSilently(p, e) ==
  /\ job[p][e] # NoRun
  /\ \E s \in {"completed", "failed"} :
       IF s = "completed" THEN UpdateQueuedRunStatus(p, job[p][e], s)
                          ELSE UNCHANGED status
  /\ job' = [job EXCEPT ![p][e] = NoRun]
  /\ UNCHANGED <<unpushed, pending, mode, seen, dbSide, redis, taskCh, left, requests, history>>

(* The input file is missing, the workflow cannot be loaded or it fails:    *)
(* failed.  Otherwise: completed.                                           *)
FinishTask(p, e) ==
  /\ job[p][e] # NoRun
  /\ \E s \in {"completed", "failed"} : UpdateQueuedRunStatus(p, job[p][e], s)
  /\ job' = [job EXCEPT ![p][e] = NoRun]
  /\ UNCHANGED <<unpushed, pending, mode, seen, dbSide, redis, taskCh, left, requests, history>>

ExecutorReturns(p, e) ==
  /\ Idle(p, e) /\ CtxDone(p)
  /\ left' = [left EXCEPT ![p] = @ \cup {e}]
  /\ UNCHANGED <<rows, mode, seen, dbSide, redis, taskCh, job, requests, history>>

ExecutorGoroutine(p, e) == TakeTask(p, e) \/ FinishTask(p, e) \/ ExecutorReturns(p, e)

(* Stop cancels the context and waits for the goroutines.                   *)
Stop(p) ==
  /\ mode[p] = "up"
  /\ mode' = [mode EXCEPT ![p] = "stopping"]
  /\ UNCHANGED <<rows, seen, dbSide, redis, taskCh, workers, requests, history>>

StopReturns(p) ==
  /\ mode[p] = "stopping"
  /\ dbPc[p] = "gone" /\ redisPc[p] = "gone" /\ left[p] = Executor
  /\ mode' = [mode EXCEPT ![p] = "down"]
  /\ UNCHANGED <<rows, seen, dbSide, redis, taskCh, workers, requests, history>>
-----------------------------------------------------------------------------
(* StartRun and CancelRun: each reads the row, and writes it later.         *)

Reads(q, r, pc) ==
  /\ reqPc[q] = "idle"
  /\ reqPc' = [reqPc EXCEPT ![q] = pc]
  /\ reqRun' = [reqRun EXCEPT ![q] = r]
  /\ UNCHANGED <<rows, mode, seen, dbSide, redis, taskCh, workers, history>>

Writes(q, s, pc) ==
  /\ UpdateRunStatus(reqRun[q], s)
  /\ reqPc' = [reqPc EXCEPT ![q] = pc]
  /\ UNCHANGED <<unpushed, pending, mode, seen, dbSide, redis, taskCh, workers, reqRun,
                 history>>

StartRun(q, r)  == status[r] = "pending" /\ Reads(q, r, "starting")
StartRunRuns(q) == reqPc[q] = "starting" /\ Writes(q, "running", "executing")
StartRunEnds(q) ==
  /\ reqPc[q] = "executing"
  /\ \E s \in {"completed", "failed"} : Writes(q, s, "done")

CancelRun(q, r)    == status[r] \in {"pending", "running"} /\ Reads(q, r, "cancelling")
CancelRunWrites(q) == reqPc[q] = "cancelling" /\ Writes(q, "cancelled", "done")
-----------------------------------------------------------------------------
Next ==
  \/ \E r \in Run : QueueRun(r) \/ PushQueuedRunToRedis(r) \/ WorkerPops(r) \/ DuplicateRun(r)
  \/ \E p \in Poller : DbGoroutine(p) \/ RedisGoroutine(p) \/ Stop(p) \/ StopReturns(p)
  \/ \E p \in Poller, e \in Executor : ExecutorGoroutine(p, e)
  \/ \E q \in Request, r \in Run : StartRun(q, r) \/ CancelRun(q, r)
  \/ \E q \in Request : StartRunRuns(q) \/ StartRunEnds(q) \/ CancelRunWrites(q)

(* The goroutines run whenever they can; a workflow that was begun ends.    *)
Fairness ==
  /\ \A p \in Poller :
       WF_vars(DbGoroutine(p)) /\ WF_vars(RedisGoroutine(p)) /\ WF_vars(StopReturns(p))
  /\ \A p \in Poller, e \in Executor : WF_vars(ExecutorGoroutine(p, e))

Spec == Init /\ [][Next]_vars /\ Fairness
-----------------------------------------------------------------------------
(* What each process has of run r: in its goroutines' hands, in its channel *)
(* and with its executors.                                                  *)

InHand(p) ==
  (IF dbPc[p] = "send" THEN {claiming[p]} ELSE {})
    \cup {taskCh[p][i] : i \in DOMAIN taskCh[p]}
    \cup {job[p][e] : e \in Executor}

(* A queued run is claimed by one process at most, and no process executes  *)
(* a run twice, although it reads it from two sources (ClaimQueuedRun,      *)
(* markSeen).                                                               *)
ClaimedOnce ==
  /\ \A r \in Run : Cardinality(claimed[r]) <= 1
  /\ \A p \in Poller, r \in Run : begun[p][r] <= 1

(* A row says running only while somebody will still write how the run      *)
(* ended: the process that claimed it, which has it in hand unless this     *)
(* very process was stopped, or the goroutine StartRun began                *)
(* (worker_queue.go:149, :602, runs.go:1182).                               *)
RunningHasAWriter ==
  \A r \in Run : status[r] = "running" =>
    \/ \E p \in claimed[r] : r \in InHand(p) \/ CtxDone(p)
    \/ \E q \in Request : reqPc[q] = "executing" /\ reqRun[q] = r

(* A row that is queued, and that a process has marked as seen, is with     *)
(* that process until it is begun, unless its claim failed: markSeen comes  *)
(* before the claim, and the process looks at no run twice                  *)
(* (worker_queue.go:145-154, :212-230).                                     *)
SeenIsInHand ==
  \A p \in Poller : \A r \in seen[p] :
    status[r] = "queued" /\ ~ CtxDone(p) /\ r \notin claimErr[p] =>
      \/ begun[p][r] > 0
      \/ dbPc[p] \in {"claim", "send"} /\ claiming[p] = r
      \/ redisPc[p] \in {"check", "send"} /\ popped[p] = r
      \/ \E i \in DOMAIN taskCh[p] : taskCh[p][i] = r

(* Both: no run is forgotten, neither one that was begun nor one that was   *)
(* only looked at.                                                          *)
NoRunIsForgotten == RunningHasAWriter /\ SeenIsInHand

(* Stop waits for a goroutine that waits for room in the channel when every *)
(* executor has returned: nothing will make room.                           *)
StuckInSend(p) ==
  /\ "send" \in {dbPc[p], redisPc[p]}
  /\ left[p] = Executor /\ Len(taskCh[p]) = Capacity

(* A row that is queued is executed, as long as some process is up whose    *)
(* claim of it did not fail with an error, and no process was stopped that  *)
(* had it already: after an error the run stays marked as seen and the      *)
(* process never tries again, and what a stopped process had claimed is     *)
(* nobody's (worker_queue.go:145, :154).                                    *)
QueuedRunStarts ==
  \A r \in Run : status[r] = "queued" ~>
    \/ \E p \in Poller : begun[p][r] > 0
    \/ \E p \in Poller : CtxDone(p) /\ r \in seen[p]
    \/ \A p \in Poller : CtxDone(p) \/ r \in claimErr[p]

(* Stop returns, unless a goroutine is in a send that nobody will receive   *)
(* (worker_queue.go:154, :230, :271).                                       *)
StopEndsOrSticks ==
  \A p \in Poller : mode[p] = "stopping" ~> (mode[p] = "down" \/ StuckInSend(p))
=============================================================================

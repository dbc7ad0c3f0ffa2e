--------------------------- MODULE TaskQueue_proof -------------------------
(***************************************************************************)
(* Proofs about TaskQueue: for any tasks and workers, and however many of  *)
(* these crash, stop or miss their heartbeats.                             *)
(*                                                                         *)
(* The argument follows one task.  It is queued, popped or recorded as     *)
(* running, never two of these at once, but for the moment between the two *)
(* commands with which the master reassigns it; and when it is queued      *)
(* again, every worker that still has it has been found dead.              *)
(***************************************************************************)
EXTENDS TaskQueue, TLAPS, SequenceTheorems

(* The master handles only workers it has found dead, and has a task in     *)
(* hand exactly between its two commands.                                   *)
MasterInv ==
  /\ mpc # "list" => suspect \in judgedDead
  /\ mpc # "hdel" => inHand = NoTask
  /\ mpc = "hdel" => inHand \in Task
  /\ mpc \in {"list", "tasks", "forget"} => toReassign = {}

(* Where a worker is, and what that says of the task it has.                *)
HeldInv ==
  \A w \in Worker :
    /\ pc[w] \in {"new", "joined"} => held[w] = NoTask
    /\ pc[w] = "idle" /\ w \notin stopping => held[w] = NoTask
    /\ pc[w] \in {"popped", "marked", "executing", "reported", "removed"} => held[w] \in Task
    /\ pc[w] \in {"reported", "removed"} /\ w \notin stopping => held[w] \in completed
    /\ pc[w] = "removed" /\ w \notin stopping => running[held[w]] # w

SubmittedInv ==
  /\ Queued \subseteq submitted
  /\ toReassign \subseteq submitted
  /\ \A w \in Worker : held[w] # NoTask => held[w] \in submitted

(* Nobody will queue t again, for what the running hash says of it.         *)
Unlisted(t) == t \notin toReassign /\ (inHand = t \/ running[t] = NoWorker)

QueuedInv == \A t \in Queued : Unlisted(t)

(* A task that was popped and not marked yet is its worker's alone.         *)
PoppedInv ==
  \A w \in Worker :
    pc[w] = "popped" =>
      /\ Unlisted(held[w])
      /\ held[w] \notin Queued
      /\ \A v \in Worker \ {w} :
           held[v] = held[w] => v \in judgedDead /\ pc[v] # "popped"

(* Nor is the task of a worker that was never found dead given away.        *)
LiveInv ==
  \A w \in Worker \ judgedDead :
    held[w] # NoTask =>
      /\ held[w] \notin toReassign
      /\ running[held[w]] \in {w, NoWorker} \/ inHand = held[w]

IInv ==
  /\ TypeOK
  /\ MasterInv /\ HeldInv /\ SubmittedInv
  /\ QueuedInv /\ PoppedInv /\ LiveInv
  /\ NoTaskVanishes /\ QueuedOnce /\ RunningIsHeld /\ RequeuedOnlyAfterDeath

-----------------------------------------------------------------------------
(* Facts about the pending list.                                            *)

Elems(q) == {q[i] : i \in DOMAIN q}
Distinct(q) == \A i, j \in DOMAIN q : q[i] = q[j] => i = j

LEMMA PushLeft ==
  ASSUME NEW q \in Seq(Task), NEW t \in Task
  PROVE  /\ <<t>> \o q \in Seq(Task)
         /\ Elems(<<t>> \o q) = Elems(q) \cup {t}
         /\ Distinct(q) /\ t \notin Elems(q) => Distinct(<<t>> \o q)
<1> DEFINE r == <<t>> \o q
<1>1. /\ r \in Seq(Task)
      /\ Len(r) = Len(q) + 1
      /\ \A i \in 1 .. Len(q) + 1 : r[i] = IF i <= 1 THEN t ELSE q[i - 1]
  BY ConcatProperties
<1>2. /\ Len(q) \in Nat /\ DOMAIN q = 1 .. Len(q)
      /\ DOMAIN r = 1 .. Len(q) + 1
  BY <1>1, LenProperties
<1> HIDE DEF r
<1>3. r[1] = t /\ 1 \in DOMAIN r
  BY <1>1, <1>2
<1>4. \A i \in DOMAIN q : r[i + 1] = q[i] /\ i + 1 \in DOMAIN r
  BY <1>1, <1>2
<1>5. \A i \in DOMAIN r : i = 1 \/ (i - 1 \in DOMAIN q /\ r[i] = q[i - 1])
  BY <1>1, <1>2
<1>6. Elems(r) = Elems(q) \cup {t}
  BY <1>3, <1>4, <1>5 DEF Elems
<1>7. Distinct(q) /\ t \notin Elems(q) => Distinct(r)
  <2> SUFFICES ASSUME Distinct(q), t \notin Elems(q),
                      NEW i \in DOMAIN r, NEW j \in DOMAIN r, r[i] = r[j]
               PROVE  i = j
    BY DEF Distinct
  <2>1. i = 1 \/ (i - 1 \in DOMAIN q /\ r[i] = q[i - 1] /\ r[i] # t)
    BY <1>5 DEF Elems
  <2>2. j = 1 \/ (j - 1 \in DOMAIN q /\ r[j] = q[j - 1] /\ r[j] # t)
    BY <1>5 DEF Elems
  <2>3. i \in Nat /\ j \in Nat
    BY <1>2
  <2> QED
    BY <1>3, <2>1, <2>2, <2>3 DEF Distinct
<1> QED
  BY <1>1, <1>6, <1>7 DEF r

LEMMA PopRight ==
  ASSUME NEW q \in Seq(Task), q # <<>>
  PROVE  /\ q[Len(q)] \in Elems(q)
         /\ q[Len(q)] \in Task
         /\ SubSeq(q, 1, Len(q) - 1) \in Seq(Task)
         /\ Distinct(q) => /\ Distinct(SubSeq(q, 1, Len(q) - 1))
                           /\ Elems(SubSeq(q, 1, Len(q) - 1)) = Elems(q) \ {q[Len(q)]}
<1> DEFINE n == Len(q) - 1
           r == SubSeq(q, 1, n)
<1>1. Len(q) \in Nat \ {0} /\ DOMAIN q = 1 .. Len(q)
  BY LenProperties, EmptySeq
<1>2. Len(q) \in DOMAIN q /\ q[Len(q)] \in Task
  BY <1>1, ElementOfSeq
<1>3. /\ r \in Seq(Task)
      /\ Len(r) = n
      /\ \A i \in 1 .. n : r[i] = q[i]
  BY <1>1, SubSeqProperties, ElementOfSeq
<1>4. DOMAIN r = 1 .. n
  BY <1>3, LenProperties
<1> HIDE DEF r
<1>5. ASSUME Distinct(q)
      PROVE  Distinct(r) /\ Elems(r) = Elems(q) \ {q[Len(q)]}
  <2>1. \A i \in DOMAIN q : i \in DOMAIN r \/ i = Len(q)
    BY <1>1, <1>4
  <2>2. \A i \in DOMAIN r : i \in DOMAIN q /\ i # Len(q) /\ r[i] = q[i]
    BY <1>1, <1>3, <1>4
  <2> QED
    BY <1>2, <1>5, <2>1, <2>2 DEF Elems, Distinct
<1> QED
  BY <1>2, <1>3, <1>5 DEF r, Elems

LEMMA QueueTerms ==
  /\ Queued = Elems(pending) /\ (QueuedOnce <=> Distinct(pending))
  /\ Queued' = Elems(pending') /\ (QueuedOnce' <=> Distinct(pending'))
BY DEF Queued, QueuedOnce, Elems, Distinct

LEMMA InitIInv == Init => IInv
<1> SUFFICES ASSUME Init PROVE IInv
  OBVIOUS
<1>1. Queued = {} /\ QueuedOnce /\ pending \in Seq(Task)
  BY EmptySeq DEF Init, Queued, QueuedOnce
<1> QED
  BY <1>1, TaskQueueAssumption
  DEF Init, IInv, TypeOK, MasterInv, HeldInv, SubmittedInv, QueuedInv, PoppedInv, LiveInv,
      NoTaskVanishes, RunningIsHeld, RequeuedOnlyAfterDeath

-----------------------------------------------------------------------------
(* The rest of IInv, as the actions below preserve it.                      *)
Parts ==
  /\ MasterInv /\ HeldInv /\ SubmittedInv
  /\ QueuedInv /\ PoppedInv /\ LiveInv
  /\ NoTaskVanishes /\ RunningIsHeld /\ RequeuedOnlyAfterDeath

LEMMA SameQueue ==
  ASSUME UNCHANGED pending
  PROVE  Queued' = Queued /\ QueuedOnce' = QueuedOnce
BY DEF Queued, QueuedOnce

LEMMA SubmitIInv ==
  ASSUME IInv, NEW t \in Task, SubmitTask(t)
  PROVE  IInv'
<1>1. /\ t \notin submitted /\ submitted' = submitted \cup {t}
      /\ pending' = <<t>> \o pending
      /\ UNCHANGED <<running, completed, workers, fresh, local, master>>
  BY DEF SubmitTask
<1>2. pending \in Seq(Task) /\ t \notin Queued
  BY <1>1 DEF IInv, TypeOK, SubmittedInv
<1>3. pending' \in Seq(Task) /\ Queued' = Queued \cup {t} /\ QueuedOnce'
  BY <1>1, <1>2, PushLeft, QueueTerms DEF IInv
<1>4. TypeOK'
  BY <1>1, <1>3 DEF IInv, TypeOK, local, master
<1>5. running[t] = NoWorker /\ \A w \in Worker : held[w] # t
  BY <1>1, TaskQueueAssumption DEF IInv, TypeOK, SubmittedInv, RunningIsHeld
<1>6. Parts'
  BY <1>1, <1>3, <1>5, TaskQueueAssumption
  DEF IInv, TypeOK, local, master, Parts, MasterInv, HeldInv, SubmittedInv, QueuedInv, PoppedInv,
      LiveInv, Unlisted, NoTaskVanishes, RunningIsHeld, RequeuedOnlyAfterDeath
<1> QED
  BY <1>3, <1>4, <1>6 DEF IInv, Parts

LEMMA PopIInv ==
  ASSUME IInv, NEW w \in Worker, PopTask(w)
  PROVE  IInv'
<1> DEFINE t == pending[Len(pending)]
<1>1. /\ pc[w] = "idle" /\ w \notin stopping /\ pending # <<>>
      /\ pc' = [pc EXCEPT ![w] = "popped"]
      /\ held' = [held EXCEPT ![w] = t]
      /\ pending' = SubSeq(pending, 1, Len(pending) - 1)
      /\ UNCHANGED <<running, completed, workers, fresh, submitted, stopping, master>>
  BY DEF PopTask, Goto
<1>2. /\ t \in Queued /\ t \in Task
      /\ pending' \in Seq(Task) /\ Queued' = Queued \ {t} /\ QueuedOnce'
  BY <1>1, PopRight, QueueTerms DEF IInv, TypeOK
<1>3. held[w] = NoTask /\ \A u \in Task : running[u] # w
  BY <1>1, TaskQueueAssumption DEF IInv, TypeOK, HeldInv, RunningIsHeld
<1> HIDE DEF t
<1>4. TypeOK'
  BY <1>1, <1>2 DEF IInv, TypeOK, master
<1>5. MasterInv' /\ HeldInv' /\ SubmittedInv' /\ QueuedInv'
  BY <1>1, <1>2, <1>3, TaskQueueAssumption
  DEF IInv, TypeOK, master, MasterInv, HeldInv, SubmittedInv, QueuedInv, Unlisted
<1>6. PoppedInv'
  BY <1>1, <1>2, TaskQueueAssumption
  DEF IInv, TypeOK, master, PoppedInv, QueuedInv, Unlisted, RequeuedOnlyAfterDeath
<1>7. LiveInv'
  BY <1>1, <1>2, TaskQueueAssumption
  DEF IInv, TypeOK, master, LiveInv, QueuedInv, Unlisted
<1>8. NoTaskVanishes' /\ RunningIsHeld' /\ RequeuedOnlyAfterDeath'
  BY <1>1, <1>2, <1>3, TaskQueueAssumption
  DEF IInv, TypeOK, master, NoTaskVanishes, RunningIsHeld, RequeuedOnlyAfterDeath
<1> QED
  BY <1>2, <1>4, <1>5, <1>6, <1>7, <1>8 DEF IInv

LEMMA PushIInv ==
  ASSUME IInv, PushTask
  PROVE  IInv'
<1>1. PICK t \in toReassign :
        /\ pending' = <<t>> \o pending
        /\ inHand' = t
        /\ toReassign' = toReassign \ {t}
  BY DEF PushTask
<1>2. /\ mpc = "push" /\ mpc' = "hdel"
      /\ UNCHANGED <<running, completed, workers, fresh, submitted, local, toCheck,
                     suspect, judgedDead>>
  BY DEF PushTask
<1>3. t \in Task /\ pending \in Seq(Task) /\ t \notin Queued
  BY <1>1 DEF IInv, TypeOK, QueuedInv, Unlisted
<1>4. pending' \in Seq(Task) /\ Queued' = Queued \cup {t} /\ QueuedOnce'
  BY <1>1, <1>3, PushLeft, QueueTerms DEF IInv
<1>5. TypeOK'
  BY <1>1, <1>2, <1>3, <1>4 DEF IInv, TypeOK, local
<1>6. inHand = NoTask /\ suspect \in judgedDead
  BY <1>2 DEF IInv, MasterInv
<1>7. Parts'
  BY <1>1, <1>2, <1>3, <1>4, <1>6, TaskQueueAssumption
  DEF IInv, TypeOK, local, Parts, MasterInv, HeldInv, SubmittedInv, QueuedInv, PoppedInv,
      LiveInv, Unlisted, NoTaskVanishes, RunningIsHeld, RequeuedOnlyAfterDeath
<1> QED
  BY <1>4, <1>5, <1>7 DEF IInv, Parts

(* The master's other steps.                                                *)
LEMMA MasterIInv ==
  ASSUME IInv,
         \/ ListWorkers \/ GetWorkerHeartbeat \/ GetAllRunningTasks
         \/ RemoveReassigned \/ RemoveWorker \/ ForgetHeartbeat
  PROVE  IInv'
<1>1. UNCHANGED <<pending, completed, submitted, local>>
  BY DEF ListWorkers, GetWorkerHeartbeat, GetAllRunningTasks, RemoveReassigned, RemoveWorker,
         ForgetHeartbeat, redis
<1>2. Queued' = Queued /\ QueuedOnce'
  BY <1>1, SameQueue DEF IInv
<1> USE TaskQueueAssumption
    DEF IInv, TypeOK, redis, local, Parts, MasterInv, HeldInv, SubmittedInv, QueuedInv,
        PoppedInv, LiveInv, Unlisted, NoTaskVanishes, RunningIsHeld, RequeuedOnlyAfterDeath
<1>3. CASE ListWorkers
  BY <1>1, <1>2, <1>3 DEF ListWorkers
<1>4. CASE GetWorkerHeartbeat
  BY <1>1, <1>2, <1>4 DEF GetWorkerHeartbeat
<1>5. CASE GetAllRunningTasks
  BY <1>1, <1>2, <1>5 DEF GetAllRunningTasks, TasksOf
<1>6. CASE RemoveReassigned
  BY <1>1, <1>2, <1>6 DEF RemoveReassigned
<1>7. CASE RemoveWorker
  BY <1>1, <1>2, <1>7 DEF RemoveWorker
<1>8. CASE ForgetHeartbeat
  BY <1>1, <1>2, <1>8 DEF ForgetHeartbeat
<1> QED
  BY <1>3, <1>4, <1>5, <1>6, <1>7, <1>8

(* A worker's commands on its own task.                                     *)
LEMMA WorkerIInv ==
  ASSUME IInv, NEW w \in Worker,
         \/ Register(w) \/ FirstHeartbeat(w) \/ SetTaskRunning(w) \/ UpdateStatusBusy(w)
         \/ SetTaskResult(w) \/ RemoveTaskRunning(w) \/ UpdateStatusIdle(w) \/ Leave(w)
         \/ UpdateWorkerHeartbeat(w) \/ Stop(w) \/ Crash(w) \/ HeartbeatExpires(w)
  PROVE  IInv'
<1>1. UNCHANGED <<pending, submitted, master>>
  BY DEF Register, FirstHeartbeat, SetTaskRunning, UpdateStatusBusy, SetTaskResult,
         RemoveTaskRunning, UpdateStatusIdle, Leave, UpdateWorkerHeartbeat, Stop, Crash,
         HeartbeatExpires, redis
<1>2. Queued' = Queued /\ QueuedOnce'
  BY <1>1, SameQueue DEF IInv
<1> USE TaskQueueAssumption
    DEF IInv, TypeOK, redis, local, master, Parts, MasterInv, HeldInv, SubmittedInv, QueuedInv,
        PoppedInv, LiveInv, Unlisted, NoTaskVanishes, RunningIsHeld, RequeuedOnlyAfterDeath,
        Goto, Registered, Down
<1>3. CASE Register(w) \/ FirstHeartbeat(w)
  BY <1>1, <1>2, <1>3 DEF Register, FirstHeartbeat
<1>4. CASE SetTaskRunning(w)
  BY <1>1, <1>2, <1>4 DEF SetTaskRunning
<1>5. CASE UpdateStatusBusy(w)
  BY <1>1, <1>2, <1>5 DEF UpdateStatusBusy
<1>6. CASE SetTaskResult(w)
  BY <1>1, <1>2, <1>6 DEF SetTaskResult
<1>7. CASE RemoveTaskRunning(w)
  BY <1>1, <1>2, <1>7 DEF RemoveTaskRunning
<1>8. CASE UpdateStatusIdle(w)
  BY <1>1, <1>2, <1>8 DEF UpdateStatusIdle
<1>9. CASE Leave(w)
  BY <1>1, <1>2, <1>9 DEF Leave
<1>10. CASE UpdateWorkerHeartbeat(w) \/ HeartbeatExpires(w)
  BY <1>1, <1>2, <1>10 DEF UpdateWorkerHeartbeat, HeartbeatExpires
<1>11. CASE Stop(w)
  BY <1>1, <1>2, <1>11 DEF Stop
<1>12. CASE Crash(w)
  BY <1>1, <1>2, <1>12 DEF Crash
<1> QED
  BY <1>3, <1>4, <1>5, <1>6, <1>7, <1>8, <1>9, <1>10, <1>11, <1>12

(* One step of the system is one of the commands above.                     *)
LEMMA NextIInv == IInv /\ [Next]_vars => IInv'
<1> SUFFICES ASSUME IInv, [Next]_vars PROVE IInv'
  OBVIOUS
<1>1. CASE \E t \in Task : SubmitTask(t)
  BY <1>1, SubmitIInv
<1>2. CASE \E w \in Worker : WorkerNext(w)
  BY <1>2, PopIInv, WorkerIInv DEF WorkerNext, TaskLoop
<1>3. CASE MasterNext
  BY <1>3, PushIInv, MasterIInv DEF MasterNext
<1>4. CASE UNCHANGED vars
  <2>1. UNCHANGED redis /\ UNCHANGED local /\ UNCHANGED master /\ UNCHANGED submitted
    BY <1>4 DEF vars
  <2>2. Queued' = Queued /\ QueuedOnce'
    BY <2>1, SameQueue DEF IInv, redis
  <2> QED
    BY <2>1, <2>2 DEF IInv, TypeOK, redis, local, master, Parts, MasterInv, HeldInv,
       SubmittedInv, QueuedInv, PoppedInv, LiveInv, Unlisted, NoTaskVanishes, RunningIsHeld,
       RequeuedOnlyAfterDeath, Registered, Down
<1> QED
  BY <1>1, <1>2, <1>3, <1>4 DEF Next

LEMMA Invariance == Spec => []IInv
<1> QED
  BY InitIInv, NextIInv, PTL DEF Spec
-----------------------------------------------------------------------------
(* Every variable keeps its type, for any tasks and workers.                *)
THEOREM TypeCorrect == Spec => []TypeOK
<1>1. IInv => TypeOK
  BY DEF IInv
<1> QED
  BY <1>1, Invariance, PTL

(* SubmitTask pushes a task and executeTask stores its result; in between   *)
(* it is in the queue or with a worker, whatever the reassignment does.     *)
THEOREM NoTaskLost == Spec => []NoTaskVanishes
<1>1. IInv => NoTaskVanishes
  BY DEF IInv
<1> QED
  BY <1>1, Invariance, PTL

(* reassignTasks pushes a task while its entry of the running hash is still *)
(* there, and yet the queue never holds a task twice.                       *)
THEOREM TaskQueuedOnce == Spec => []QueuedOnce
<1>1. IInv => QueuedOnce
  BY DEF IInv
<1> QED
  BY <1>1, Invariance, PTL

(* An entry of the running hash names the worker that took the task.        *)
THEOREM EntryNamesHolder == Spec => []RunningIsHeld
<1>1. IInv => RunningIsHeld
  BY DEF IInv
<1> QED
  BY <1>1, Invariance, PTL

(* A worker registers before anything else, and leaves the registry only    *)
(* when it is stopped or found dead.                                        *)
RegisteredInv ==
  \A w \in Worker : pc[w] # "new" => w \in workers \cup stopping \cup judgedDead

LEMMA RegisteredInvariance == Spec => []RegisteredInv
<1>1. Init => RegisteredInv
  BY DEF Init, RegisteredInv
<1>2. IInv /\ RegisteredInv /\ [Next]_vars => RegisteredInv'
  <2> SUFFICES ASSUME IInv, RegisteredInv, [Next]_vars PROVE RegisteredInv'
    OBVIOUS
  <2> USE DEF IInv, TypeOK, RegisteredInv
  <2>1. CASE (\E t \in Task : SubmitTask(t)) \/ UNCHANGED vars
    BY <2>1 DEF SubmitTask, vars, redis, local, master
  <2>2. ASSUME NEW w \in Worker, WorkerNext(w) PROVE RegisteredInv'
    <3>1. /\ stopping \subseteq stopping' /\ judgedDead' = judgedDead
          /\ \A v \in Worker : pc[v] = "new" /\ v # w => pc'[v] = "new"
      BY <2>2 DEF WorkerNext, TaskLoop, Register, FirstHeartbeat, PopTask, SetTaskRunning,
           UpdateStatusBusy, SetTaskResult, RemoveTaskRunning, UpdateStatusIdle, Leave,
           UpdateWorkerHeartbeat, Stop, Crash, HeartbeatExpires, Goto, redis, local, master
    <3>2. \A v \in workers : v \in workers' \/ v \in stopping
      BY <2>2 DEF WorkerNext, TaskLoop, Register, FirstHeartbeat, PopTask, SetTaskRunning,
           UpdateStatusBusy, SetTaskResult, RemoveTaskRunning, UpdateStatusIdle, Leave,
           UpdateWorkerHeartbeat, Stop, Crash, HeartbeatExpires, Goto, Registered, redis, local
    <3>3. pc[w] = "new" => pc'[w] = "new" \/ w \in workers'
      BY <2>2 DEF WorkerNext, TaskLoop, Register, FirstHeartbeat, PopTask, SetTaskRunning,
           UpdateStatusBusy, SetTaskResult, RemoveTaskRunning, UpdateStatusIdle, Leave,
           UpdateWorkerHeartbeat, Stop, Crash, HeartbeatExpires, Goto, redis, local, Down
    <3> QED
      BY <3>1, <3>2, <3>3
  <2>3. CASE MasterNext
    <3>1. UNCHANGED <<pc, stopping>> /\ judgedDead \subseteq judgedDead'
      BY <2>3 DEF MasterNext, ListWorkers, GetWorkerHeartbeat, GetAllRunningTasks, PushTask,
           RemoveReassigned, RemoveWorker, ForgetHeartbeat, local
    <3>2. \A v \in workers : v \in workers' \/ v \in judgedDead
      BY <2>3 DEF MasterNext, ListWorkers, GetWorkerHeartbeat, GetAllRunningTasks, PushTask,
           RemoveReassigned, RemoveWorker, ForgetHeartbeat, redis, MasterInv
    <3> QED
      BY <3>1, <3>2
  <2> QED
    BY <2>1, <2>2, <2>3 DEF Next
<1> QED
  BY <1>1, <1>2, Invariance, PTL DEF Spec

(* The running hash leads the health check to the holder of a task, unless  *)
(* that was stopped or found dead before (SetTaskRunning, RemoveWorker).    *)
THEOREM EntryLeadsThere == Spec => []EntryLeadsToHolder
<1>1. IInv /\ RegisteredInv => RunningIsHeld /\ RunningIsListed
  BY DEF IInv, TypeOK, RegisteredInv, RunningIsHeld, RunningIsListed
<1> QED
  BY <1>1, Invariance, RegisteredInvariance, PTL DEF EntryLeadsToHolder

(* The health check takes a task only from a worker it has found dead.      *)
LEMMA OnlyTheDeadLoseTasks == Spec => []RequeuedOnlyAfterDeath
<1>1. IInv => RequeuedOnlyAfterDeath
  BY DEF IInv
<1> QED
  BY <1>1, Invariance, PTL

(* A second worker gets a task from the queue only, where it is alone.      *)
LEMMA TasksAreAlone == Spec => []SharedOnlyAfterDeath
<1>1. Init => SharedOnlyAfterDeath
  BY DEF Init, SharedOnlyAfterDeath
<1>2. IInv /\ SharedOnlyAfterDeath /\ [Next]_vars => SharedOnlyAfterDeath'
  <2> SUFFICES ASSUME IInv, SharedOnlyAfterDeath, [Next]_vars PROVE SharedOnlyAfterDeath'
    OBVIOUS
  <2>1. judgedDead \subseteq judgedDead'
    BY DEF Next, SubmitTask, WorkerNext, TaskLoop, Register, FirstHeartbeat, PopTask,
         SetTaskRunning, UpdateStatusBusy, SetTaskResult, RemoveTaskRunning, UpdateStatusIdle,
         Leave, UpdateWorkerHeartbeat, Stop, Crash, HeartbeatExpires, MasterNext, ListWorkers,
         GetWorkerHeartbeat, GetAllRunningTasks, PushTask, RemoveReassigned, RemoveWorker,
         ForgetHeartbeat, master, vars
  <2>2. ASSUME NEW w \in Worker, PopTask(w) PROVE SharedOnlyAfterDeath'
    <3>1. held[w]' \in Queued /\ \A v \in Worker \ {w} : held'[v] = held[v]
      <4>1. pending[Len(pending)] \in Queued
        BY <2>2, PopRight DEF PopTask, IInv, TypeOK, Queued, Elems
      <4> QED
        BY <2>2, <4>1 DEF PopTask, IInv, TypeOK
    <3>2. \A v \in Worker \ {w} : held[v] = held[w]' => v \in judgedDead
      BY <3>1 DEF IInv, RequeuedOnlyAfterDeath
    <3> QED
      BY <2>1, <3>1, <3>2 DEF SharedOnlyAfterDeath
  <2>3. ASSUME ~ \E w \in Worker : PopTask(w)
        PROVE  \A w \in Worker : held'[w] \in {held[w], NoTask}
    BY <2>3 DEF Next, SubmitTask, WorkerNext, TaskLoop, Register, FirstHeartbeat,
         SetTaskRunning, UpdateStatusBusy, SetTaskResult, RemoveTaskRunning, UpdateStatusIdle,
         Leave, UpdateWorkerHeartbeat, Stop, Crash, HeartbeatExpires, MasterNext, ListWorkers,
         GetWorkerHeartbeat, GetAllRunningTasks, PushTask, RemoveReassigned, RemoveWorker,
         ForgetHeartbeat, local, vars, IInv, TypeOK
  <2> QED
    BY <2>1, <2>2, <2>3 DEF SharedOnlyAfterDeath
<1> QED
  BY <1>1, <1>2, Invariance, PTL DEF Spec

(* A task stays with its worker until the master has found that one dead:   *)
(* neither is it queued again, nor has another worker the same task         *)
(* (reassignWorkerTasks, PopTask).                                          *)
THEOREM TasksStay == Spec => []TasksStayWithTheLiving
<1> QED
  BY OnlyTheDeadLoseTasks, TasksAreAlone, PTL DEF TasksStayWithTheLiving
=============================================================================

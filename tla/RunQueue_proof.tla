--------------------------- MODULE RunQueue_proof --------------------------
(***************************************************************************)
(* Proofs about RunQueue: for any runs, processes, executors and requests, *)
(* a run is claimed once, a process executes it once, and a row that says  *)
(* running will be written again.                                          *)
(***************************************************************************)
EXTENDS RunQueue, FiniteSetTheorems, TLAPS

DbHas(p)    == dbPc[p] \in {"claim", "send"}
RedisHas(p) == redisPc[p] \in {"check", "send"}

Fresh(p, r)  == r \in seen[p] /\ begun[p][r] = 0
Waits(p, r)  == \E i \in DOMAIN taskCh[p] : taskCh[p][i] = r

(* A run that a process has marked as seen is in one place of it at most,   *)
(* until an executor begins it.                                             *)
DbAt(p)      == DbHas(p) =>
  claiming[p] \in Run /\ Fresh(p, claiming[p]) /\ ~ Waits(p, claiming[p])
RedisAt(p)   == RedisHas(p) =>
  popped[p] \in Run /\ Fresh(p, popped[p]) /\ ~ Waits(p, popped[p])
ApartAt(p)   == DbHas(p) /\ RedisHas(p) => claiming[p] # popped[p]
ChannelAt(p) ==
  /\ \A i \in DOMAIN taskCh[p] : Fresh(p, taskCh[p][i])
  /\ \A i, j \in DOMAIN taskCh[p] : taskCh[p][i] = taskCh[p][j] => i = j
BegunAt(p)   ==
  \A r \in Run : begun[p][r] <= 1 /\ (begun[p][r] # 0 => r \in seen[p])

OnceAt(p) == DbAt(p) /\ RedisAt(p) /\ ApartAt(p) /\ ChannelAt(p) /\ BegunAt(p)
OnceInv   == \A p \in Poller : OnceAt(p)

(* A claimed run has left the queue for good.                               *)
ClaimInv == \A r \in Run :
  /\ claimed[r] = {} \/ \E p \in Poller : claimed[r] = {p}
  /\ claimed[r] # {} => status[r] \notin {"none", "queued"}

IInv == TypeOK /\ OnceInv /\ ClaimInv /\ RunningHasAWriter
-----------------------------------------------------------------------------
LEMMA OnceImplies == IInv => ClaimedOnce
<1> SUFFICES ASSUME IInv PROVE ClaimedOnce
  OBVIOUS
<1>1. ASSUME NEW r \in Run PROVE Cardinality(claimed[r]) <= 1
  <2>1. claimed[r] = {} \/ \E p \in Poller : claimed[r] = {p}
    BY DEF IInv, ClaimInv
  <2>2. CASE claimed[r] = {}
    BY <2>2, FS_EmptySet
  <2>3. ASSUME NEW p \in Poller, claimed[r] = {p} PROVE Cardinality(claimed[r]) <= 1
    <3>1. Cardinality({p}) = 1
      BY FS_Singleton, Zenon
    <3> QED  BY <2>3, <3>1
  <2> QED  BY <2>1, <2>2, <2>3
<1>2. \A p \in Poller, r \in Run : begun[p][r] <= 1
  BY DEF IInv, OnceInv, OnceAt, BegunAt
<1> QED  BY <1>1, <1>2 DEF ClaimedOnce

LEMMA InitIInv == Init => IInv
<1> SUFFICES ASSUME Init PROVE IInv
  OBVIOUS
<1> USE RunQueueAssumption DEF Init
<1>1. TypeOK
  <2>1. /\ seen \in [Poller -> {{}}] /\ batch \in [Poller -> {{}}]
        /\ dbPc \in [Poller -> {"wait", "gone"}]
        /\ claiming \in [Poller -> {NoRun}] /\ popped \in [Poller -> {NoRun}]
        /\ left \in [Poller -> {{}, Executor}]
        /\ reqRun \in [Request -> {NoRun}]
        /\ claimed \in [Run -> {{}}] /\ claimErr \in [Poller -> {{}}]
    OBVIOUS
  <2>2. taskCh \in [Poller -> Seq(Run)]
    OBVIOUS
  <2>3. /\ job \in [Poller -> [Executor -> Run \cup {NoRun}]]
        /\ begun \in [Poller -> [Run -> Nat]]
    OBVIOUS
  <2>4. /\ status \in [Run -> Status] /\ pending \in SUBSET Run
        /\ mode \in [Poller -> {"up", "stopping", "down"}]
        /\ redisPc \in [Poller -> {"pop", "check", "send", "gone"}]
        /\ reqPc \in [Request -> {"idle", "starting", "executing", "cancelling", "done"}]
    BY DEF Status
  <2> QED  BY <2>1, <2>2, <2>3, <2>4 DEF TypeOK
<1>2. OnceInv
  <2>1. ASSUME NEW p \in Poller
        PROVE  /\ ~ DbHas(p) /\ ~ RedisHas(p)
               /\ taskCh[p] = <<>> /\ DOMAIN taskCh[p] = {}
               /\ \A r \in Run : begun[p][r] = 0
    <3>1. dbPc[p] \in {"wait", "gone"} /\ redisPc[p] \in {"pop", "gone"}
      OBVIOUS
    <3>2. ~ DbHas(p) /\ ~ RedisHas(p)
      BY <3>1 DEF DbHas, RedisHas
    <3>3. taskCh[p] = <<>> /\ DOMAIN <<>> = {}
      OBVIOUS
    <3>4. begun[p] = [r \in Run |-> 0]
      BY Zenon
    <3> QED  BY <3>2, <3>3, <3>4
  <2> HIDE DEF Init
  <2> QED  BY <2>1 DEF OnceInv, OnceAt, DbAt, RedisAt, ApartAt, ChannelAt, BegunAt
<1>3. ASSUME NEW r \in Run PROVE status[r] # "running" /\ claimed[r] = {}
  <2>1. status[r] \in {"none", "queued", "pending", "cancelled"}
    OBVIOUS
  <2> QED  BY <2>1
<1> HIDE DEF Init
<1>4. ClaimInv /\ RunningHasAWriter
  BY <1>3 DEF ClaimInv, RunningHasAWriter
<1> QED  BY <1>1, <1>2, <1>4 DEF IInv
-----------------------------------------------------------------------------
(* An assignment to one place of a function.                                *)
LEMMA Put ==
  ASSUME NEW S, NEW T, NEW f \in [S -> T], NEW x \in S, NEW v \in T
  PROVE  [f EXCEPT ![x] = v] \in [S -> T]
OBVIOUS

(* The channel: what is sent comes last, what is received comes first.      *)
LEMMA Sent ==
  ASSUME NEW c \in Seq(Run), NEW r \in Run
  PROVE  /\ Append(c, r) \in Seq(Run)
         /\ \A i \in DOMAIN c : i \in DOMAIN Append(c, r) /\ Append(c, r)[i] = c[i]
         /\ \E n \in DOMAIN Append(c, r) :
              /\ Append(c, r)[n] = r
              /\ \A i \in DOMAIN Append(c, r) : i = n \/ i \in DOMAIN c
<1>1. Append(c, r) \in Seq(Run) /\ Len(Append(c, r)) = Len(c) + 1 /\ Len(c) \in Nat
  OBVIOUS
<1>2. \A i \in 1 .. Len(c) : Append(c, r)[i] = c[i]
  OBVIOUS
<1>3. Append(c, r)[Len(c) + 1] = r
  OBVIOUS
<1>4. DOMAIN c = 1 .. Len(c) /\ DOMAIN Append(c, r) = 1 .. Len(c) + 1
  BY <1>1
<1>5. Len(c) + 1 \in DOMAIN Append(c, r)
  BY <1>1, <1>4
<1>6. \A i \in DOMAIN Append(c, r) : i = Len(c) + 1 \/ i \in DOMAIN c
  BY <1>1, <1>4
<1> QED  BY <1>1, <1>2, <1>3, <1>4, <1>5, <1>6

LEMMA Received ==
  ASSUME NEW c \in Seq(Run), c # <<>>
  PROVE  /\ Head(c) \in Run /\ Tail(c) \in Seq(Run)
         /\ 1 \in DOMAIN c /\ c[1] = Head(c)
         /\ \A i \in DOMAIN Tail(c) : i \in Nat \ {0} /\ i + 1 \in DOMAIN c
                                      /\ Tail(c)[i] = c[i + 1]
         /\ \A i \in DOMAIN c : i = 1 \/ (i - 1 \in DOMAIN Tail(c) /\ Tail(c)[i - 1] = c[i])
<1>1. Len(c) \in Nat /\ Len(c) # 0 /\ DOMAIN c = 1 .. Len(c)
  OBVIOUS
<1>2. Head(c) = c[1] /\ Tail(c) \in Seq(Run) /\ Len(Tail(c)) = Len(c) - 1
  BY <1>1
<1>3. \A i \in 1 .. Len(c) - 1 : Tail(c)[i] = c[i + 1]
  BY <1>1
<1>4. DOMAIN Tail(c) = 1 .. Len(c) - 1
  BY <1>1, <1>2
<1>5. 1 \in DOMAIN c /\ Head(c) \in Run
  BY <1>1
<1>6. \A i \in DOMAIN Tail(c) : i \in Nat \ {0} /\ i + 1 \in DOMAIN c
                                 /\ Tail(c)[i] = c[i + 1]
  BY <1>1, <1>3, <1>4
<1>7. ASSUME NEW i \in DOMAIN c, i # 1
      PROVE  i - 1 \in DOMAIN Tail(c) /\ Tail(c)[i - 1] = c[i]
  <2>1. i - 1 \in 1 .. Len(c) - 1 /\ (i - 1) + 1 = i
    BY <1>1, <1>7
  <2> QED  BY <2>1, <1>3, <1>4
<1> QED  BY <1>2, <1>5, <1>6, <1>7

(* What need not be looked at again when a step leaves it alone.            *)
LEMMA OnceStays ==
  ASSUME OnceInv, UNCHANGED <<seen, dbPc, claiming, redis, taskCh, begun>>
  PROVE  OnceInv'
BY DEF OnceInv, OnceAt, DbAt, RedisAt, ApartAt, ChannelAt, BegunAt, DbHas, RedisHas, Fresh, Waits,
       redis

LEMMA OthersStay ==
  ASSUME OnceInv, NEW p \in Poller, OnceAt(p)',
         \A x \in Poller \ {p} :
           /\ seen'[x] = seen[x] /\ taskCh'[x] = taskCh[x] /\ begun'[x] = begun[x]
           /\ dbPc'[x] = dbPc[x] /\ claiming'[x] = claiming[x]
           /\ redisPc'[x] = redisPc[x] /\ popped'[x] = popped[x]
  PROVE  OnceInv'
<1> SUFFICES ASSUME NEW x \in Poller, x # p PROVE OnceAt(x)'
  BY DEF OnceInv
<1>1. OnceAt(x)
  BY DEF OnceInv
<1> QED
  BY <1>1 DEF OnceAt, DbAt, RedisAt, ApartAt, ChannelAt, BegunAt, DbHas, RedisHas, Fresh, Waits

LEMMA ClaimStays ==
  ASSUME ClaimInv, UNCHANGED claimed,
         \A r \in Run : status[r] \in {"none", "queued"} \/ status'[r] \notin {"none", "queued"}
  PROVE  ClaimInv'
BY DEF ClaimInv

LEMMA WriterStays ==
  ASSUME RunningHasAWriter, TypeOK, claimed' = claimed,
         \A r \in Run : status'[r] = "running" => status[r] = "running",
         \A p \in Poller : CtxDone(p) => CtxDone(p)',
         \A p \in Poller, r \in Run :
           r \in InHand(p) /\ status'[r] = "running" => r \in InHand(p)' \/ CtxDone(p)',
         \A q \in Request : reqPc[q] = "executing" /\ status'[reqRun[q]] = "running" =>
           reqPc'[q] = "executing" /\ reqRun'[q] = reqRun[q]
  PROVE  RunningHasAWriter'
<1> SUFFICES ASSUME NEW r \in Run, status'[r] = "running"
             PROVE  \/ \E p \in claimed[r] : r \in InHand(p)' \/ CtxDone(p)'
                    \/ \E q \in Request : reqPc'[q] = "executing" /\ reqRun'[q] = r
  BY DEF RunningHasAWriter
<1>1. \/ \E p \in claimed[r] : r \in InHand(p) \/ CtxDone(p)
      \/ \E q \in Request : reqPc[q] = "executing" /\ reqRun[q] = r
  BY DEF RunningHasAWriter
<1>2. claimed[r] \subseteq Poller
  BY DEF TypeOK
<1> QED  BY <1>1, <1>2
-----------------------------------------------------------------------------
(* Rows are created, and leave the Redis list.                              *)
LEMMA RowsKeep ==
  ASSUME IInv, NEW r \in Run,
         QueueRun(r) \/ PushQueuedRunToRedis(r) \/ WorkerPops(r) \/ DuplicateRun(r)
  PROVE  IInv'
<1>0. UNCHANGED <<mode, seen, dbSide, redis, taskCh, workers, requests, history>>
  BY DEF QueueRun, PushQueuedRunToRedis, WorkerPops, DuplicateRun
<1>1. \/ status' = status
      \/ status[r] = "none" /\ \E s \in {"queued", "pending"} : status' = [status EXCEPT ![r] = s]
  BY DEF QueueRun, PushQueuedRunToRedis, WorkerPops, DuplicateRun
<1>2. TypeOK'
  <2>0. unpushed \in SUBSET Run /\ pending \in SUBSET Run
    BY DEF IInv, TypeOK
  <2>1. unpushed' \in SUBSET Run /\ pending' \in SUBSET Run
    <3>1. CASE QueueRun(r)
      BY <2>0, <3>1 DEF QueueRun
    <3>2. CASE PushQueuedRunToRedis(r)
      BY <2>0, <3>2 DEF PushQueuedRunToRedis
    <3>3. CASE WorkerPops(r)
      BY <2>0, <3>3 DEF WorkerPops
    <3>4. CASE DuplicateRun(r)
      BY <2>0, <3>4 DEF DuplicateRun
    <3> QED  BY <3>1, <3>2, <3>3, <3>4
  <2>2. status' \in [Run -> Status]
    BY <1>1 DEF IInv, TypeOK, Status
  <2> QED
    BY <1>0, <2>1, <2>2 DEF IInv, TypeOK, dbSide, redis, workers, requests, history
<1>3. OnceInv'
  BY <1>0, OnceStays DEF IInv, dbSide, history
<1>4. ClaimInv'
  BY <1>0, <1>1, ClaimStays DEF IInv, TypeOK, history
<1>5. RunningHasAWriter'
  <2>1. \A x \in Run : status'[x] = "running" => status[x] = "running"
    BY <1>1 DEF IInv, TypeOK
  <2>2. ASSUME NEW p \in Poller PROVE InHand(p)' = InHand(p) /\ (CtxDone(p) <=> CtxDone(p)')
    BY <1>0 DEF InHand, CtxDone, dbSide, workers
  <2> QED  BY <1>0, <2>1, <2>2, WriterStays DEF IInv, requests, history
<1> QED  BY <1>2, <1>3, <1>4, <1>5 DEF IInv

(* StartRun and CancelRun: a request that starts a run will write it again. *)
LEMMA RequestsKeep ==
  ASSUME IInv, NEW q \in Request,
         \/ \E r \in Run : StartRun(q, r) \/ CancelRun(q, r)
         \/ StartRunRuns(q) \/ StartRunEnds(q) \/ CancelRunWrites(q)
  PROVE  IInv'
<1>0. UNCHANGED <<unpushed, pending, mode, seen, dbSide, redis, taskCh, workers, history>>
  BY DEF StartRun, CancelRun, StartRunRuns, StartRunEnds, CancelRunWrites, Reads, Writes, rows
<1>1. OnceInv'
  BY <1>0, OnceStays DEF IInv, dbSide, history
<1>2. ASSUME NEW p \in Poller PROVE InHand(p)' = InHand(p) /\ (CtxDone(p) <=> CtxDone(p)')
  BY <1>0 DEF InHand, CtxDone, dbSide, workers
<1>3. CASE \E r \in Run : StartRun(q, r) \/ CancelRun(q, r)
  <2>1. /\ reqPc[q] = "idle" /\ status' = status
        /\ \E r \in Run, pc \in {"starting", "cancelling"} :
             reqPc' = [reqPc EXCEPT ![q] = pc] /\ reqRun' = [reqRun EXCEPT ![q] = r]
    BY <1>3 DEF StartRun, CancelRun, Reads, rows
  <2>2. TypeOK'
    BY <1>0, <2>1 DEF IInv, TypeOK, dbSide, redis, workers, history
  <2>3. ClaimInv'
    BY <1>0, <2>1, ClaimStays DEF IInv, history
  <2>4. RunningHasAWriter'
    BY <1>0, <1>2, <2>1, WriterStays DEF IInv, TypeOK, history
  <2> QED  BY <1>1, <2>2, <2>3, <2>4 DEF IInv
<1>4. CASE StartRunRuns(q) \/ StartRunEnds(q) \/ CancelRunWrites(q)
  <2> PICK x \in Run \cup {NoRun} : x = reqRun[q]
    BY DEF IInv, TypeOK
  <2>1. PICK s \in {"running", "completed", "failed", "cancelled"} :
          /\ status' = [status EXCEPT ![x] = s]
          /\ s = "running" => reqPc' = [reqPc EXCEPT ![q] = "executing"]
          /\ s # "running" => reqPc' = [reqPc EXCEPT ![q] = "done"]
          /\ reqRun' = reqRun
    BY <1>4 DEF StartRunRuns, StartRunEnds, CancelRunWrites, Writes, UpdateRunStatus
  <2>2. TypeOK'
    BY <1>0, <2>1 DEF IInv, TypeOK, Status, dbSide, redis, workers, history
  <2>3. ClaimInv'
    BY <1>0, <2>1, ClaimStays DEF IInv, TypeOK, history
  <2>4. RunningHasAWriter'
    <3> SUFFICES ASSUME NEW r \in Run, status'[r] = "running"
                 PROVE  \/ \E p \in claimed[r] : r \in InHand(p)' \/ CtxDone(p)'
                        \/ \E y \in Request : reqPc'[y] = "executing" /\ reqRun'[y] = r
      BY <1>0 DEF RunningHasAWriter, history
    <3>1. CASE r = x
      BY <2>1, <3>1 DEF IInv, TypeOK
    <3>2. CASE r # x
      <4>1. status[r] = "running"
        BY <2>1, <3>2 DEF IInv, TypeOK
      <4>2. \/ \E p \in claimed[r] : r \in InHand(p) \/ CtxDone(p)
            \/ \E y \in Request : reqPc[y] = "executing" /\ reqRun[y] = r
        BY <4>1 DEF IInv, RunningHasAWriter
      <4> QED  BY <1>2, <2>1, <3>2, <4>2 DEF IInv, TypeOK
    <3> QED  BY <3>1, <3>2
  <2> QED  BY <1>1, <2>2, <2>3, <2>4 DEF IInv
<1> QED  BY <1>3, <1>4
-----------------------------------------------------------------------------
(* The DB goroutine: a run that it has not seen is nowhere in the process,  *)
(* and a run that it claims was nobody's.                                   *)
LEMMA DbKeeps ==
  ASSUME IInv, NEW p \in Poller, DbPoll(p) \/ DbPollEnd(p) \/ DbNext(p)
  PROVE  IInv'
<1>0. /\ UNCHANGED <<status, unpushed, pending, mode, redis, taskCh, workers, requests, history>>
      /\ dbPc[p] \in {"wait", "next"} /\ dbPc'[p] # "send"
      /\ \A x \in Poller \ {p} :
           dbPc'[x] = dbPc[x] /\ claiming'[x] = claiming[x] /\ seen'[x] = seen[x]
  <2>1. CASE DbPoll(p)
    BY <2>1 DEF DbPoll, rows, IInv, TypeOK
  <2>2. CASE DbPollEnd(p)
    BY <2>2 DEF DbPollEnd, rows, IInv, TypeOK
  <2>3. CASE DbNext(p)
    BY <2>3 DEF DbNext, rows, IInv, TypeOK
  <2> QED  BY <2>1, <2>2, <2>3
<1>1. TypeOK'
  <2>0. UNCHANGED <<popped, redisPc, job, left, reqPc, reqRun, begun, claimed, claimErr>>
    BY <1>0 DEF redis, workers, requests, history
  <2>1. CASE DbPoll(p)
    <3>1. \/ dbPc' = [dbPc EXCEPT ![p] = "gone"] /\ batch' = batch
          \/ \E b \in SUBSET Run : /\ batch' = [batch EXCEPT ![p] = b]
                                  /\ dbPc' = [dbPc EXCEPT ![p] = "next"]
      BY <2>1 DEF DbPoll
    <3>0. batch \in [Poller -> SUBSET Run]
          /\ dbPc \in [Poller -> {"wait", "next", "claim", "send", "gone"}]
      BY DEF IInv, TypeOK
    <3>2. batch' \in [Poller -> SUBSET Run]
          /\ dbPc' \in [Poller -> {"wait", "next", "claim", "send", "gone"}]
      BY <3>0, <3>1, Put, Zenon
    <3>3. UNCHANGED <<seen, claiming>>
      BY <2>1 DEF DbPoll
    <3> QED  BY <1>0, <2>0, <3>2, <3>3 DEF IInv, TypeOK
  <2>2. CASE DbPollEnd(p)
    BY <1>0, <2>0, <2>2 DEF DbPollEnd, IInv, TypeOK
  <2>3. CASE DbNext(p)
    <3>1. PICK r \in Run :
            /\ batch' = [batch EXCEPT ![p] = @ \ {r}]
            /\ seen' = [seen EXCEPT ![p] = @ \cup {r}]
            /\ IF r \in seen[p]
                 THEN UNCHANGED <<dbPc, claiming>>
                 ELSE /\ claiming' = [claiming EXCEPT ![p] = r]
                      /\ dbPc' = [dbPc EXCEPT ![p] = "claim"]
      BY <2>3 DEF DbNext, IInv, TypeOK
    <3>2. batch' \in [Poller -> SUBSET Run] /\ seen' \in [Poller -> SUBSET Run]
      BY <3>1 DEF IInv, TypeOK
    <3>3. claiming' \in [Poller -> Run \cup {NoRun}]
          /\ dbPc' \in [Poller -> {"wait", "next", "claim", "send", "gone"}]
      BY <3>1 DEF IInv, TypeOK
    <3> QED  BY <1>0, <2>0, <3>2, <3>3 DEF IInv, TypeOK
  <2> QED  BY <2>1, <2>2, <2>3
<1>2. OnceInv'
  <2>0. OnceAt(p) /\ ~ DbHas(p) /\ UNCHANGED <<redisPc, popped, begun>>
    BY <1>0 DEF IInv, OnceInv, DbHas, redis, history
  <2>1. OnceAt(p)'
    <3>1. CASE DbPoll(p) \/ DbPollEnd(p)
      <4>1. ~ DbHas(p)' /\ UNCHANGED seen
        BY <3>1 DEF DbPoll, DbPollEnd, DbHas, IInv, TypeOK
      <4> QED
        BY <1>0, <2>0, <4>1
        DEF OnceAt, DbAt, RedisAt, ApartAt, ChannelAt, BegunAt, RedisHas, Fresh, Waits
    <3>2. CASE DbNext(p)
      <4>1. PICK r \in Run :
              /\ seen'[p] = seen[p] \cup {r}
              /\ r \in seen[p] => ~ DbHas(p)'
              /\ r \notin seen[p] => claiming'[p] = r
        BY <3>2 DEF DbNext, DbHas, IInv, TypeOK
      <4>2. r \notin seen[p] => begun[p][r] = 0 /\ ~ Waits(p, r) /\ (RedisHas(p) => popped[p] # r)
        BY <2>0 DEF OnceAt, RedisAt, ChannelAt, BegunAt, Fresh, Waits
      <4> QED
        BY <1>0, <2>0, <4>1, <4>2
        DEF OnceAt, DbAt, RedisAt, ApartAt, ChannelAt, BegunAt, RedisHas, Fresh, Waits
    <3> QED  BY <3>1, <3>2, DbPoll(p) \/ DbPollEnd(p) \/ DbNext(p)
  <2> QED  BY <1>0, <2>0, <2>1, OthersStay DEF IInv
<1>3. ClaimInv'
  BY <1>0, ClaimStays DEF IInv, history
<1>4. RunningHasAWriter'
  <2>1. ASSUME NEW x \in Poller PROVE InHand(x)' = InHand(x) /\ (CtxDone(x) <=> CtxDone(x)')
    BY <1>0 DEF InHand, CtxDone, workers
  <2> QED  BY <1>0, <2>1, WriterStays DEF IInv, requests, history
<1> QED  BY <1>1, <1>2, <1>3, <1>4 DEF IInv

LEMMA DbClaimKeeps ==
  ASSUME IInv, NEW p \in Poller, DbClaim(p)
  PROVE  IInv'
<1>0. /\ UNCHANGED <<unpushed, pending, mode, seen, batch, redis, taskCh, workers, requests, begun>>
      /\ dbPc[p] = "claim" /\ \A x \in Poller \ {p} :
                                dbPc'[x] = dbPc[x] /\ claiming'[x] = claiming[x]
  BY DEF DbClaim, IInv, TypeOK
<1> PICK r \in Run : r = claiming[p]
  BY <1>0 DEF IInv, OnceInv, OnceAt, DbAt, DbHas
<1>1. \/ /\ status[r] = "queued" /\ status' = [status EXCEPT ![r] = "running"]
         /\ claimed' = [claimed EXCEPT ![r] = @ \cup {p}]
         /\ dbPc' = [dbPc EXCEPT ![p] = "send"] /\ claiming' = claiming
         /\ claimErr' = claimErr
      \/ /\ UNCHANGED <<status, claimed>> /\ dbPc' = [dbPc EXCEPT ![p] = "next"]
         /\ claiming' = [claiming EXCEPT ![p] = NoRun]
         /\ claimErr' = claimErr \/ claimErr' = [claimErr EXCEPT ![p] = @ \cup {r}]
  BY DEF DbClaim, UpdateRunStatus
<1>2. TypeOK'
  <2>1. status' \in [Run -> Status] /\ claimed' \in [Run -> SUBSET Poller]
    <3>1. status' = status \/ status' = [status EXCEPT ![r] = "running"]
      BY <1>1
    <3>2. claimed' = claimed \/ claimed' = [claimed EXCEPT ![r] = @ \cup {p}]
      BY <1>1
    <3>3. "running" \in Status /\ status \in [Run -> Status] /\ claimed \in [Run -> SUBSET Poller]
      BY DEF IInv, TypeOK, Status
    <3>4. status' \in [Run -> Status]
      BY <3>1, <3>3
    <3>5. claimed' \in [Run -> SUBSET Poller]
      BY <3>2, <3>3
    <3> QED  BY <3>4, <3>5
  <2>2. dbPc' \in [Poller -> {"wait", "next", "claim", "send", "gone"}]
    BY <1>1 DEF IInv, TypeOK
  <2>3. claiming' \in [Poller -> Run \cup {NoRun}]
    BY <1>1 DEF IInv, TypeOK
  <2>4. claimErr' \in [Poller -> SUBSET Run]
    <3>1. claimErr' = claimErr \/ claimErr' = [claimErr EXCEPT ![p] = @ \cup {r}]
      BY <1>1
    <3>2. claimErr \in [Poller -> SUBSET Run]
      BY DEF IInv, TypeOK
    <3> QED  BY <3>1, <3>2
  <2>5. UNCHANGED <<redisPc, popped, job, left, reqPc, reqRun>>
    BY <1>0 DEF redis, workers, requests
  <2> QED  BY <1>0, <2>1, <2>2, <2>3, <2>4, <2>5 DEF IInv, TypeOK
<1>3. OnceInv'
  <2>1. OnceAt(p) /\ (~ DbHas(p)' \/ claiming'[p] = claiming[p]) /\ DbHas(p)
    BY <1>0, <1>1 DEF IInv, TypeOK, OnceInv, DbHas
  <2>2. OnceAt(p)'
    BY <1>0, <2>1
    DEF OnceAt, DbAt, RedisAt, ApartAt, ChannelAt, BegunAt, RedisHas, Fresh, Waits, redis
  <2> QED  BY <1>0, <2>2, OthersStay DEF IInv, redis
<1>4. ClaimInv'
  <2>1. CASE UNCHANGED <<status, claimed>>
    BY <2>1 DEF IInv, ClaimInv
  <2>2. CASE status[r] = "queued" /\ status' = [status EXCEPT ![r] = "running"]
             /\ claimed' = [claimed EXCEPT ![r] = @ \cup {p}]
    <3>1. claimed[r] = {}
      BY <2>2 DEF IInv, ClaimInv
    <3>2. claimed'[r] = {p} /\ status'[r] = "running"
      BY <2>2, <3>1 DEF IInv, TypeOK
    <3>3. \A x \in Run \ {r} : claimed'[x] = claimed[x] /\ status'[x] = status[x]
      BY <2>2 DEF IInv, TypeOK
    <3> QED  BY <3>2, <3>3 DEF IInv, ClaimInv
  <2> QED  BY <1>1, <2>1, <2>2
<1>5. RunningHasAWriter'
  <2>1. ASSUME NEW x \in Poller
        PROVE  InHand(x) \subseteq InHand(x)' /\ (CtxDone(x) <=> CtxDone(x)')
    BY <1>0 DEF InHand, CtxDone, workers
  <2>2. status'[r] = "running" /\ status[r] # "running" =>
          p \in claimed'[r] /\ r \in InHand(p)'
    <3> SUFFICES ASSUME status'[r] = "running", status[r] # "running"
                 PROVE  p \in claimed'[r] /\ r \in InHand(p)'
      OBVIOUS
    <3>1. dbPc'[p] = "send" /\ claiming'[p] = r /\ p \in claimed'[r]
      BY <1>1 DEF IInv, TypeOK
    <3> QED  BY <3>1 DEF InHand
  <2>3. \A x \in Run \ {r} : status'[x] = status[x]
    BY <1>1 DEF IInv, TypeOK
  <2>4. UNCHANGED <<reqPc, reqRun>>
    BY <1>0 DEF requests
  <2>5. \A x \in Run : claimed[x] \subseteq Poller /\ claimed[x] \subseteq claimed'[x]
    <3>1. claimed \in [Run -> SUBSET Poller]
      BY DEF IInv, TypeOK
    <3>2. claimed' = claimed \/ claimed' = [claimed EXCEPT ![r] = @ \cup {p}]
      BY <1>1
    <3> QED  BY <3>1, <3>2
  <2>6. ASSUME NEW x \in Run, status'[x] = "running"
        PROVE  \/ \E y \in claimed'[x] : x \in InHand(y)' \/ CtxDone(y)'
               \/ \E q \in Request : reqPc'[q] = "executing" /\ reqRun'[q] = x
    <3>1. CASE status[x] # "running"
      BY <2>2, <2>3, <2>6, <3>1
    <3>2. CASE status[x] = "running"
      <4>1. \/ \E y \in claimed[x] : x \in InHand(y) \/ CtxDone(y)
            \/ \E q \in Request : reqPc[q] = "executing" /\ reqRun[q] = x
        BY <3>2 DEF IInv, RunningHasAWriter
      <4> QED  BY <2>1, <2>4, <2>5, <4>1
    <3> QED  BY <3>1, <3>2
  <2> QED  BY <2>6 DEF RunningHasAWriter
<1> QED  BY <1>2, <1>3, <1>4, <1>5 DEF IInv
-----------------------------------------------------------------------------
(* The sends: the run that was in a goroutine's hands is last in the        *)
(* channel.                                                                 *)
LEMMA SendKeepsChannel ==
  ASSUME NEW p \in Poller, NEW r \in Run, taskCh[p] \in Seq(Run), ChannelAt(p),
         Fresh(p, r), ~ Waits(p, r),
         taskCh'[p] = Append(taskCh[p], r), UNCHANGED <<seen, begun>>
  PROVE  /\ ChannelAt(p)'
         /\ \A y \in Run : Waits(p, y)' => y = r \/ Waits(p, y)
         /\ \A y : y = r \/ Waits(p, y) => Waits(p, y)'
<1> DEFINE c == taskCh[p]
           d == taskCh'[p]
<1>1. /\ \A i \in DOMAIN c : i \in DOMAIN d /\ d[i] = c[i]
      /\ \E n \in DOMAIN d : d[n] = r /\ \A i \in DOMAIN d : i = n \/ i \in DOMAIN c
  BY Sent
<1>2. PICK n \in DOMAIN d : d[n] = r /\ \A i \in DOMAIN d : i = n \/ i \in DOMAIN c
  BY <1>1
<1>3. \A i \in DOMAIN c : Fresh(p, c[i]) /\ c[i] # r
  BY DEF ChannelAt, Waits
<1>4. \A i, j \in DOMAIN c : c[i] = c[j] => i = j
  BY DEF ChannelAt
<1>5. \A i \in DOMAIN d : Fresh(p, d[i])
  BY <1>1, <1>2, <1>3
<1>6. \A i, j \in DOMAIN d : d[i] = d[j] => i = j
  BY <1>1, <1>2, <1>3, <1>4
<1>7. ChannelAt(p)'
  BY <1>5, <1>6 DEF ChannelAt, Fresh
<1> QED  BY <1>1, <1>2, <1>7 DEF Waits

LEMMA SendKeeps ==
  ASSUME IInv, NEW p \in Poller, DbSend(p) \/ RedisSend(p)
  PROVE  IInv'
<1>0. UNCHANGED <<rows, mode, seen, batch, workers, requests, history>>
      /\ \A x \in Poller \ {p} : /\ dbPc'[x] = dbPc[x] /\ claiming'[x] = claiming[x]
                                 /\ redisPc'[x] = redisPc[x] /\ popped'[x] = popped[x]
                                 /\ taskCh'[x] = taskCh[x]
  BY DEF DbSend, RedisSend, dbSide, redis, IInv, TypeOK
<1>1. OnceAt(p) /\ taskCh[p] \in Seq(Run) /\ UNCHANGED <<seen, begun, claimed, job, left>>
  BY <1>0 DEF IInv, OnceInv, TypeOK, history, workers
<1>2. /\ TypeOK' /\ OnceAt(p)' /\ InHand(p) \cap Run \subseteq InHand(p)'
  <2>0. UNCHANGED <<status, unpushed, pending, claimErr, reqPc, reqRun>>
    BY <1>0 DEF rows, history, requests
  <2>1. CASE DbSend(p)
    <3> PICK r \in Run : r = claiming[p]
      BY <2>1 DEF DbSend, IInv, OnceInv, OnceAt, DbAt, DbHas
    <3>1. /\ taskCh' = [taskCh EXCEPT ![p] = Append(@, r)]
          /\ claiming' = [claiming EXCEPT ![p] = NoRun]
          /\ dbPc' = [dbPc EXCEPT ![p] = "next"]
          /\ dbPc[p] = "send" /\ UNCHANGED <<redisPc, popped>>
      BY <2>1 DEF DbSend, redis
    <3>2. DbHas(p) /\ ~ DbHas(p)' /\ taskCh'[p] = Append(taskCh[p], r)
      BY <3>1 DEF DbHas, IInv, TypeOK
    <3>3. Fresh(p, r) /\ ~ Waits(p, r)
      BY <1>1, <3>2 DEF OnceAt, DbAt
    <3>4. /\ ChannelAt(p)'
          /\ \A y \in Run : Waits(p, y)' => y = r \/ Waits(p, y)
          /\ \A y : y = r \/ Waits(p, y) => Waits(p, y)'
      BY <1>1, <3>2, <3>3, SendKeepsChannel DEF OnceAt
    <3>5. OnceAt(p)'
      BY <1>1, <3>1, <3>2, <3>4 DEF OnceAt, DbAt, RedisAt, ApartAt, BegunAt, RedisHas, Fresh
    <3>6. TypeOK'
      <4>1. Append(taskCh[p], r) \in Seq(Run)
        BY <1>1, Sent
      <4>2. taskCh' \in [Poller -> Seq(Run)]
        BY <3>1, <4>1 DEF IInv, TypeOK
      <4>3. claiming' \in [Poller -> Run \cup {NoRun}]
            /\ dbPc' \in [Poller -> {"wait", "next", "claim", "send", "gone"}]
        BY <3>1 DEF IInv, TypeOK
      <4> QED  BY <1>0, <1>1, <2>0, <3>1, <4>2, <4>3 DEF IInv, TypeOK
    <3>7. ASSUME NEW y \in InHand(p) \cap Run PROVE y \in InHand(p)'
      <4>1. y = r \/ Waits(p, y) \/ \E e \in Executor : job[p][e] = y
        BY <3>1 DEF InHand, Waits
      <4>2. y = r \/ Waits(p, y) => Waits(p, y)'
        BY <3>4
      <4>3. Waits(p, y)' => y \in InHand(p)'
        BY DEF InHand, Waits
      <4>4. (\E e \in Executor : job[p][e] = y) => y \in InHand(p)'
        BY <1>1 DEF InHand
      <4> QED  BY <4>1, <4>2, <4>3, <4>4
    <3> QED  BY <3>5, <3>6, <3>7
  <2>2. CASE RedisSend(p)
    <3> PICK r \in Run : r = popped[p]
      BY <2>2 DEF RedisSend, IInv, OnceInv, OnceAt, RedisAt, RedisHas
    <3>1. /\ taskCh' = [taskCh EXCEPT ![p] = Append(@, r)]
          /\ popped' = [popped EXCEPT ![p] = NoRun]
          /\ redisPc' = [redisPc EXCEPT ![p] = "pop"]
          /\ redisPc[p] = "send" /\ UNCHANGED <<dbPc, claiming>>
      BY <2>2 DEF RedisSend, dbSide
    <3>2. RedisHas(p) /\ ~ RedisHas(p)' /\ taskCh'[p] = Append(taskCh[p], r)
      BY <3>1 DEF RedisHas, IInv, TypeOK
    <3>3. Fresh(p, r) /\ ~ Waits(p, r)
      BY <1>1, <3>2 DEF OnceAt, RedisAt
    <3>4. /\ ChannelAt(p)'
          /\ \A y \in Run : Waits(p, y)' => y = r \/ Waits(p, y)
          /\ \A y : y = r \/ Waits(p, y) => Waits(p, y)'
      BY <1>1, <3>2, <3>3, SendKeepsChannel DEF OnceAt
    <3>5. OnceAt(p)'
      BY <1>1, <3>1, <3>2, <3>4 DEF OnceAt, DbAt, RedisAt, ApartAt, BegunAt, DbHas, Fresh
    <3>6. TypeOK'
      <4>1. Append(taskCh[p], r) \in Seq(Run)
        BY <1>1, Sent
      <4>2. taskCh' \in [Poller -> Seq(Run)]
        BY <3>1, <4>1 DEF IInv, TypeOK
      <4>3. popped' \in [Poller -> Run \cup {NoRun}]
            /\ redisPc' \in [Poller -> {"pop", "check", "send", "gone"}]
        BY <3>1 DEF IInv, TypeOK
      <4> QED  BY <1>0, <1>1, <2>0, <3>1, <4>2, <4>3 DEF IInv, TypeOK
    <3>7. InHand(p) \cap Run \subseteq InHand(p)'
      BY <1>1, <3>1, <3>4 DEF InHand, Waits
    <3> QED  BY <3>5, <3>6, <3>7
  <2> QED  BY <2>1, <2>2
<1>3. OnceInv'
  BY <1>0, <1>1, <1>2, OthersStay DEF IInv
<1>4. ClaimInv'
  BY <1>0, <1>1, ClaimStays DEF IInv, rows
<1>5. RunningHasAWriter'
  <2>1. ASSUME NEW x \in Poller, x # p PROVE InHand(x)' = InHand(x)
    BY <1>0, <1>1, <2>1 DEF InHand
  <2>2. \A x \in Poller : CtxDone(x) <=> CtxDone(x)'
    BY <1>0 DEF CtxDone
  <2> QED  BY <1>0, <1>1, <1>2, <2>1, <2>2, WriterStays DEF IInv, rows, requests
<1> QED  BY <1>2, <1>3, <1>4, <1>5 DEF IInv
-----------------------------------------------------------------------------
(* The Redis goroutine does not write the row.                              *)
LEMMA RedisKeeps ==
  ASSUME IInv, NEW p \in Poller, RedisReturn(p) \/ RedisPop(p) \/ RedisCheck(p)
  PROVE  IInv'
<1>0. /\ UNCHANGED <<status, unpushed, mode, dbSide, taskCh, workers, requests, history>>
      /\ \A x \in Poller \ {p} :
           redisPc'[x] = redisPc[x] /\ popped'[x] = popped[x] /\ seen'[x] = seen[x]
  BY DEF RedisReturn, RedisPop, RedisCheck, rows, redis, IInv, TypeOK
<1>1. OnceAt(p) /\ UNCHANGED <<dbPc, batch, claiming, begun, claimed, claimErr, job, left>>
      /\ UNCHANGED <<reqPc, reqRun>>
  BY <1>0 DEF IInv, OnceInv, dbSide, history, workers, requests
<1>2. TypeOK' /\ OnceAt(p)'
  <2>1. CASE RedisReturn(p)
    <3>1. /\ redisPc' = [redisPc EXCEPT ![p] = "gone"]
          /\ UNCHANGED <<pending, seen, popped>>
      BY <2>1 DEF RedisReturn, rows
    <3>2. ~ RedisHas(p)'
      BY <3>1 DEF RedisHas, IInv, TypeOK
    <3>3. TypeOK'
      BY <1>0, <1>1, <3>1 DEF IInv, TypeOK
    <3> QED
      BY <1>0, <1>1, <3>1, <3>2, <3>3
      DEF OnceAt, DbAt, RedisAt, ApartAt, ChannelAt, BegunAt, DbHas, Fresh, Waits
  <2>2. CASE RedisPop(p)
    <3>1. PICK r \in Run :
            /\ pending' = pending \ {r}
            /\ seen' = [seen EXCEPT ![p] = @ \cup {r}]
            /\ IF r \in seen[p]
                 THEN UNCHANGED <<redisPc, popped>>
                 ELSE /\ popped' = [popped EXCEPT ![p] = r]
                      /\ redisPc' = [redisPc EXCEPT ![p] = "check"]
      BY <2>2 DEF RedisPop, IInv, TypeOK, redis
    <3>2. redisPc[p] = "pop"
      BY <2>2 DEF RedisPop
    <3>3. TypeOK'
      <4>1. seen' \in [Poller -> SUBSET Run] /\ pending' \in SUBSET Run
        BY <3>1 DEF IInv, TypeOK
      <4>2. popped' \in [Poller -> Run \cup {NoRun}]
            /\ redisPc' \in [Poller -> {"pop", "check", "send", "gone"}]
        BY <3>1 DEF IInv, TypeOK
      <4> QED  BY <1>0, <1>1, <4>1, <4>2 DEF IInv, TypeOK
    <3>4. seen'[p] = seen[p] \cup {r}
      BY <3>1 DEF IInv, TypeOK
    <3>5. CASE r \in seen[p]
      <4>1. seen'[p] = seen[p] /\ ~ RedisHas(p)'
        BY <3>1, <3>2, <3>4, <3>5 DEF RedisHas
      <4> QED
        BY <1>0, <1>1, <3>3, <4>1
        DEF OnceAt, DbAt, RedisAt, ApartAt, ChannelAt, BegunAt, DbHas, Fresh, Waits
    <3>6. CASE r \notin seen[p]
      <4>1. popped'[p] = r
        BY <3>1, <3>6 DEF IInv, TypeOK
      <4>2. begun[p][r] = 0 /\ ~ Waits(p, r) /\ (DbHas(p) => claiming[p] # r)
        BY <1>1, <3>6 DEF OnceAt, DbAt, ChannelAt, BegunAt, Fresh, Waits
      <4> QED
        BY <1>0, <1>1, <3>3, <3>4, <4>1, <4>2
        DEF OnceAt, DbAt, RedisAt, ApartAt, ChannelAt, BegunAt, DbHas, Fresh, Waits
    <3> QED  BY <3>5, <3>6
  <2>3. CASE RedisCheck(p)
    <3>1. /\ redisPc[p] = "check" /\ UNCHANGED <<pending, seen>>
          /\ \/ /\ redisPc' = [redisPc EXCEPT ![p] = "pop"]
                /\ popped' = [popped EXCEPT ![p] = NoRun]
             \/ redisPc' = [redisPc EXCEPT ![p] = "send"] /\ popped' = popped
      BY <2>3 DEF RedisCheck, rows
    <3>2. RedisHas(p) /\ (~ RedisHas(p)' \/ popped'[p] = popped[p])
      BY <3>1 DEF RedisHas, IInv, TypeOK
    <3>3. TypeOK'
      <4>1. popped' \in [Poller -> Run \cup {NoRun}]
        BY <3>1 DEF IInv, TypeOK
      <4>2. redisPc' \in [Poller -> {"pop", "check", "send", "gone"}]
        <5>1. \/ redisPc' = [redisPc EXCEPT ![p] = "pop"]
              \/ redisPc' = [redisPc EXCEPT ![p] = "send"]
          BY <3>1
        <5> QED  BY <5>1 DEF IInv, TypeOK
      <4> QED  BY <1>0, <1>1, <3>1, <4>1, <4>2 DEF IInv, TypeOK
    <3> QED
      BY <1>0, <1>1, <3>1, <3>2, <3>3
      DEF OnceAt, DbAt, RedisAt, ApartAt, ChannelAt, BegunAt, DbHas, Fresh, Waits
  <2> QED  BY <2>1, <2>2, <2>3
<1>3. OnceInv'
  BY <1>0, <1>1, <1>2, OthersStay DEF IInv
<1>4. ClaimInv'
  BY <1>0, <1>1, ClaimStays DEF IInv
<1>5. RunningHasAWriter'
  <2>1. ASSUME NEW x \in Poller PROVE InHand(x)' = InHand(x) /\ (CtxDone(x) <=> CtxDone(x)')
    BY <1>0, <1>1 DEF InHand, CtxDone
  <2> QED  BY <1>0, <1>1, <2>1, WriterStays DEF IInv
<1> QED  BY <1>2, <1>3, <1>4, <1>5 DEF IInv
-----------------------------------------------------------------------------
(* The executors: a run leaves the channel when it begins, and its row no   *)
(* longer says running when it ends, unless the process has been stopped.   *)
LEMMA TakeTaskKeeps ==
  ASSUME IInv, NEW p \in Poller, NEW e \in Executor, TakeTask(p, e)
  PROVE  IInv'
<1>0. /\ UNCHANGED <<status, unpushed, pending, mode, seen, dbPc, batch, claiming, redisPc>>
      /\ UNCHANGED <<popped, left, reqPc, reqRun, claimed, claimErr>>
  BY DEF TakeTask, rows, dbSide, redis, requests
<1> PICK c \in Seq(Run) : c = taskCh[p]
  BY DEF IInv, TypeOK
<1> PICK r \in Run : c # <<>> /\ r = Head(c)
  BY Received DEF TakeTask
<1>1. /\ job[p][e] = NoRun /\ job' = [job EXCEPT ![p][e] = r]
      /\ taskCh' = [taskCh EXCEPT ![p] = Tail(c)]
      /\ begun' = [begun EXCEPT ![p][r] = @ + 1]
  BY DEF TakeTask, Idle
<1>2. /\ taskCh'[p] = Tail(c) /\ Tail(c) \in Seq(Run)
      /\ 1 \in DOMAIN c /\ c[1] = r
      /\ \A i \in DOMAIN Tail(c) : i \in Nat \ {0} /\ i + 1 \in DOMAIN c /\ Tail(c)[i] = c[i + 1]
      /\ \A i \in DOMAIN c : i = 1 \/ (i - 1 \in DOMAIN Tail(c) /\ Tail(c)[i - 1] = c[i])
  BY <1>1, Received DEF IInv, TypeOK
<1>3. TypeOK'
  <2>1. taskCh' \in [Poller -> Seq(Run)]
    BY <1>1, <1>2 DEF IInv, TypeOK
  <2>2. job' \in [Poller -> [Executor -> Run \cup {NoRun}]]
    BY <1>1 DEF IInv, TypeOK
  <2>3. begun' \in [Poller -> [Run -> Nat]]
    BY <1>1 DEF IInv, TypeOK
  <2> QED  BY <1>0, <2>1, <2>2, <2>3 DEF IInv, TypeOK
<1>4. OnceInv'
  <2>1. OnceAt(p)
    BY DEF IInv, OnceInv
  <2>2. /\ begun'[p][r] = begun[p][r] + 1
        /\ \A y \in Run \ {r} : begun'[p][y] = begun[p][y]
    BY <1>1 DEF IInv, TypeOK
  <2>3. /\ \A i \in DOMAIN c : Fresh(p, c[i])
        /\ \A i, j \in DOMAIN c : c[i] = c[j] => i = j
    BY <2>1 DEF OnceAt, ChannelAt
  <2>4. r \in seen[p] /\ begun[p][r] = 0 /\ Waits(p, r)
    BY <1>2, <2>3 DEF Fresh, Waits
  <2>5. \A y \in Run : Fresh(p, y) /\ y # r => Fresh(p, y)'
    BY <1>0, <2>2 DEF Fresh
  <2>6. \A y \in Run : Waits(p, y)' => Waits(p, y)
    BY <1>2 DEF Waits
  <2>7. ChannelAt(p)'
    <3>1. \A i \in DOMAIN Tail(c) : Tail(c)[i] \in Run /\ Fresh(p, Tail(c)[i]) /\ Tail(c)[i] # r
      BY <1>2, <2>3
    <3>2. \A i, j \in DOMAIN Tail(c) : Tail(c)[i] = Tail(c)[j] => i = j
      <4> SUFFICES ASSUME NEW i \in DOMAIN Tail(c), NEW j \in DOMAIN Tail(c),
                          Tail(c)[i] = Tail(c)[j]
                   PROVE  i = j
        OBVIOUS
      <4>1. c[i + 1] = c[j + 1] /\ i + 1 \in DOMAIN c /\ j + 1 \in DOMAIN c
        BY <1>2
      <4>2. i + 1 = j + 1
        BY <2>3, <4>1
      <4> QED  BY <1>2, <4>2
    <3> QED  BY <1>2, <2>5, <3>1, <3>2 DEF ChannelAt
  <2>8. BegunAt(p)'
    BY <1>0, <2>1, <2>2, <2>4 DEF OnceAt, BegunAt
  <2>9. DbAt(p)' /\ RedisAt(p)' /\ ApartAt(p)'
    <3>1. DbHas(p) => claiming[p] \in Run /\ claiming[p] # r /\ Fresh(p, claiming[p])
                      /\ ~ Waits(p, claiming[p])
      BY <2>1, <2>4 DEF OnceAt, DbAt
    <3>2. RedisHas(p) => popped[p] \in Run /\ popped[p] # r /\ Fresh(p, popped[p])
                         /\ ~ Waits(p, popped[p])
      BY <2>1, <2>4 DEF OnceAt, RedisAt
    <3>3. (DbHas(p)' <=> DbHas(p)) /\ (RedisHas(p)' <=> RedisHas(p))
      BY <1>0 DEF DbHas, RedisHas
    <3>4. DbAt(p)'
      BY <1>0, <2>5, <2>6, <3>1, <3>3 DEF DbAt
    <3>5. RedisAt(p)'
      BY <1>0, <2>5, <2>6, <3>2, <3>3 DEF RedisAt
    <3> QED  BY <1>0, <2>1, <3>3, <3>4, <3>5 DEF OnceAt, ApartAt
  <2>10. OnceAt(p)'
    BY <2>7, <2>8, <2>9 DEF OnceAt
  <2>11. \A x \in Poller \ {p} : taskCh'[x] = taskCh[x] /\ begun'[x] = begun[x]
    BY <1>1 DEF IInv, TypeOK
  <2> QED  BY <1>0, <2>10, <2>11, OthersStay DEF IInv
<1>5. ClaimInv'
  BY <1>0, ClaimStays DEF IInv
<1>6. RunningHasAWriter'
  <2>1. ASSUME NEW y \in InHand(p) \cap Run PROVE y \in InHand(p)'
    <3>1. \/ dbPc[p] = "send" /\ claiming[p] = y
          \/ \E i \in DOMAIN c : c[i] = y
          \/ \E x \in Executor : job[p][x] = y
      BY DEF InHand
    <3>2. dbPc[p] = "send" /\ claiming[p] = y => y \in InHand(p)'
      BY <1>0 DEF InHand
    <3>3. job'[p][e] = r /\ \A x \in Executor : job[p][x] = y => job'[p][x] = y
      BY <1>1, RunQueueAssumption DEF IInv, TypeOK
    <3>4. ASSUME NEW i \in DOMAIN c, c[i] = y PROVE y \in InHand(p)'
      <4>1. y = r \/ \E j \in DOMAIN taskCh'[p] : taskCh'[p][j] = y
        BY <1>2, <3>4
      <4> QED  BY <3>3, <4>1 DEF InHand
    <3>5. ASSUME NEW x \in Executor, job[p][x] = y PROVE y \in InHand(p)'
      BY <3>3, <3>5 DEF InHand
    <3> QED  BY <3>1, <3>2, <3>4, <3>5
  <2>2. ASSUME NEW x \in Poller, x # p PROVE InHand(x)' = InHand(x)
    <3>1. taskCh'[x] = taskCh[x] /\ job'[x] = job[x]
      BY <1>1, <2>2 DEF IInv, TypeOK
    <3> QED  BY <1>0, <3>1 DEF InHand
  <2>3. \A x \in Poller : CtxDone(x) <=> CtxDone(x)'
    BY <1>0 DEF CtxDone
  <2> QED  BY <1>0, <2>1, <2>2, <2>3, WriterStays DEF IInv
<1> QED  BY <1>3, <1>4, <1>5, <1>6 DEF IInv

LEMMA FinishTaskKeeps ==
  ASSUME IInv, NEW p \in Poller, NEW e \in Executor, FinishTask(p, e)
  PROVE  IInv'
<1>0. /\ UNCHANGED <<unpushed, pending, mode, seen, dbPc, batch, claiming, redisPc, popped>>
      /\ UNCHANGED <<taskCh, left, reqPc, reqRun, begun, claimed, claimErr>>
  BY DEF FinishTask, dbSide, redis, requests, history
<1> PICK r \in Run : r = job[p][e]
  BY DEF FinishTask, IInv, TypeOK
<1>1. /\ job' = [job EXCEPT ![p][e] = NoRun]
      /\ \/ CtxDone(p) /\ status' = status
         \/ \E s \in {"completed", "failed"} : status' = [status EXCEPT ![r] = s]
  BY DEF FinishTask, UpdateQueuedRunStatus, UpdateRunStatus
<1>2. \/ CtxDone(p) /\ status' = status
      \/ status'[r] \in {"completed", "failed"} /\ \A y \in Run \ {r} : status'[y] = status[y]
  BY <1>1 DEF IInv, TypeOK
<1>3. TypeOK'
  <2>1. status' \in [Run -> Status]
    BY <1>1 DEF IInv, TypeOK, Status
  <2>2. job' \in [Poller -> [Executor -> Run \cup {NoRun}]]
    BY <1>1 DEF IInv, TypeOK
  <2> QED  BY <1>0, <2>1, <2>2 DEF IInv, TypeOK
<1>4. OnceInv'
  BY <1>0, OnceStays DEF IInv, redis
<1>5. ClaimInv'
  BY <1>0, <1>2, ClaimStays DEF IInv
<1>6. RunningHasAWriter'
  <2>1. \A x \in Poller : CtxDone(x) <=> CtxDone(x)'
    BY <1>0 DEF CtxDone
  <2>2. ASSUME NEW x \in Poller, x # p PROVE InHand(x)' = InHand(x)
    <3>1. job'[x] = job[x]
      BY <1>1, <2>2 DEF IInv, TypeOK
    <3> QED  BY <1>0, <3>1 DEF InHand
  <2>3. ASSUME NEW y \in InHand(p) \cap Run, y # r PROVE y \in InHand(p)'
    <3>1. \A x \in Executor : job[p][x] = y => job'[p][x] = y
      BY <1>1, <2>3 DEF IInv, TypeOK
    <3> QED  BY <1>0, <3>1 DEF InHand
  <2>4. status'[r] = "running" => CtxDone(p)'
    BY <1>2, <2>1
  <2>5. \A y \in Run : status'[y] = "running" => status[y] = "running"
    BY <1>2
  <2> QED  BY <1>0, <2>1, <2>2, <2>3, <2>4, <2>5, WriterStays DEF IInv
<1> QED  BY <1>3, <1>4, <1>5, <1>6 DEF IInv

(* An executor returns, a process is stopped, or nothing changes.           *)
LEMMA ReturnsKeep ==
  ASSUME IInv,
         \/ \E p \in Poller, e \in Executor : ExecutorReturns(p, e)
         \/ \E p \in Poller : Stop(p) \/ StopReturns(p)
         \/ UNCHANGED vars
  PROVE  IInv'
<1>0. /\ UNCHANGED <<status, unpushed, pending, seen, dbPc, batch, claiming, redisPc, popped>>
      /\ UNCHANGED <<taskCh, job, reqPc, reqRun, begun, claimed, claimErr>>
  <2>1. CASE \E p \in Poller, e \in Executor : ExecutorReturns(p, e)
    BY <2>1 DEF ExecutorReturns, rows, dbSide, redis, requests, history
  <2>2. CASE \E p \in Poller : Stop(p) \/ StopReturns(p)
    BY <2>2 DEF Stop, StopReturns, rows, dbSide, redis, workers, requests, history
  <2>3. CASE UNCHANGED vars
    BY <2>3 DEF vars, rows, dbSide, redis, workers, requests, history
  <2> QED  BY <2>1, <2>2, <2>3
<1>1. mode' \in [Poller -> {"up", "stopping", "down"}] /\ left' \in [Poller -> SUBSET Executor]
      /\ \A x \in Poller : CtxDone(x) => CtxDone(x)'
  <2>1. CASE \E p \in Poller, e \in Executor : ExecutorReturns(p, e)
    BY <2>1 DEF ExecutorReturns, IInv, TypeOK, CtxDone
  <2>2. CASE \E p \in Poller : Stop(p) \/ StopReturns(p)
    BY <2>2 DEF Stop, StopReturns, IInv, TypeOK, CtxDone, workers
  <2>3. CASE UNCHANGED vars
    BY <2>3 DEF vars, IInv, TypeOK, CtxDone, workers
  <2> QED  BY <2>1, <2>2, <2>3
<1>2. TypeOK'
  BY <1>0, <1>1 DEF IInv, TypeOK
<1>3. OnceInv'
  BY <1>0, OnceStays DEF IInv, redis
<1>4. ClaimInv'
  BY <1>0, ClaimStays DEF IInv
<1>5. RunningHasAWriter'
  <2>1. \A x \in Poller : InHand(x)' = InHand(x)
    BY <1>0 DEF InHand
  <2> QED  BY <1>0, <1>1, <2>1, WriterStays DEF IInv
<1> QED  BY <1>2, <1>3, <1>4, <1>5 DEF IInv
-----------------------------------------------------------------------------
LEMMA NextIInv == IInv /\ [Next]_vars => IInv'
<1> SUFFICES ASSUME IInv, [Next]_vars PROVE IInv'
  OBVIOUS
<1>1. CASE \E r \in Run : QueueRun(r) \/ PushQueuedRunToRedis(r) \/ WorkerPops(r)
                          \/ DuplicateRun(r)
  BY <1>1, RowsKeep
<1>2. CASE \E p \in Poller : DbGoroutine(p)
  BY <1>2, DbKeeps, DbClaimKeeps, SendKeeps DEF DbGoroutine
<1>3. CASE \E p \in Poller : RedisGoroutine(p)
  BY <1>3, RedisKeeps, SendKeeps DEF RedisGoroutine
<1>4. CASE \E p \in Poller, e \in Executor : ExecutorGoroutine(p, e)
  BY <1>4, TakeTaskKeeps, FinishTaskKeeps, ReturnsKeep DEF ExecutorGoroutine
<1>5. CASE \E q \in Request : \/ \E r \in Run : StartRun(q, r) \/ CancelRun(q, r)
                              \/ StartRunRuns(q) \/ StartRunEnds(q) \/ CancelRunWrites(q)
  BY <1>5, RequestsKeep
<1>6. CASE (\E p \in Poller : Stop(p) \/ StopReturns(p)) \/ UNCHANGED vars
  BY <1>6, ReturnsKeep
<1> QED  BY <1>1, <1>2, <1>3, <1>4, <1>5, <1>6 DEF Next

LEMMA SpecIInv == Spec => []IInv
<1> QED  BY InitIInv, NextIInv, PTL DEF Spec

(* The rows, the goroutines of a process, its channel and its executors     *)
(* keep the values the code gives them (worker_queue.go:74-272).            *)
THEOREM TypeCorrect == Spec => []TypeOK
<1>1. IInv => TypeOK
  BY DEF IInv
<1> QED  BY <1>1, SpecIInv, PTL

(* Of any number of processes one at most claims a queued run, and none     *)
(* executes a run twice that it reads from the database and from Redis      *)
(* (run_repo.go:201-217, markSeen in worker_queue.go:145 and :212).         *)
THEOREM RunClaimedOnce == Spec => []ClaimedOnce
<1> QED  BY OnceImplies, SpecIInv, PTL

(* A row that says running will be written again: by the process that       *)
(* claimed it, unless this process was stopped, or by the goroutine of a    *)
(* StartRun request (worker_queue.go:149, :602, runs.go:1182).              *)
LEMMA RunningRowIsWritten == Spec => []RunningHasAWriter
<1>1. IInv => RunningHasAWriter
  BY DEF IInv
<1> QED  BY <1>1, SpecIInv, PTL
-----------------------------------------------------------------------------
(* A run that was seen is not forgotten.                                    *)

Has(p, r) ==
  \/ DbHas(p) /\ claiming[p] = r
  \/ RedisHas(p) /\ popped[p] = r
  \/ Waits(p, r)
  \/ begun[p][r] > 0

(* A run without a row is not known anywhere.                               *)
KnownInv ==
  \A r \in Run : status[r] = "none" =>
    r \notin unpushed \cup pending /\ \A p \in Poller : r \notin seen[p] \cup batch[p]

LEMMA NextKnownInv == IInv /\ KnownInv /\ [Next]_vars => KnownInv'
<1> SUFFICES ASSUME IInv, KnownInv, [Next]_vars, NEW r \in Run, status'[r] = "none"
             PROVE  /\ r \notin unpushed' \cup pending'
                    /\ \A p \in Poller : r \notin seen'[p] \cup batch'[p]
  BY DEF KnownInv
<1> USE DEF IInv, TypeOK, history, workers, requests, rows, dbSide, redis
<1>1. CASE \E x \in Run : QueueRun(x) \/ PushQueuedRunToRedis(x) \/ WorkerPops(x)
                          \/ DuplicateRun(x)
  BY <1>1 DEF QueueRun, PushQueuedRunToRedis, WorkerPops, DuplicateRun, KnownInv
<1>2. ASSUME NEW p \in Poller, DbGoroutine(p)
      PROVE  /\ r \notin unpushed' \cup pending'
             /\ \A x \in Poller : r \notin seen'[x] \cup batch'[x]
  <2>1. UNCHANGED <<unpushed, pending>>
    BY <1>2 DEF DbGoroutine, DbPoll, DbPollEnd, DbNext, DbClaim, DbSend
  <2>2. status[r] = "none"
    BY <1>2 DEF DbGoroutine, DbPoll, DbPollEnd, DbNext, DbClaim, DbSend, UpdateRunStatus
  <2>3. CASE DbPoll(p)
    <3>1. /\ seen' = seen
          /\ batch' = batch \/ batch' = [batch EXCEPT ![p] = {x \in Run : status[x] = "queued"}]
      BY <2>3 DEF DbPoll
    <3> DEFINE queued == {x \in Run : status[x] = "queued"}
    <3>2. r \notin queued
      BY <2>2
    <3> HIDE DEF queued
    <3>3. \A x \in Poller : r \notin seen[x] /\ r \notin batch[x]
      BY <2>2 DEF KnownInv
    <3>4. \A x \in Poller : batch'[x] \in {batch[x], queued}
      BY <3>1 DEF queued
    <3>5. r \notin unpushed \cup pending
      BY <2>2 DEF KnownInv
    <3> QED  BY <2>1, <3>1, <3>2, <3>3, <3>4, <3>5
  <2>4. CASE DbNext(p)
    <3>1. PICK x \in batch[p] : /\ batch' = [batch EXCEPT ![p] = @ \ {x}]
                                /\ seen' = [seen EXCEPT ![p] = @ \cup {x}]
      BY <2>4 DEF DbNext
    <3> QED  BY <2>1, <2>2, <3>1 DEF KnownInv
  <2>5. CASE ~ DbPoll(p) /\ ~ DbNext(p)
    <3>1. UNCHANGED <<seen, batch>>
      BY <1>2, <2>5 DEF DbGoroutine, DbPollEnd, DbClaim, DbSend
    <3> QED  BY <2>1, <2>2, <3>1 DEF KnownInv
  <2> QED  BY <2>3, <2>4, <2>5
<1>3. CASE \E p \in Poller : RedisGoroutine(p)
  BY <1>3 DEF RedisGoroutine, RedisReturn, RedisPop, RedisCheck, RedisSend, KnownInv
<1>4. CASE \E p \in Poller, e \in Executor : ExecutorGoroutine(p, e)
  BY <1>4 DEF ExecutorGoroutine, TakeTask, FinishTask, ExecutorReturns, UpdateQueuedRunStatus,
       UpdateRunStatus, KnownInv
<1>5. CASE \E q \in Request : \/ \E x \in Run : StartRun(q, x) \/ CancelRun(q, x)
                              \/ StartRunRuns(q) \/ StartRunEnds(q) \/ CancelRunWrites(q)
  BY <1>5 DEF StartRun, CancelRun, Reads, StartRunRuns, StartRunEnds, CancelRunWrites, Writes,
       UpdateRunStatus, KnownInv
<1>6. CASE (\E p \in Poller : Stop(p) \/ StopReturns(p)) \/ UNCHANGED vars
  BY <1>6 DEF Stop, StopReturns, vars, KnownInv
<1> QED  BY <1>1, <1>2, <1>3, <1>4, <1>5, <1>6 DEF Next

(* What a step must not do.                                                 *)
LEMMA HasStays ==
  ASSUME IInv, KnownInv, SeenIsInHand,
         \A r \in Run : status'[r] = "queued" => status[r] \in {"none", "queued"},
         \A p \in Poller : CtxDone(p) => CtxDone(p)',
         \A p \in Poller : claimErr[p] \subseteq claimErr'[p] /\ seen'[p] \subseteq Run,
         \A p \in Poller, r \in Run : r \in seen'[p] => r \in seen[p] \/ Has(p, r)',
         \A p \in Poller, r \in Run :
           Has(p, r) /\ status[r] = "queued" /\ status'[r] = "queued" =>
             Has(p, r)' \/ CtxDone(p) \/ r \in claimErr'[p]
  PROVE  SeenIsInHand'
<1> SUFFICES ASSUME NEW p \in Poller, NEW r \in seen'[p], status'[r] = "queued",
                    ~ CtxDone(p)', r \notin claimErr'[p]
             PROVE  Has(p, r)'
  BY DEF SeenIsInHand, Has, DbHas, RedisHas, Waits
<1>1. r \in Run /\ (r \in seen[p] \/ Has(p, r)')
  OBVIOUS
<1>2. r \in seen[p] => status[r] = "queued"
  BY <1>1 DEF KnownInv
<1>3. r \in seen[p] => Has(p, r)
  BY <1>2 DEF SeenIsInHand, Has, DbHas, RedisHas, Waits
<1> QED  BY <1>1, <1>2, <1>3

LEMMA NextSeen == IInv /\ KnownInv /\ SeenIsInHand /\ [Next]_vars => SeenIsInHand'
<1> SUFFICES ASSUME IInv, KnownInv, SeenIsInHand, [Next]_vars PROVE SeenIsInHand'
  OBVIOUS
<1> USE DEF IInv, TypeOK, history, workers, requests, rows, dbSide, redis
<1>0. seen' \in [Poller -> SUBSET Run]
  BY NextIInv
<1>1. ASSUME UNCHANGED <<mode, seen, dbPc, claiming, redis, taskCh, begun, claimErr>>,
             \A r \in Run : status'[r] = "queued" => status[r] \in {"none", "queued"}
      PROVE  SeenIsInHand'
  BY <1>1, HasStays DEF Has, DbHas, RedisHas, Waits, CtxDone
<1>2. CASE \E x \in Run : QueueRun(x) \/ PushQueuedRunToRedis(x) \/ WorkerPops(x)
                          \/ DuplicateRun(x)
  BY <1>1, <1>2 DEF QueueRun, PushQueuedRunToRedis, WorkerPops, DuplicateRun
<1>3. CASE \E q \in Request : \/ \E x \in Run : StartRun(q, x) \/ CancelRun(q, x)
                              \/ StartRunRuns(q) \/ StartRunEnds(q) \/ CancelRunWrites(q)
  BY <1>1, <1>3 DEF StartRun, CancelRun, Reads, StartRunRuns, StartRunEnds, CancelRunWrites,
       Writes, UpdateRunStatus
<1>4. CASE \E p \in Poller, e \in Executor : FinishTask(p, e) \/ ExecutorReturns(p, e)
  BY <1>1, <1>4 DEF FinishTask, ExecutorReturns, UpdateQueuedRunStatus, UpdateRunStatus
<1>5. CASE (\E p \in Poller : Stop(p) \/ StopReturns(p)) \/ UNCHANGED vars
  <2>1. /\ UNCHANGED <<status, seen, dbPc, claiming, redis, taskCh, begun, claimErr>>
        /\ \A p \in Poller : CtxDone(p) => CtxDone(p)'
    BY <1>5 DEF Stop, StopReturns, CtxDone, vars
  <2> QED  BY <2>1, HasStays DEF Has, DbHas, RedisHas, Waits
<1>6. ASSUME NEW p \in Poller, DbPoll(p) \/ DbPollEnd(p) \/ RedisReturn(p)
      PROVE  SeenIsInHand'
  <2>1. /\ UNCHANGED <<status, mode, seen, claiming, popped, taskCh, begun, claimErr>>
        /\ \A x \in Poller : (DbHas(x)' <=> DbHas(x)) /\ (RedisHas(x)' <=> RedisHas(x))
    BY <1>6 DEF DbPoll, DbPollEnd, RedisReturn, DbHas, RedisHas
  <2> QED  BY <2>1, HasStays DEF Has, Waits, CtxDone
<1>7. ASSUME NEW p \in Poller, DbNext(p) PROVE SeenIsInHand'
  <2>1. /\ UNCHANGED <<status, mode, redis, taskCh, begun, claimErr>>
        /\ dbPc[p] = "next" /\ \A x \in Poller \ {p} : claiming'[x] = claiming[x]
        /\ \A x \in Poller \ {p} : dbPc'[x] = dbPc[x] /\ seen'[x] = seen[x]
    BY <1>7 DEF DbNext
  <2>2. \A r \in Run : r \in seen'[p] => r \in seen[p] \/ (dbPc'[p] = "claim" /\ claiming'[p] = r)
    BY <1>7 DEF DbNext
  <2>3. seen' \in [Poller -> SUBSET Run]
    BY <1>0
  <2>4. \A x \in Poller, r \in Run : Has(x, r) => Has(x, r)'
    BY <2>1 DEF Has, DbHas, RedisHas, Waits
  <2>5. \A x \in Poller, r \in Run : r \in seen'[x] => r \in seen[x] \/ Has(x, r)'
    BY <2>1, <2>2 DEF Has, DbHas
  <2>6. \A x \in Poller : CtxDone(x) => CtxDone(x)'
    BY <2>1 DEF CtxDone
  <2> QED  BY <2>1, <2>3, <2>4, <2>5, <2>6, HasStays
<1>8. ASSUME NEW p \in Poller, DbClaim(p) PROVE SeenIsInHand'
  <2>1. /\ UNCHANGED <<mode, seen, redis, taskCh, begun>> /\ claiming[p] \in Run
        /\ \A x \in Poller \ {p} : dbPc'[x] = dbPc[x] /\ claiming'[x] = claiming[x]
    BY <1>8 DEF DbClaim, OnceInv, OnceAt, DbAt, DbHas
  <2>2. \A x \in Poller : claimErr[x] \subseteq claimErr'[x]
    <3>1. \/ claimErr' = claimErr
          \/ claimErr' = [claimErr EXCEPT ![p] = @ \cup {claiming[p]}]
      BY <1>8 DEF DbClaim
    <3> QED  BY <3>1
  <2>3. \A r \in Run : status'[r] = "queued" => status[r] = "queued"
    BY <1>8, <2>1 DEF DbClaim, UpdateRunStatus
  <2>4. status[claiming[p]] = "queued" /\ status'[claiming[p]] = "queued"
          => CtxDone(p) \/ claiming[p] \in claimErr'[p]
    BY <1>8, <2>1 DEF DbClaim, UpdateRunStatus
  <2>5. ASSUME NEW x \in Poller, NEW r \in Run, Has(x, r), status[r] = "queued",
               status'[r] = "queued"
        PROVE  Has(x, r)' \/ CtxDone(x) \/ r \in claimErr'[x]
    <3>1. CASE DbHas(x) /\ claiming[x] = r /\ x = p
      BY <2>4, <2>5, <3>1
    <3>2. CASE DbHas(x) /\ claiming[x] = r /\ x # p
      BY <2>1, <3>2 DEF Has, DbHas
    <3>3. CASE ~ (DbHas(x) /\ claiming[x] = r)
      BY <2>1, <2>5, <3>3 DEF Has, RedisHas, Waits
    <3> QED  BY <3>1, <3>2, <3>3
  <2>6. \A x \in Poller : (CtxDone(x) => CtxDone(x)') /\ seen'[x] \subseteq Run
    BY <2>1 DEF CtxDone
  <2> QED  BY <2>1, <2>2, <2>3, <2>5, <2>6, HasStays
<1>9. ASSUME NEW p \in Poller, RedisPop(p) \/ RedisCheck(p) PROVE SeenIsInHand'
  <2>1. /\ UNCHANGED <<status, mode, dbPc, claiming, taskCh, begun, claimErr>>
        /\ \A x \in Poller \ {p} : /\ redisPc'[x] = redisPc[x] /\ popped'[x] = popped[x]
                                   /\ seen'[x] = seen[x]
    BY <1>9 DEF RedisPop, RedisCheck
  <2>2. \A r \in Run : r \in seen'[p] => r \in seen[p] \/ (redisPc'[p] = "check" /\ popped'[p] = r)
    BY <1>9 DEF RedisPop, RedisCheck
  <2>3. seen' \in [Poller -> SUBSET Run]
    BY <1>0
  <2>4. RedisHas(p) /\ status[popped[p]] = "queued" =>
          RedisHas(p)' /\ popped'[p] = popped[p]
    BY <1>9 DEF RedisPop, RedisCheck, RedisHas
  <2>5. \A x \in Poller, r \in Run : Has(x, r) /\ status[r] = "queued" => Has(x, r)'
    BY <2>1, <2>4 DEF Has, DbHas, RedisHas, Waits
  <2>6. \A x \in Poller, r \in Run : r \in seen'[x] => r \in seen[x] \/ Has(x, r)'
    BY <2>1, <2>2 DEF Has, RedisHas
  <2>7. \A x \in Poller : CtxDone(x) => CtxDone(x)'
    BY <2>1 DEF CtxDone
  <2> QED  BY <2>1, <2>3, <2>5, <2>6, <2>7, HasStays
<1>10. ASSUME NEW p \in Poller, DbSend(p) \/ RedisSend(p) PROVE SeenIsInHand'
  <2>1. UNCHANGED <<status, mode, seen, begun, claimErr>> /\ OnceAt(p) /\ taskCh[p] \in Seq(Run)
    BY <1>10 DEF DbSend, RedisSend, OnceInv
  <2>2. PICK r \in Run :
          /\ taskCh' = [taskCh EXCEPT ![p] = Append(@, r)]
          /\ Fresh(p, r) /\ ~ Waits(p, r)
          /\ \/ DbSend(p) /\ r = claiming[p]
             \/ RedisSend(p) /\ r = popped[p]
    BY <1>10, <2>1 DEF DbSend, RedisSend, OnceAt, DbAt, RedisAt, DbHas, RedisHas
  <2>3. taskCh'[p] = Append(taskCh[p], r) /\ \A x \in Poller \ {p} : taskCh'[x] = taskCh[x]
    BY <2>2
  <2>4. \A y : y = r \/ Waits(p, y) => Waits(p, y)'
    BY <2>1, <2>2, <2>3, SendKeepsChannel DEF OnceAt
  <2>5. ASSUME NEW x \in Poller, NEW y \in Run, Has(x, y) PROVE Has(x, y)'
    <3>1. CASE x # p
      <4>1. /\ dbPc'[x] = dbPc[x] /\ claiming'[x] = claiming[x]
            /\ redisPc'[x] = redisPc[x] /\ popped'[x] = popped[x]
        BY <1>10, <3>1 DEF DbSend, RedisSend
      <4> QED  BY <2>1, <2>3, <2>5, <3>1, <4>1 DEF Has, DbHas, RedisHas, Waits
    <3>2. CASE x = p /\ (y = r \/ Waits(p, y) \/ begun[p][y] > 0)
      BY <2>1, <2>4, <3>2 DEF Has
    <3>3. CASE x = p /\ y # r /\ DbHas(p) /\ claiming[p] = y
      <4>1. UNCHANGED <<dbPc, claiming>>
        BY <2>2, <3>3 DEF RedisSend
      <4> QED  BY <3>3, <4>1 DEF Has, DbHas
    <3>4. CASE x = p /\ y # r /\ RedisHas(p) /\ popped[p] = y
      <4>1. UNCHANGED <<redisPc, popped>>
        BY <2>2, <3>4 DEF DbSend
      <4> QED  BY <3>4, <4>1 DEF Has, RedisHas
    <3> QED  BY <2>5, <3>1, <3>2, <3>3, <3>4 DEF Has
  <2>6. \A x \in Poller : CtxDone(x) => CtxDone(x)'
    BY <2>1 DEF CtxDone
  <2> QED  BY <2>1, <2>5, <2>6, HasStays
<1>11. ASSUME NEW p \in Poller, NEW e \in Executor, TakeTask(p, e) PROVE SeenIsInHand'
  <2>1. /\ UNCHANGED <<status, mode, seen, dbPc, claiming, redisPc, popped, claimErr>>
        /\ taskCh[p] # <<>> /\ taskCh[p] \in Seq(Run) /\ taskCh'[p] = Tail(taskCh[p])
        /\ \A x \in Poller \ {p} : taskCh'[x] = taskCh[x] /\ begun'[x] = begun[x]
    BY <1>11 DEF TakeTask
  <2>2. PICK r \in Run :
          /\ r = Head(taskCh[p])
          /\ \A y \in Run : begun[p][y] > 0 \/ y = r => begun'[p][y] > 0
    <3>1. Head(taskCh[p]) \in Run /\ begun[p] \in [Run -> Nat]
      BY <2>1, Received
    <3>2. begun'[p] = [begun[p] EXCEPT ![Head(taskCh[p])] = @ + 1]
      BY <1>11 DEF TakeTask
    <3> QED  BY <3>1, <3>2
  <2>3. \A y : Waits(p, y) => y = r \/ Waits(p, y)'
    <3> DEFINE c == taskCh[p]
               d == taskCh'[p]
    <3>1. /\ c[1] = r
          /\ \A i \in DOMAIN c : i = 1 \/ (i - 1 \in DOMAIN d /\ d[i - 1] = c[i])
      BY <2>1, <2>2, Received
    <3> SUFFICES ASSUME NEW y, NEW i \in DOMAIN c, c[i] = y, y # r
                 PROVE  \E j \in DOMAIN d : d[j] = y
      BY DEF Waits
    <3> HIDE DEF c, d
    <3> QED  BY <3>1
  <2>4. ASSUME NEW x \in Poller, NEW y \in Run, Has(x, y) PROVE Has(x, y)'
    <3>1. CASE x = p /\ Waits(p, y)
      BY <2>2, <2>3, <3>1 DEF Has
    <3>2. CASE x = p /\ ~ Waits(p, y)
      BY <2>1, <2>2, <2>4, <3>2 DEF Has, DbHas, RedisHas
    <3>3. CASE x # p
      BY <2>1, <2>4, <3>3 DEF Has, DbHas, RedisHas, Waits
    <3> QED  BY <3>1, <3>2, <3>3
  <2>5. \A x \in Poller : CtxDone(x) => CtxDone(x)'
    BY <2>1 DEF CtxDone
  <2> QED  BY <2>1, <2>4, <2>5, HasStays
<1> QED  BY <1>2, <1>3, <1>4, <1>5, <1>6, <1>7, <1>8, <1>9, <1>10, <1>11
         DEF Next, DbGoroutine, RedisGoroutine, ExecutorGoroutine

(* No run is forgotten: a row that says running will be written again, by   *)
(* the process that claimed it or by a StartRun request, and a queued row   *)
(* that a process has marked as seen is with that process until it is       *)
(* begun, unless its claim failed (worker_queue.go:145-154).                *)
THEOREM RunsAreKept == Spec => []NoRunIsForgotten
<1>1. Init => KnownInv /\ SeenIsInHand
  BY DEF Init, KnownInv, SeenIsInHand
<1> QED
  BY <1>1, NextKnownInv, NextSeen, SpecIInv, RunningRowIsWritten, PTL
  DEF Spec, NoRunIsForgotten
=============================================================================

------------------------------ MODULE EventBus -----------------------------
(***************************************************************************)
(* Events on their way to the workflows they trigger.  A run sends an      *)
(* event to the server and queues it in the database when that does not    *)
(* work (notify/server_event.go).  In the server the request's goroutine   *)
(* puts it into the scheduler's channel, with a limited wait for room; a   *)
(* goroutine that EventReceiver.Start begins puts the queued rows there as *)
(* well (pkg/server/eventreceiver.go).  One listener takes the events off  *)
(* and asks every registered trigger whether it matches, and a cache of    *)
(* deduplication keys, which another goroutine cleans up, says which       *)
(* events were seen already (scheduler/scheduler.go).  The server may be   *)
(* stopped, may die at any point, and is started again.                    *)
(*                                                                         *)
(* Topics and filters are functions of the event: Accepts.  A key is made  *)
(* of a trigger's template and the event: KeyOf.                           *)
(***************************************************************************)
EXTENDS Naturals, Sequences, FiniteSets

CONSTANTS
  Event, NoEvent,
  Backlog,     \* the goroutine of processQueuedEvents
  Trigger,
  FromFiles,   \* the triggers of the workflow files; others are schedules
  Accepts,     \* the events that pass each trigger's topic and filters
  Key, NoKey,
  KeyOf,       \* the key of each trigger and event, or NoKey: no deduplication
  QueueSize,   \* the capacity of the channel
  BatchSize,   \* the rows that are listed when the server starts
  MaxStarts    \* bound: starts of the server

ASSUME EventBusAssumption ==
  /\ NoEvent \notin Event /\ Backlog \notin Event /\ NoKey \notin Key
  /\ FromFiles \subseteq Trigger
  /\ Accepts \in [Trigger -> SUBSET Event]
  /\ KeyOf \in [Trigger -> [Event -> Key \cup {NoKey}]]
  /\ \A t \in Trigger \ FromFiles, e \in Event : KeyOf[t][e] = NoKey
  /\ QueueSize \in Nat \ {0} /\ BatchSize \in Nat \ {0} /\ MaxStarts \in Nat

VARIABLES
  client,      \* each event's sender
  eventRow,    \* each event's row in the database
  starts, alive,                \* the server process
  receiverUp, ctxDone,          \* er.running; er.ctx is done
  running, closed, schedLock,   \* s.running; the channel; who has s.mu for long
  emit,        \* each goroutine that emits: where it is
  batch, item, emitErr,         \* Backlog: rows left, the row, its emit failed
  events,      \* the channel
  listener, now, toAsk,         \* the listener, its event, the triggers to ask
  registered,  \* the event triggers in s.triggers
  cache, sweep,                 \* deduplication: each key's entry; the entry
                                \* cleanup is about to delete
  accepted,    \* history: events that were put into the channel
  taken,       \* history: events every trigger was asked about, by this process
  unqueued,    \* history: events whose row could not be written
  open,        \* history: keys let through less than a window ago
  doubled,     \* history: keys let through while they were open
  swept        \* history: keys whose valid entry cleanup deleted

rowSide   == <<client, eventRow>>
process   == <<starts, alive, receiverUp, ctxDone>>
sched     == <<running, closed, schedLock>>
backlog   == <<batch, item, emitErr>>
listening == <<listener, now, toAsk>>
dedupe    == <<cache, sweep, open, doubled, swept>>
busVars   == <<rowSide, process, sched, emit, backlog, events, listening, registered,
               dedupe, accepted, taken, unqueued>>

Emitter == Event \cup {Backlog}

BusTypeOK ==
  /\ client \in [Event -> {"idle", "waiting", "queueing", "done"}]
  /\ eventRow \in [Event -> {"none", "queued", "processed", "failed"}]
  /\ starts \in 0..MaxStarts /\ alive \in BOOLEAN
  /\ receiverUp \in BOOLEAN /\ ctxDone \in BOOLEAN
  /\ running \in BOOLEAN /\ closed \in BOOLEAN
  /\ schedLock \in {"free", "stop", "stuck"}
  /\ emit \in [Emitter -> {"none", "list", "next", "arrived", "emitting", "full", "marking"}]
  /\ batch \subseteq Event /\ item \in Event \cup {NoEvent} /\ emitErr \in BOOLEAN
  /\ events \in Seq(Event) /\ Len(events) <= QueueSize
  /\ listener \in {"idle", "locking", "asking"}
  /\ now \in Event \cup {NoEvent} /\ toAsk \subseteq Trigger
  /\ registered \subseteq Trigger
  /\ cache \in [Key -> {"none", "valid", "expired"}]
  /\ sweep \in Key \cup {NoKey}
  /\ accepted \subseteq Event /\ taken \subseteq Event /\ unqueued \subseteq Event
  /\ open \subseteq Key /\ doubled \subseteq Key /\ swept \subseteq Key

(* No server yet; events from earlier may be in the database.               *)
BusInit ==
  /\ eventRow \in [Event -> {"none", "queued"}]
  /\ client = [e \in Event |-> IF eventRow[e] = "queued" THEN "done" ELSE "idle"]
  /\ starts = 0 /\ alive = FALSE /\ receiverUp = FALSE /\ ctxDone = FALSE
  /\ running = FALSE /\ closed = FALSE /\ schedLock = "free"
  /\ emit = [s \in Emitter |-> "none"]
  /\ batch = {} /\ item = NoEvent /\ emitErr = FALSE
  /\ events = <<>> /\ listener = "idle" /\ now = NoEvent /\ toAsk = {}
  /\ registered = {}
  /\ cache = [k \in Key |-> "none"] /\ sweep = NoKey
  /\ accepted = {} /\ taken = {} /\ unqueued = {}
  /\ open = {} /\ doubled = {} /\ swept = {}
-----------------------------------------------------------------------------
(* The server process.                                                      *)

(* Start registers the triggers of the files, starts the scheduler and its  *)
(* goroutines, and the one for the queued rows.                             *)
ServerStart ==
  /\ ~ alive /\ starts < MaxStarts
  /\ starts' = starts + 1 /\ alive' = TRUE /\ receiverUp' = TRUE /\ ctxDone' = FALSE
  /\ running' = TRUE /\ registered' = FromFiles
  /\ emit' = [emit EXCEPT ![Backlog] = "list"]
  /\ UNCHANGED <<rowSide, closed, schedLock, backlog, events, listening, dedupe, accepted,
                 taken, unqueued>>

(* Everything in memory is gone; a sender that waits gets an error.         *)
Die ==
  /\ alive
  /\ alive' = FALSE /\ receiverUp' = FALSE /\ ctxDone' = FALSE
  /\ running' = FALSE /\ closed' = FALSE /\ schedLock' = "free"
  /\ emit' = [s \in Emitter |-> "none"]
  /\ batch' = {} /\ item' = NoEvent /\ emitErr' = FALSE
  /\ events' = <<>> /\ listener' = "idle" /\ now' = NoEvent /\ toAsk' = {}
  /\ registered' = {} /\ cache' = [k \in Key |-> "none"] /\ sweep' = NoKey
  /\ open' = {} /\ taken' = {}
  /\ client' = [e \in Event |-> IF client[e] = "waiting" THEN "queueing" ELSE client[e]]
  /\ UNCHANGED <<eventRow, starts, accepted, unqueued, doubled, swept>>

(* EventReceiver.Stop cancels its context; scheduler.Stop then holds s.mu.  *)
StopCancels ==
  /\ receiverUp /\ ~ ctxDone
  /\ ctxDone' = TRUE
  /\ UNCHANGED <<rowSide, starts, alive, receiverUp, sched, emit, backlog, events, listening,
                 registered, dedupe, accepted, taken, unqueued>>

StopLocks ==
  /\ receiverUp /\ ctxDone /\ schedLock = "free" /\ listener # "asking"
  /\ schedLock' = "stop"
  /\ UNCHANGED <<rowSide, process, running, closed, emit, backlog, events, listening,
                 registered, dedupe, accepted, taken, unqueued>>

(* The cron library cannot be shut down in time (a job waits for s.mu):     *)
(* scheduler.Stop gives up, EventReceiver.Stop only logs it.                *)
StopFails ==
  /\ schedLock = "stop" /\ running
  /\ schedLock' = "free" /\ receiverUp' = FALSE
  /\ UNCHANGED <<rowSide, starts, alive, ctxDone, running, closed, emit, backlog, events,
                 listening, registered, dedupe, accepted, taken, unqueued>>

StopClears ==
  /\ schedLock = "stop" /\ running
  /\ running' = FALSE
  /\ UNCHANGED <<rowSide, process, closed, schedLock, emit, backlog, events, listening,
                 registered, dedupe, accepted, taken, unqueued>>

StopCloses ==
  /\ schedLock = "stop" /\ ~ running
  /\ closed' = TRUE /\ schedLock' = "free" /\ receiverUp' = FALSE
  /\ UNCHANGED <<rowSide, starts, alive, ctxDone, running, emit, backlog, events, listening,
                 registered, dedupe, accepted, taken, unqueued>>

StopHolder == StopFails \/ StopClears \/ StopCloses

(* CreateSchedule registers an enabled schedule with the running scheduler; *)
(* convertScheduleToTrigger gives it a topic and no deduplication.          *)
RegisterTrigger(t) ==
  /\ receiverUp /\ schedLock = "free" /\ listener # "asking"
  /\ t \notin registered
  /\ registered' = registered \cup {t}
  /\ UNCHANGED <<rowSide, process, sched, emit, backlog, events, listening, dedupe, accepted,
                 taken, unqueued>>

(* A schedule of type watch: registerWatchPath locks s.mu, which            *)
(* RegisterTrigger has locked.                                              *)
RegisterWatchTrigger ==
  /\ receiverUp /\ schedLock = "free" /\ listener # "asking"
  /\ schedLock' = "stuck"
  /\ UNCHANGED <<rowSide, process, running, closed, emit, backlog, events, listening,
                 registered, dedupe, accepted, taken, unqueued>>

Server ==
  \/ ServerStart \/ Die \/ StopCancels \/ StopLocks \/ StopHolder
  \/ \E t \in Trigger : RegisterTrigger(t)
  \/ RegisterWatchTrigger
-----------------------------------------------------------------------------
(* SendEventWithFallback, in the process of a run.                          *)

SendEvent(e) ==
  /\ client[e] = "idle" /\ alive
  /\ client' = [client EXCEPT ![e] = "waiting"]
  /\ emit' = [emit EXCEPT ![e] = "arrived"]
  /\ UNCHANGED <<eventRow, process, sched, backlog, events, listening, registered, dedupe,
                 accepted, taken, unqueued>>

(* No server is configured or reached, or it does not answer in time.       *)
SendFails(e) ==
  /\ client[e] \in {"idle", "waiting"}
  /\ client' = [client EXCEPT ![e] = "queueing"]
  /\ UNCHANGED <<eventRow, process, sched, emit, backlog, events, listening, registered,
                 dedupe, accepted, taken, unqueued>>

QueueEventToDatabase(e) ==
  /\ client[e] = "queueing"
  /\ client' = [client EXCEPT ![e] = "done"]
  /\ \/ eventRow' = [eventRow EXCEPT ![e] = "queued"] /\ UNCHANGED unqueued
     \/ unqueued' = unqueued \cup {e} /\ UNCHANGED eventRow
  /\ UNCHANGED <<process, sched, emit, backlog, events, listening, registered, dedupe,
                 accepted, taken>>
-----------------------------------------------------------------------------
(* Emitting: the goroutine of a request, or Backlog.                        *)

ItemOf(s) == IF s = Backlog THEN item ELSE s

(* Mutant: an answer is an answer, whatever its status.                     *)
ReturnsAny(s, ok) ==
  IF s = Backlog
    THEN /\ emit' = [emit EXCEPT ![s] = "marking"]
         /\ emitErr' = ~ ok
         /\ UNCHANGED client
    ELSE /\ emit' = [emit EXCEPT ![s] = "none"]
         /\ client' = [client EXCEPT ![s] = IF @ = "waiting" THEN "done" ELSE @]
         /\ UNCHANGED emitErr

(* The result of EmitEvent: the request's sender gets it as a status, if it *)
(* still waits; Backlog goes on to MarkProcessed.                           *)
Returns(s, ok) ==
  IF s = Backlog
    THEN /\ emit' = [emit EXCEPT ![s] = "marking"]
         /\ emitErr' = ~ ok
         /\ UNCHANGED client
    ELSE /\ emit' = [emit EXCEPT ![s] = "none"]
         /\ client' = [client EXCEPT ![s] = IF @ # "waiting" THEN @
                                            ELSE IF ok THEN "done" ELSE "queueing"]
         /\ UNCHANGED emitErr

MayEmit(s) == running /\ (s \in Event => receiverUp)

EmitRefused(s) ==
  /\ emit[s] = "arrived" /\ ~ MayEmit(s)
  /\ Returns(s, FALSE)
  /\ UNCHANGED <<eventRow, process, sched, batch, item, events, listening, registered, dedupe,
                 accepted, taken, unqueued>>

(* The flags are read without a lock, the send comes later.                 *)
EmitChecked(s) ==
  /\ emit[s] = "arrived" /\ MayEmit(s)
  /\ emit' = [emit EXCEPT ![s] = "emitting"]
  /\ UNCHANGED <<rowSide, process, sched, backlog, events, listening, registered, dedupe,
                 accepted, taken, unqueued>>

HasRoom == Len(events) < QueueSize

(* Mutant: the event is appended although the channel is full.              *)
EmitSendsBeyond(s) ==
  /\ emit[s] \in {"emitting", "full"} /\ ~ closed
  /\ events' = Append(events, ItemOf(s))
  /\ accepted' = accepted \cup {ItemOf(s)}
  /\ Returns(s, TRUE)
  /\ UNCHANGED <<eventRow, process, sched, batch, item, listening, registered, dedupe, taken,
                 unqueued>>

EmitSends(s) ==
  /\ emit[s] \in {"emitting", "full"} /\ ~ closed /\ HasRoom
  /\ events' = Append(events, ItemOf(s))
  /\ accepted' = accepted \cup {ItemOf(s)}
  /\ Returns(s, TRUE)
  /\ UNCHANGED <<eventRow, process, sched, batch, item, listening, registered, dedupe, taken,
                 unqueued>>

EmitWaits(s) ==
  /\ emit[s] = "emitting" /\ ~ closed /\ ~ HasRoom
  /\ emit' = [emit EXCEPT ![s] = "full"]
  /\ UNCHANGED <<rowSide, process, sched, backlog, events, listening, registered, dedupe,
                 accepted, taken, unqueued>>

(* The backpressure timeout: the event is dropped.                          *)
EmitDrops(s) ==
  /\ emit[s] = "full"
  /\ Returns(s, FALSE)
  /\ UNCHANGED <<eventRow, process, sched, batch, item, events, listening, registered, dedupe,
                 accepted, taken, unqueued>>

(* A send on the closed channel panics: the server recovers in a request,   *)
(* and in no other goroutine.                                               *)
EmitPanics(s) ==
  /\ emit[s] \in {"emitting", "full"} /\ closed
  /\ IF s = Backlog
       THEN Die
       ELSE /\ Returns(s, FALSE)
            /\ UNCHANGED <<eventRow, process, sched, batch, item, events, listening,
                           registered, dedupe, accepted, taken, unqueued>>

EmitEvent(s) ==
  \/ EmitRefused(s) \/ EmitChecked(s) \/ EmitSends(s) \/ EmitWaits(s) \/ EmitDrops(s)
  \/ EmitPanics(s)
-----------------------------------------------------------------------------
(* processQueuedEvents.                                                     *)

(* Which rows are listed is left open (the code takes the oldest).          *)
ListUnprocessed ==
  /\ emit[Backlog] = "list"
  /\ LET rows == {e \in Event : eventRow[e] = "queued"} IN
       IF ctxDone \/ rows = {}
         THEN emit' = [emit EXCEPT ![Backlog] = "none"] /\ UNCHANGED batch
         ELSE /\ batch' \in {b \in SUBSET rows :
                               IF Cardinality(rows) <= BatchSize
                                 THEN b = rows ELSE Cardinality(b) = BatchSize}
              /\ emit' = [emit EXCEPT ![Backlog] = "next"]
  /\ UNCHANGED <<rowSide, process, sched, item, emitErr, events, listening, registered, dedupe,
                 accepted, taken, unqueued>>

BacklogNext ==
  /\ emit[Backlog] = "next"
  /\ \/ /\ batch = {}
        /\ emit' = [emit EXCEPT ![Backlog] = "none"]
        /\ UNCHANGED <<batch, item>>
     \/ \E e \in batch :
          /\ batch' = batch \ {e} /\ item' = e
          /\ emit' = [emit EXCEPT ![Backlog] = "arrived"]
  /\ UNCHANGED <<rowSide, process, sched, emitErr, events, listening, registered, dedupe,
                 accepted, taken, unqueued>>

(* The row is marked whether or not the event was emitted; with the context *)
(* done, or on an error, it stays as it is.                                 *)
MarkProcessed ==
  /\ emit[Backlog] = "marking"
  /\ \/ UNCHANGED eventRow
     \/ /\ ~ ctxDone
        /\ eventRow' = [eventRow EXCEPT ![item] = IF emitErr THEN "failed" ELSE "processed"]
  /\ emit' = [emit EXCEPT ![Backlog] = "next"]
  /\ item' = NoEvent /\ emitErr' = FALSE
  /\ UNCHANGED <<client, process, sched, batch, events, listening, registered, dedupe,
                 accepted, taken, unqueued>>

Sending ==
  \/ \E e \in Event : SendEvent(e) \/ SendFails(e) \/ QueueEventToDatabase(e)
  \/ \E s \in Emitter : EmitEvent(s)
  \/ ListUnprocessed \/ BacklogNext \/ MarkProcessed
-----------------------------------------------------------------------------
(* The listener.                                                            *)

(* Mutant: the loop looks at s.running before it takes the next event.      *)
ReceiveWhileRunning ==
  /\ listener = "idle" /\ events # <<>> /\ running
  /\ now' = Head(events) /\ events' = Tail(events)
  /\ listener' = "locking"
  /\ UNCHANGED <<rowSide, process, sched, emit, backlog, toAsk, registered, dedupe, accepted,
                 taken, unqueued>>

(* What is left in a closed channel is still received.                      *)
Receive ==
  /\ listener = "idle" /\ events # <<>>
  /\ now' = Head(events) /\ events' = Tail(events)
  /\ listener' = "locking"
  /\ UNCHANGED <<rowSide, process, sched, emit, backlog, toAsk, registered, dedupe, accepted,
                 taken, unqueued>>

LockTriggers ==
  /\ listener = "locking" /\ schedLock = "free"
  /\ listener' = "asking" /\ toAsk' = registered
  /\ UNCHANGED <<rowSide, process, sched, emit, backlog, events, now, registered, dedupe,
                 accepted, taken, unqueued>>

(* Mutant: an entry that is there, expired or not, is not replaced.         *)
MarkIfAbsent(k) ==
  /\ cache' = [cache EXCEPT ![k] = IF @ = "none" THEN "valid" ELSE @]
  /\ open' = open \cup {k}
  /\ doubled' = IF k \in open THEN doubled \cup {k} ELSE doubled

(* The key is let through and marked, for a window from now on.             *)
Mark(k) ==
  /\ cache' = [cache EXCEPT ![k] = "valid"]
  /\ open' = open \cup {k}
  /\ doubled' = IF k \in open THEN doubled \cup {k} ELSE doubled

IsDuplicate(k) == cache[k] = "valid"

(* matchesEventTrigger, for the triggers in any order: topic and filters,   *)
(* then the key.  Only the listener marks keys.                             *)
Ask(t) ==
  /\ listener = "asking" /\ t \in toAsk
  /\ toAsk' = toAsk \ {t}
  /\ LET k == KeyOf[t][now] IN
       IF now \in Accepts[t] /\ k # NoKey /\ ~ IsDuplicate(k)
         THEN Mark(k) ELSE UNCHANGED <<cache, open, doubled>>
  /\ UNCHANGED <<rowSide, process, sched, emit, backlog, events, listener, now, registered,
                 sweep, swept, accepted, taken, unqueued>>

AskedAll ==
  /\ listener = "asking" /\ toAsk = {}
  /\ listener' = "idle" /\ now' = NoEvent
  /\ taken' = taken \cup {now}
  /\ UNCHANGED <<rowSide, process, sched, emit, backlog, events, toAsk, registered, dedupe,
                 accepted, unqueued>>

Listener == Receive \/ LockTriggers \/ (\E t \in Trigger : Ask(t)) \/ AskedAll

(* Time passes; cleanup finds an expired entry, and deletes what it finds   *)
(* under that key a moment later.                                           *)
WindowEnds(k) ==
  /\ cache[k] = "valid" \/ k \in open
  /\ cache' = [cache EXCEPT ![k] = IF @ = "valid" THEN "expired" ELSE @]
  /\ open' = open \ {k}
  /\ UNCHANGED <<rowSide, process, sched, emit, backlog, events, listening, registered, sweep,
                 doubled, swept, accepted, taken, unqueued>>

CleanupFinds(k) ==
  /\ alive /\ sweep = NoKey /\ cache[k] = "expired"
  /\ sweep' = k
  /\ UNCHANGED <<rowSide, process, sched, emit, backlog, events, listening, registered, cache,
                 open, doubled, swept, accepted, taken, unqueued>>

CleanupDeletes ==
  /\ sweep # NoKey
  /\ cache' = [cache EXCEPT ![sweep] = "none"]
  /\ swept' = IF cache[sweep] = "valid" THEN swept \cup {sweep} ELSE swept
  /\ sweep' = NoKey
  /\ UNCHANGED <<rowSide, process, sched, emit, backlog, events, listening, registered, open,
                 doubled, accepted, taken, unqueued>>

BusNext ==
  \/ Server \/ Sending \/ Listener
  \/ \E k \in Key : WindowEnds(k) \/ CleanupFinds(k)
  \/ CleanupDeletes

(* The listener runs whenever it can, and Stop does not keep the lock.      *)
BusSpec == BusInit /\ [][BusNext]_busVars /\ WF_busVars(Listener) /\ WF_busVars(StopHolder)
-----------------------------------------------------------------------------
(* An event that SendEventWithFallback is done with was put into the        *)
(* channel, or is in the database and still to be emitted, or was dropped   *)
(* and its row says so, or could not be written; and a row that says        *)
(* processed without an error was put into the channel, whichever of the    *)
(* sender, the server and its goroutines gave up in between                 *)
(* (server_event.go:283-309, eventreceiver.go:610-636).                     *)
AcceptedOrQueued ==
  /\ \A e \in Event : client[e] = "done" =>
       \/ e \in accepted \cup unqueued
       \/ eventRow[e] \in {"queued", "failed"}
  /\ \A e \in Event : eventRow[e] = "processed" => e \in accepted

(* A key is let through once in a window, although several triggers share   *)
(* it, unless cleanup deleted the new entry where it had found an expired   *)
(* one (scheduler.go:86-122, :650-665).                                     *)
OncePerWindow == doubled \subseteq swept

(* Every trigger is asked about an event in the channel, also when the      *)
(* scheduler is stopped meanwhile, unless the process ends or a watch       *)
(* trigger was registered, which leaves s.mu locked (scheduler.go:602,      *)
(* :276).                                                                   *)
AcceptedIsDispatched ==
  \A e \in Event :
    (\E i \in DOMAIN events : events[i] = e)
      ~> (e \in taken \/ ~ alive \/ schedLock = "stuck")
=============================================================================

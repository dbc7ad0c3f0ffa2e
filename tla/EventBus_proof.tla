--------------------------- MODULE EventBus_proof --------------------------
(***************************************************************************)
(* Proofs about EventBus: for any events, triggers, keys and sizes, no     *)
(* event disappears between its sender and the channel, and a key is let   *)
(* through twice in a window only after the cleanup deleted its mark.      *)
(***************************************************************************)
EXTENDS EventBus, TLAPS

(* What Backlog works on is an event, and the one it marks without an error *)
(* is in the channel.                                                       *)
BacklogInv ==
  /\ emit[Backlog] \in {"arrived", "emitting", "full", "marking"} => item \in Event
  /\ emit[Backlog] = "marking" /\ ~ emitErr => item \in accepted

(* Only Backlog lists, goes on to a next row and marks.                     *)
RequestInv == \A e \in Event : emit[e] \in {"none", "arrived", "emitting", "full"}

ListenerInv == listener \in {"locking", "asking"} => now \in Event

(* A window is open only while its mark is in the cache.                    *)
WindowInv == \A k \in open \ swept : cache[k] = "valid"

EventInv == BusTypeOK /\ BacklogInv /\ RequestInv /\ ListenerInv /\ AcceptedOrQueued
BusIInv     == EventInv /\ WindowInv /\ OncePerWindow
-----------------------------------------------------------------------------
LEMMA BusInitIInv == BusInit => BusIInv
<1> SUFFICES ASSUME BusInit PROVE BusIInv
  OBVIOUS
<1> USE EventBusAssumption DEF BusInit
<1>1. BusTypeOK
  <2>1. /\ alive \in BOOLEAN /\ receiverUp \in BOOLEAN /\ ctxDone \in BOOLEAN
        /\ running \in BOOLEAN /\ closed \in BOOLEAN /\ emitErr \in BOOLEAN
    BY Zenon
  <2>2. /\ client \in [Event -> {"idle", "done"}]
        /\ eventRow \in [Event -> {"none", "queued"}]
        /\ emit \in [Emitter -> {"none"}]
        /\ cache \in [Key -> {"none"}]
    OBVIOUS
  <2>3. events \in Seq(Event) /\ Len(events) = 0
    OBVIOUS
  <2> QED  BY <2>1, <2>2, <2>3 DEF BusTypeOK
<1>2. BacklogInv /\ RequestInv /\ ListenerInv
  BY DEF BacklogInv, RequestInv, ListenerInv, Emitter
<1>3. AcceptedOrQueued /\ WindowInv /\ OncePerWindow
  BY DEF AcceptedOrQueued, WindowInv, OncePerWindow
<1> QED  BY <1>1, <1>2, <1>3 DEF BusIInv, EventInv

(* The deduplication cache.                                                 *)
LEMMA MarkKeeps ==
  ASSUME BusIInv, NEW k \in Key, ~ IsDuplicate(k), Mark(k), UNCHANGED swept
  PROVE  /\ (WindowInv /\ OncePerWindow)'
         /\ cache' \in [Key -> {"none", "valid", "expired"}]
         /\ open' \subseteq Key /\ doubled' \subseteq Key
BY DEF BusIInv, EventInv, BusTypeOK, WindowInv, OncePerWindow, IsDuplicate, Mark

(* The result of EmitEvent, for a sender and for Backlog.                   *)
LEMMA ReturnsKeeps ==
  ASSUME EventInv, NEW s \in Emitter, NEW ok \in BOOLEAN,
         emit[s] \in {"arrived", "emitting", "full"},
         Returns(s, ok), ok => ItemOf(s) \in accepted', accepted \subseteq accepted',
         UNCHANGED <<eventRow, item, unqueued>>
  PROVE  /\ (BacklogInv /\ RequestInv /\ AcceptedOrQueued)'
         /\ client' \in [Event -> {"idle", "waiting", "queueing", "done"}]
         /\ emit' \in [Emitter -> {"none", "list", "next", "arrived", "emitting", "full",
                                   "marking"}]
         /\ emitErr' \in BOOLEAN
<1> USE EventBusAssumption
    DEF EventInv, BusTypeOK, BacklogInv, RequestInv, AcceptedOrQueued, ItemOf, Emitter
<1>1. CASE s = Backlog
  <2>1. emitErr' = ~ ok /\ emitErr' \in BOOLEAN
    BY <1>1, Zenon DEF Returns
  <2>2. /\ emit' = [emit EXCEPT ![Backlog] = "marking"]
        /\ client' = client
    BY <1>1, Zenon DEF Returns
  <2>3. ~ emitErr' => item' \in accepted'
    BY <1>1, <2>1
  <2> QED  BY <1>1, <2>1, <2>2, <2>3
<1>2. CASE s # Backlog
  <2>1. emitErr' = emitErr /\ s \in Event
    BY <1>2, Zenon DEF Returns
  <2>2. /\ emit' = [emit EXCEPT ![s] = "none"]
        /\ client' = [client EXCEPT ![s] = IF @ # "waiting" THEN @
                                           ELSE IF ok THEN "done" ELSE "queueing"]
    BY <1>2, Zenon DEF Returns
  <2>3. s \in accepted' \/ ~ ok
    BY <1>2
  <2> QED  BY <1>2, <2>1, <2>2, <2>3
<1> QED  BY <1>1, <1>2
-----------------------------------------------------------------------------
LEMMA DieKeeps == BusIInv /\ Die => BusIInv'
<1> SUFFICES ASSUME BusIInv, Die PROVE BusIInv'
  OBVIOUS
<1> USE EventBusAssumption DEF BusIInv, EventInv, Die, dedupe
<1>1. BusTypeOK'
  <2>1. /\ alive' \in BOOLEAN /\ receiverUp' \in BOOLEAN /\ ctxDone' \in BOOLEAN
        /\ running' \in BOOLEAN /\ closed' \in BOOLEAN /\ emitErr' \in BOOLEAN
    BY Zenon
  <2>2. /\ client' \in [Event -> {"idle", "waiting", "queueing", "done"}]
        /\ emit' \in [Emitter -> {"none"}]
        /\ cache' \in [Key -> {"none"}]
    BY DEF BusTypeOK
  <2>3. events' \in Seq(Event) /\ Len(events') = 0
    OBVIOUS
  <2> QED  BY <2>1, <2>2, <2>3 DEF BusTypeOK
<1>2. (BacklogInv /\ RequestInv /\ ListenerInv)'
  BY DEF BacklogInv, RequestInv, ListenerInv, Emitter
<1>3. (AcceptedOrQueued /\ WindowInv /\ OncePerWindow)'
  BY DEF AcceptedOrQueued, WindowInv, OncePerWindow, BusTypeOK
<1> QED  BY <1>1, <1>2, <1>3

(* The server, apart from its end: nothing the properties are about changes.*)
LEMMA ServerKeeps == BusIInv /\ Server => BusIInv'
<1> SUFFICES ASSUME BusIInv, Server PROVE BusIInv'
  OBVIOUS
<1> USE EventBusAssumption
    DEF BusIInv, EventInv, BusTypeOK, BacklogInv, RequestInv, ListenerInv, AcceptedOrQueued,
        WindowInv, OncePerWindow, rowSide, process, sched, backlog, listening, dedupe, Emitter
<1>1. CASE ServerStart
  <2>1. alive' \in BOOLEAN /\ receiverUp' \in BOOLEAN /\ ctxDone' \in BOOLEAN
          /\ running' \in BOOLEAN
    BY <1>1, Zenon DEF ServerStart
  <2> QED  BY <1>1, <2>1 DEF ServerStart
<1>2. CASE Die
  BY <1>2, DieKeeps
<1>3. CASE StopCancels
  <2>1. ctxDone' \in BOOLEAN
    BY <1>3, Zenon DEF StopCancels
  <2> QED  BY <1>3, <2>1 DEF StopCancels
<1>4. CASE StopLocks
  BY <1>4 DEF StopLocks
<1>5. CASE StopFails
  <2>1. receiverUp' \in BOOLEAN
    BY <1>5, Zenon DEF StopFails
  <2> QED  BY <1>5, <2>1 DEF StopFails
<1>6. CASE StopClears
  <2>1. running' \in BOOLEAN
    BY <1>6, Zenon DEF StopClears
  <2> QED  BY <1>6, <2>1 DEF StopClears
<1>7. CASE StopCloses
  <2>1. receiverUp' \in BOOLEAN /\ closed' \in BOOLEAN
    BY <1>7, Zenon DEF StopCloses
  <2> QED  BY <1>7, <2>1 DEF StopCloses
<1>8. ASSUME NEW t \in Trigger, RegisterTrigger(t) PROVE BusIInv'
  BY <1>8 DEF RegisterTrigger
<1>9. CASE RegisterWatchTrigger
  BY <1>9 DEF RegisterWatchTrigger
<1> QED  BY <1>1, <1>2, <1>3, <1>4, <1>5, <1>6, <1>7, <1>8, <1>9 DEF Server, StopHolder

(* The sender: it is done when the server has accepted the event or the row *)
(* is written, or could not be.                                             *)
LEMMA SenderKeeps ==
  ASSUME BusIInv, NEW e \in Event, SendEvent(e) \/ SendFails(e) \/ QueueEventToDatabase(e)
  PROVE  BusIInv'
<1> USE EventBusAssumption
    DEF BusIInv, EventInv, BusTypeOK, BacklogInv, RequestInv, ListenerInv, AcceptedOrQueued,
        WindowInv, OncePerWindow, process, sched, backlog, listening, dedupe, Emitter
<1>1. CASE SendEvent(e)
  BY <1>1 DEF SendEvent
<1>2. CASE SendFails(e)
  BY <1>2 DEF SendFails
<1>3. CASE QueueEventToDatabase(e)
  <2>1. CASE eventRow' = [eventRow EXCEPT ![e] = "queued"] /\ UNCHANGED unqueued
    BY <1>3, <2>1 DEF QueueEventToDatabase
  <2>2. CASE unqueued' = unqueued \cup {e} /\ UNCHANGED eventRow
    BY <1>3, <2>2 DEF QueueEventToDatabase
  <2> QED  BY <1>3, <2>1, <2>2 DEF QueueEventToDatabase
<1> QED  BY <1>1, <1>2, <1>3

LEMMA EmitKeeps ==
  ASSUME BusIInv, NEW s \in Emitter, EmitEvent(s)
  PROVE  BusIInv'
<1> USE DEF BusIInv
<1> DEFINE Kept == UNCHANGED <<process, sched, listening, registered, dedupe, taken>>
<1>0. ItemOf(s) \in Event \/ emit[s] \notin {"arrived", "emitting", "full"}
  BY DEF EventInv, BacklogInv, ItemOf, Emitter
<1>1. CASE EmitRefused(s) \/ EmitDrops(s) \/ (EmitPanics(s) /\ s # Backlog)
  <2>1. /\ Returns(s, FALSE) /\ emit[s] \in {"arrived", "emitting", "full"}
        /\ UNCHANGED <<eventRow, batch, item, events, accepted, unqueued>> /\ Kept
    BY <1>1 DEF EmitRefused, EmitDrops, EmitPanics
  <2>2. FALSE \in BOOLEAN
    BY Zenon
  <2>3. /\ (BacklogInv /\ RequestInv /\ AcceptedOrQueued)'
        /\ client' \in [Event -> {"idle", "waiting", "queueing", "done"}]
        /\ emit' \in [Emitter -> {"none", "list", "next", "arrived", "emitting", "full",
                                  "marking"}]
        /\ emitErr' \in BOOLEAN
    BY <2>1, <2>2, ReturnsKeeps
  <2> QED
    BY <2>1, <2>3
    DEF EventInv, BusTypeOK, ListenerInv, WindowInv, OncePerWindow, process, sched, listening,
        dedupe
<1>2. CASE EmitPanics(s) /\ s = Backlog
  BY <1>2, DieKeeps DEF EmitPanics
<1>3. CASE EmitSends(s)
  <2>1. /\ Returns(s, TRUE) /\ emit[s] \in {"arrived", "emitting", "full"}
        /\ accepted' = accepted \cup {ItemOf(s)}
        /\ UNCHANGED <<eventRow, batch, item, unqueued>> /\ Kept
    BY <1>3 DEF EmitSends
  <2>2. TRUE \in BOOLEAN
    BY Zenon
  <2>3. /\ (BacklogInv /\ RequestInv /\ AcceptedOrQueued)'
        /\ client' \in [Event -> {"idle", "waiting", "queueing", "done"}]
        /\ emit' \in [Emitter -> {"none", "list", "next", "arrived", "emitting", "full",
                                  "marking"}]
        /\ emitErr' \in BOOLEAN
    BY <2>1, <2>2, ReturnsKeeps
  <2>4. events' \in Seq(Event) /\ Len(events') <= QueueSize
    BY <1>0, <1>3, EventBusAssumption DEF EmitSends, HasRoom, EventInv, BusTypeOK
  <2> QED
    BY <1>0, <2>1, <2>3, <2>4
    DEF EventInv, BusTypeOK, ListenerInv, WindowInv, OncePerWindow, process, sched, listening,
        dedupe
<1>4. CASE EmitChecked(s) \/ EmitWaits(s)
  <2>1. \E l \in {"emitting", "full"} : emit' = [emit EXCEPT ![s] = l]
    BY <1>4 DEF EmitChecked, EmitWaits
  <2>2. /\ emit[s] \in {"arrived", "emitting"}
        /\ UNCHANGED <<rowSide, process, sched, backlog, events, listening, registered, dedupe,
                       accepted, taken, unqueued>>
    BY <1>4 DEF EmitChecked, EmitWaits
  <2>3. (BacklogInv /\ RequestInv)' /\ BusTypeOK'
    BY <2>1, <2>2, EventBusAssumption
    DEF EventInv, BusTypeOK, BacklogInv, RequestInv, rowSide, process, sched, backlog,
        listening, dedupe, Emitter
  <2>4. (ListenerInv /\ AcceptedOrQueued /\ WindowInv /\ OncePerWindow)'
    BY <2>2
    DEF EventInv, ListenerInv, AcceptedOrQueued, WindowInv, OncePerWindow, rowSide, listening,
        dedupe
  <2> QED  BY <2>3, <2>4 DEF EventInv
<1> QED  BY <1>1, <1>2, <1>3, <1>4 DEF EmitEvent

(* A row is listed while it is queued and marked after it was emitted.      *)
LEMMA BacklogKeeps ==
  ASSUME BusIInv, ListUnprocessed \/ BacklogNext \/ MarkProcessed
  PROVE  BusIInv'
<1> USE EventBusAssumption
    DEF BusIInv, EventInv, BusTypeOK, BacklogInv, RequestInv, ListenerInv, AcceptedOrQueued,
        WindowInv, OncePerWindow, rowSide, process, sched, backlog, listening, dedupe, Emitter
<1>1. CASE ListUnprocessed
  <2>1. batch' \subseteq Event
    BY <1>1 DEF ListUnprocessed
  <2>2. emit' = [emit EXCEPT ![Backlog] = "none"] \/ emit' = [emit EXCEPT ![Backlog] = "next"]
    BY <1>1 DEF ListUnprocessed
  <2> QED  BY <1>1, <2>1, <2>2 DEF ListUnprocessed
<1>2. CASE BacklogNext
  BY <1>2 DEF BacklogNext
<1>3. CASE MarkProcessed
  <2>1. emitErr' \in BOOLEAN
    BY <1>3, Zenon DEF MarkProcessed
  <2>2. emit[Backlog] = "marking" /\ item \in Event /\ (~ emitErr => item \in accepted)
    BY <1>3 DEF MarkProcessed
  <2>3. CASE UNCHANGED eventRow
    BY <1>3, <2>1, <2>3 DEF MarkProcessed
  <2>4. CASE eventRow' = [eventRow EXCEPT ![item] = IF emitErr THEN "failed" ELSE "processed"]
    BY <1>3, <2>1, <2>2, <2>4 DEF MarkProcessed
  <2> QED  BY <1>3, <2>3, <2>4 DEF MarkProcessed
<1> QED  BY <1>1, <1>2, <1>3
-----------------------------------------------------------------------------
LEMMA ListenerKeeps == BusIInv /\ Listener => BusIInv'
<1> SUFFICES ASSUME BusIInv, Listener PROVE BusIInv'
  OBVIOUS
<1> USE EventBusAssumption
    DEF BusIInv, EventInv, BusTypeOK, BacklogInv, RequestInv, ListenerInv, AcceptedOrQueued,
        rowSide, process, sched, backlog, listening, dedupe, Emitter
<1>1. CASE Receive
  BY <1>1 DEF Receive, WindowInv, OncePerWindow
<1>2. CASE LockTriggers
  BY <1>2 DEF LockTriggers, WindowInv, OncePerWindow
<1>3. ASSUME NEW t \in Trigger, Ask(t) PROVE BusIInv'
  <2> DEFINE k == KeyOf[t][now]
  <2>1. CASE k # NoKey /\ ~ IsDuplicate(k) /\ Mark(k)
    <3>1. k \in Key /\ UNCHANGED swept
      BY <1>3, <2>1 DEF Ask
    <3>2. /\ (WindowInv /\ OncePerWindow)'
          /\ cache' \in [Key -> {"none", "valid", "expired"}]
          /\ open' \subseteq Key /\ doubled' \subseteq Key
      BY <2>1, <3>1, MarkKeeps
    <3> QED  BY <1>3, <3>2 DEF Ask
  <2>2. CASE UNCHANGED <<cache, open, doubled>>
    BY <1>3, <2>2 DEF Ask, WindowInv, OncePerWindow
  <2> QED  BY <1>3, <2>1, <2>2 DEF Ask
<1>4. CASE AskedAll
  BY <1>4 DEF AskedAll, WindowInv, OncePerWindow
<1> QED  BY <1>1, <1>2, <1>3, <1>4 DEF Listener

LEMMA SweepKeeps ==
  ASSUME BusIInv, CleanupDeletes \/ \E k \in Key : WindowEnds(k) \/ CleanupFinds(k)
  PROVE  BusIInv'
<1> USE EventBusAssumption
    DEF BusIInv, EventInv, BusTypeOK, BacklogInv, RequestInv, ListenerInv, AcceptedOrQueued,
        WindowInv, OncePerWindow, rowSide, process, sched, backlog, listening, dedupe, Emitter
<1>1. ASSUME NEW k \in Key, WindowEnds(k) PROVE BusIInv'
  BY <1>1 DEF WindowEnds
<1>2. ASSUME NEW k \in Key, CleanupFinds(k) PROVE BusIInv'
  BY <1>2 DEF CleanupFinds
<1>3. CASE CleanupDeletes
  BY <1>3 DEF CleanupDeletes
<1> QED  BY <1>1, <1>2, <1>3

LEMMA BusNextIInv == BusIInv /\ [BusNext]_busVars => BusIInv'
<1> SUFFICES ASSUME BusIInv, [BusNext]_busVars PROVE BusIInv'
  OBVIOUS
<1>1. CASE Server
  BY <1>1, ServerKeeps
<1>2. CASE Sending
  BY <1>2, SenderKeeps, EmitKeeps, BacklogKeeps DEF Sending
<1>3. CASE Listener
  BY <1>3, ListenerKeeps
<1>4. CASE CleanupDeletes \/ \E k \in Key : WindowEnds(k) \/ CleanupFinds(k)
  BY <1>4, SweepKeeps
<1>5. CASE UNCHANGED busVars
  BY <1>5
  DEF busVars, BusIInv, EventInv, BusTypeOK, BacklogInv, RequestInv, ListenerInv,
      AcceptedOrQueued, WindowInv, OncePerWindow, rowSide, process, sched, backlog, listening,
      dedupe, Emitter
<1> QED  BY <1>1, <1>2, <1>3, <1>4, <1>5 DEF BusNext
-----------------------------------------------------------------------------
(* The type invariant of the event path; the channel is never over-full.    *)
THEOREM BusTypeCorrect == BusSpec => []BusTypeOK
<1>1. BusIInv => BusTypeOK
  BY DEF BusIInv, EventInv
<1> QED  BY BusInitIInv, BusNextIInv, <1>1, PTL DEF BusSpec

(* Whichever of the sender, the server and its goroutines gives up, an      *)
(* event the sender is done with is accounted for, and a row that says      *)
(* processed was emitted (server_event.go:283-309,                          *)
(* eventreceiver.go:610-636).                                               *)
THEOREM NoEventDisappears == BusSpec => []AcceptedOrQueued
<1>1. BusIInv => AcceptedOrQueued
  BY DEF BusIInv, EventInv
<1> QED  BY BusInitIInv, BusNextIInv, <1>1, PTL DEF BusSpec

(* For any triggers that share any keys, a key is let through once in a     *)
(* window, unless the cleanup deleted a mark it had not read                *)
(* (scheduler.go:86-122, :650-665).                                         *)
THEOREM KeyOncePerWindow == BusSpec => []OncePerWindow
<1>1. BusIInv => OncePerWindow
  BY DEF BusIInv
<1> QED  BY BusInitIInv, BusNextIInv, <1>1, PTL DEF BusSpec
-----------------------------------------------------------------------------
(* Between the channel and the triggers.                                    *)

IdleInv == listener = "idle" => now = NoEvent

OnItsWay(e) == now = e \/ \E i \in DOMAIN events : events[i] = e

AllAsked(e) == now = e /\ toAsk = {} /\ e \in taken'

(* The channel keeps its events: a send adds one, Receive hands on the      *)
(* first.                                                                   *)
LEMMA SendKeepsEvents ==
  ASSUME BusTypeOK, NEW e \in Event, events' = Append(events, e)
  PROVE  \A i \in DOMAIN events : i \in DOMAIN events' /\ events'[i] = events[i]
<1>1. events \in Seq(Event) /\ Len(events) \in Nat
  BY DEF BusTypeOK
<1> QED  BY <1>1

LEMMA ReceiveKeepsEvents ==
  ASSUME BusTypeOK, Receive
  PROVE  \A i \in DOMAIN events :
           events[i] = now' \/ \E j \in DOMAIN events' : events'[j] = events[i]
<1>1. /\ events \in Seq(Event) /\ Len(events) \in Nat /\ Len(events) # 0
      /\ events' = Tail(events) /\ now' = Head(events)
  BY DEF BusTypeOK, Receive
<1>2. /\ DOMAIN events = 1 .. Len(events) /\ DOMAIN events' = 1 .. Len(events) - 1
      /\ now' = events[1]
      /\ \A j \in 1 .. Len(events) - 1 : events'[j] = events[j + 1]
  BY <1>1
<1> SUFFICES ASSUME NEW i \in DOMAIN events, i # 1
             PROVE  \E j \in DOMAIN events' : events'[j] = events[i]
  BY <1>2
<1>3. i - 1 \in DOMAIN events' /\ events'[i - 1] = events[i]
  BY <1>1, <1>2
<1> QED  BY <1>3

(* What a step may do to the listener and the channel.                      *)
LEMMA EventsStay ==
  ASSUME BusIInv, [BusNext]_busVars
  PROVE  \/ ~ alive' /\ now' = NoEvent
         \/ Receive
         \/ AskedAll
         \/ /\ now' = now /\ (listener' = "idle" => listener = "idle")
            /\ events' = events \/ \E e \in Event : events' = Append(events, e)
<1> USE DEF rowSide, process, sched, backlog, listening, dedupe
<1>1. CASE Server
  BY <1>1 DEF Server, ServerStart, Die, StopCancels, StopLocks, StopHolder, StopFails,
       StopClears, StopCloses, RegisterTrigger, RegisterWatchTrigger
<1>2. ASSUME NEW s \in Emitter, EmitEvent(s)
      PROVE  \/ ~ alive' /\ now' = NoEvent
             \/ /\ UNCHANGED <<now, listener>>
                /\ events' = events \/ \E e \in Event : events' = Append(events, e)
  <2>1. CASE EmitSends(s)
    <3>1. ItemOf(s) \in Event
      BY <2>1 DEF EmitSends, ItemOf, Emitter, BusIInv, EventInv, BacklogInv
    <3> QED  BY <2>1, <3>1 DEF EmitSends
  <2>2. CASE EmitPanics(s)
    BY <2>2 DEF EmitPanics, Die
  <2>3. CASE EmitRefused(s) \/ EmitChecked(s) \/ EmitWaits(s) \/ EmitDrops(s)
    BY <2>3 DEF EmitRefused, EmitChecked, EmitWaits, EmitDrops
  <2> QED  BY <1>2, <2>1, <2>2, <2>3 DEF EmitEvent
<1>3. CASE Sending
  BY <1>2, <1>3 DEF Sending, SendEvent, SendFails, QueueEventToDatabase, ListUnprocessed,
       BacklogNext, MarkProcessed
<1>4. CASE Listener
  BY <1>4 DEF Listener, LockTriggers, Ask
<1>5. CASE CleanupDeletes \/ \E k \in Key : WindowEnds(k) \/ CleanupFinds(k)
  BY <1>5 DEF CleanupDeletes, WindowEnds, CleanupFinds
<1>6. CASE UNCHANGED busVars
  BY <1>6 DEF busVars
<1> QED  BY <1>1, <1>3, <1>4, <1>5, <1>6 DEF BusNext

LEMMA IdleStays == BusIInv /\ IdleInv /\ [BusNext]_busVars => IdleInv'
BY EventsStay DEF IdleInv, Receive, AskedAll

(* No event in the channel is skipped: it stays there or with the listener  *)
(* until every trigger was asked about it, whoever sends, stops the         *)
(* scheduler or closes the channel meanwhile, unless the process ends       *)
(* (scheduler.go:594-640).                                                  *)
THEOREM NoEventIsSkipped ==
  BusSpec => [][\A e \in Event : OnItsWay(e) => OnItsWay(e)' \/ AllAsked(e) \/ ~ alive']_busVars
<1> DEFINE Kept(e) == OnItsWay(e) => OnItsWay(e)' \/ AllAsked(e) \/ ~ alive'
<1>1. ASSUME BusIInv, IdleInv, [BusNext]_busVars, NEW e \in Event PROVE Kept(e)
  <2>1. CASE Receive
    <3>1. now # e
      BY <1>1, <2>1, EventBusAssumption DEF Receive, IdleInv
    <3> QED  BY <1>1, <2>1, <3>1, ReceiveKeepsEvents DEF OnItsWay, BusIInv, EventInv
  <2>2. CASE AskedAll
    BY <2>2 DEF AskedAll, OnItsWay, AllAsked
  <2>3. ASSUME now' = now, NEW x \in Event, events' = Append(events, x) PROVE Kept(e)
    BY <1>1, <2>3, SendKeepsEvents DEF OnItsWay, BusIInv, EventInv
  <2>4. CASE now' = now /\ events' = events
    BY <2>4 DEF OnItsWay
  <2> QED  BY <1>1, <2>1, <2>2, <2>3, <2>4, EventsStay
<1>2. BusIInv /\ IdleInv /\ [BusNext]_busVars => [\A e \in Event : Kept(e)]_busVars
  BY <1>1
<1>3. BusInit => IdleInv
  BY DEF BusInit, IdleInv
<1> QED  BY BusInitIInv, BusNextIInv, <1>2, <1>3, IdleStays, PTL DEF BusSpec
=============================================================================

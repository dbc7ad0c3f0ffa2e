------------------------------ MODULE RunControl ---------------------------
(***************************************************************************)
(* Cancelling a run.  The API server creates a run and executes it in a    *)
(* goroutine (handlers/runs.go, executeRunsConcurrently); ExecuteFlow and  *)
(* ExecuteModule (executor.go) register it in the control plane            *)
(* (run_control_plane.go), and the host runner reports the processes it    *)
(* starts.  Requests to CancelRun come in at any time.                     *)
(*                                                                         *)
(* A flow and its modules register under the same run UUID, each with a    *)
(* context of its own: level 0 is the flow, level m its m-th module.  A    *)
(* module's context is a child of the flow's.                              *)
(***************************************************************************)
EXTENDS Naturals, FiniteSets

CONSTANTS
  Modules,    \* the number of modules of the flow, in the order they run
  Steps,      \* the number of steps of a module; each starts one process
  Canceller,  \* requests to CancelRun
  Kinds,      \* the kinds of run to consider: "flow", "module"
  NoLevel, NoProc

ASSUME RunControlAssumption ==
  /\ Modules \in Nat \ {0} /\ Steps \in Nat \ {0}
  /\ Kinds \subseteq {"flow", "module"}
  /\ NoLevel \notin Nat
  /\ NoProc \notin Nat \X Nat

Level  == 0 .. Modules
Proc   == (1 .. Modules) \X (1 .. Steps)
Result == {"none", "nil", "cancelled", "failed"}

VARIABLES
  kind,       \* is the run a flow or a single module?
  status,     \* the run's row: status
  currentPid, \* the run's row: current_pid
  entry,      \* the control plane: whose ActiveRun is registered for the run
  pids,       \* the PIDs of each level's ActiveRun
  cancelled,  \* the levels whose cancel function was called
  alive,      \* processes that run
  pc,         \* where the executor is
  mod, step,  \* the module and the step it is at
  outcome,    \* what the call that has just ended returned
  cpc,        \* where each request to CancelRun is
  target,     \* the ActiveRun it found
  seenPid     \* current_pid in the row it read

row      == <<status, currentPid>>
plane    == <<entry, pids, cancelled>>
executor == <<pc, mod, step, outcome>>
requests == <<cpc, target, seenPid>>
vars     == <<kind, row, plane, alive, executor, requests>>

TypeOK ==
  /\ kind \in {"flow", "module"}
  /\ status \in {"running", "completed", "failed", "cancelled"}
  /\ currentPid \in Proc \cup {NoProc}
  /\ entry \in Level \cup {NoLevel}
  /\ pids \in [Level -> SUBSET Proc]
  /\ cancelled \in SUBSET Level
  /\ alive \in SUBSET Proc
  /\ pc \in {"created", "loop", "steps", "started", "added", "waiting", "ended",
             "removed", "cleared", "return", "returned", "done"}
  /\ mod \in 1 .. Modules + 1
  /\ step \in 1 .. Steps + 1
  /\ outcome \in Result
  /\ cpc \in [Canceller -> {"idle", "lookup", "cancel", "kill", "killRecorded",
                            "update", "answered", "refused"}]
  /\ target \in [Canceller -> Level \cup {NoLevel}]
  /\ seenPid \in [Canceller -> Proc \cup {NoProc}]

(* createRunRecord: the row says running before anything is registered.     *)
Init ==
  /\ kind \in Kinds
  /\ status = "running"
  /\ currentPid = NoProc
  /\ entry = NoLevel
  /\ pids = [l \in Level |-> {}]
  /\ cancelled = {}
  /\ alive = {}
  /\ pc = "created"
  /\ mod = 1
  /\ step = 1
  /\ outcome = "none"
  /\ cpc = [c \in Canceller |-> "idle"]
  /\ target = [c \in Canceller |-> NoLevel]
  /\ seenPid = [c \in Canceller |-> NoProc]

(* Is the context of level l done?                                          *)
Done(l) == l \in cancelled \/ (kind = "flow" /\ 0 \in cancelled)
Current == <<mod, step>>
-----------------------------------------------------------------------------
(* The control plane.  A new registration replaces the entry of the run.    *)

RegisterWithContext(l) ==
  /\ entry' = l
  /\ pids' = [pids EXCEPT ![l] = {}]

(* Mutant: the PIDs stay with the flow.                                     *)
AddPIDToFlow(p) ==
  pids' = IF entry = NoLevel THEN pids ELSE [pids EXCEPT ![0] = @ \cup {p}]

AddPID(p) ==
  pids' = IF entry = NoLevel THEN pids ELSE [pids EXCEPT ![entry] = @ \cup {p}]

RemovePID(p) ==
  pids' = IF entry = NoLevel THEN pids ELSE [pids EXCEPT ![entry] = @ \ {p}]

(* Mutant: a call that failed leaves its entry behind.                      *)
UnregisterUnlessFailed == entry' = IF outcome = "failed" THEN entry ELSE NoLevel

Unregister == entry' = NoLevel
-----------------------------------------------------------------------------
(* ExecuteFlow, ExecuteModule and the host runner.                          *)

StartRun ==
  /\ pc = "created"
  /\ IF kind = "flow"
       THEN pc' = "loop" /\ RegisterWithContext(0)
       ELSE pc' = "steps" /\ RegisterWithContext(1)
  /\ UNCHANGED <<kind, row, cancelled, alive, mod, step, outcome, requests>>

(* Mutant: one module too many.                                             *)
NextModulePastEnd ==
  /\ pc = "loop"
  /\ mod <= Modules + 1
  /\ ~Done(0)
  /\ pc' = "steps"
  /\ step' = 1
  /\ RegisterWithContext(mod)
  /\ UNCHANGED <<kind, row, cancelled, alive, mod, outcome, requests>>

(* ExecuteFlow's loop: run the next module, or stop.                        *)
NextModule ==
  /\ pc = "loop"
  /\ mod <= Modules
  /\ ~Done(0)
  /\ pc' = "steps"
  /\ step' = 1
  /\ RegisterWithContext(mod)
  /\ UNCHANGED <<kind, row, cancelled, alive, mod, outcome, requests>>

EndFlow ==
  /\ pc = "loop"
  /\ Done(0) \/ mod > Modules
  /\ outcome' = IF Done(0) THEN "cancelled" ELSE "nil"
  /\ Unregister
  /\ pc' = "returned"
  /\ UNCHANGED <<kind, row, pids, cancelled, alive, mod, step, requests>>

(* ExecuteModule's loop over its steps: the context is looked at before     *)
(* each step, and not after the last one.                                   *)
StartProcess ==
  /\ pc = "steps"
  /\ step <= Steps
  /\ ~Done(mod)
  /\ alive' = alive \cup {Current}
  /\ pc' = "started"
  /\ UNCHANGED <<kind, row, plane, mod, step, outcome, requests>>

EndSteps ==
  /\ pc = "steps"
  /\ \/ step <= Steps /\ Done(mod) /\ outcome' = "cancelled"
     \/ step > Steps /\ outcome' = "nil"
     \/ step = 1 /\ outcome' \in {"nil", "failed"}
  /\ pc' = "return"
  /\ UNCHANGED <<kind, row, plane, alive, mod, step, requests>>

ReportPID ==
  /\ pc = "started"
  /\ AddPID(Current)
  /\ pc' = "added"
  /\ UNCHANGED <<kind, row, entry, cancelled, alive, mod, step, outcome, requests>>

(* The row is written with the module's context: not once it is done.       *)
UpdateRunPID ==
  /\ pc = "added"
  /\ currentPid' = IF Done(mod) THEN currentPid ELSE Current
  /\ pc' = "waiting"
  /\ UNCHANGED <<kind, status, plane, alive, mod, step, outcome, requests>>

(* Mutant: the runner only waits for its process to end by itself.          *)
WaitForExit ==
  /\ pc = "waiting"
  /\ Current \notin alive
  /\ pc' = "ended"
  /\ UNCHANGED <<kind, row, plane, alive, mod, step, outcome, requests>>

(* Mutant: when the context is done, the runner returns and leaves the      *)
(* process to itself.                                                       *)
WaitOrLeave ==
  /\ pc = "waiting"
  /\ Current \notin alive \/ Done(mod)
  /\ pc' = "ended"
  /\ UNCHANGED <<kind, row, plane, alive, mod, step, outcome, requests>>

(* The process ends, or the context does and the runner kills the process   *)
(* and waits for it.                                                        *)
Wait ==
  /\ pc = "waiting"
  /\ Current \notin alive \/ Done(mod)
  /\ alive' = alive \ {Current}
  /\ pc' = "ended"
  /\ UNCHANGED <<kind, row, plane, mod, step, outcome, requests>>

ForgetPID ==
  /\ pc = "ended"
  /\ RemovePID(Current)
  /\ pc' = "removed"
  /\ UNCHANGED <<kind, row, entry, cancelled, alive, mod, step, outcome, requests>>

(* Mutant: the row keeps the PID of a process that has ended.               *)
KeepRunPID ==
  /\ pc = "removed"
  /\ pc' = "cleared"
  /\ UNCHANGED <<kind, row, plane, alive, mod, step, outcome, requests>>

ClearRunPID ==
  /\ pc = "removed"
  /\ currentPid' = IF Done(mod) THEN currentPid ELSE NoProc
  /\ pc' = "cleared"
  /\ UNCHANGED <<kind, status, plane, alive, mod, step, outcome, requests>>

(* The step succeeded, or failed and on_error says continue; or it failed,  *)
(* with the context's error when that is done; or it skips the rest.        *)
EndStep ==
  /\ pc = "cleared"
  /\ \/ pc' = "steps" /\ step' = step + 1 /\ UNCHANGED outcome
     \/ pc' = "return" /\ outcome' = (IF Done(mod) THEN "cancelled" ELSE "failed")
        /\ UNCHANGED step
     \/ pc' = "return" /\ ~Done(mod) /\ outcome' = "nil" /\ UNCHANGED step
  /\ UNCHANGED <<kind, row, plane, alive, mod, requests>>

(* The deferred Unregister of ExecuteModule, and what the flow makes of the *)
(* module's result: only the context's error or an abort handler ends it.   *)
EndModule ==
  /\ pc = "return"
  /\ Unregister
  /\ \/ /\ kind = "module" \/ outcome \in {"cancelled", "failed"}
        /\ pc' = "returned"
        /\ UNCHANGED mod
     \/ /\ kind = "flow" /\ outcome # "cancelled"
        /\ pc' = "loop"
        /\ mod' = mod + 1
  /\ UNCHANGED <<kind, row, pids, cancelled, alive, step, outcome, requests>>

UpdateRunStatus(s) == status' = s /\ currentPid' = NoProc

(* The goroutine that called the executor records the outcome.              *)
FinishRun ==
  /\ pc = "returned"
  /\ UpdateRunStatus(IF outcome = "nil" THEN "completed" ELSE "failed")
  /\ pc' = "done"
  /\ UNCHANGED <<kind, plane, alive, mod, step, outcome, requests>>

(* A process ends by itself.                                                *)
Exit(p) ==
  /\ p \in alive
  /\ alive' = alive \ {p}
  /\ UNCHANGED <<kind, row, plane, executor, requests>>

-----------------------------------------------------------------------------
(* A request to CancelRun.                                                  *)

GotoC(c, from, to) == cpc[c] = from /\ cpc' = [cpc EXCEPT ![c] = to]

GetRunByID(c) ==
  /\ IF status = "running"
       THEN GotoC(c, "idle", "lookup") /\ seenPid' = [seenPid EXCEPT ![c] = currentPid]
       ELSE GotoC(c, "idle", "refused") /\ UNCHANGED seenPid
  /\ UNCHANGED <<kind, row, plane, alive, executor, target>>

(* Cancel: the entry is looked up under the lock, and used after it.        *)
LookUp(c) ==
  /\ IF entry = NoLevel THEN GotoC(c, "lookup", "killRecorded")
                        ELSE GotoC(c, "lookup", "cancel")
  /\ target' = [target EXCEPT ![c] = entry]
  /\ UNCHANGED <<kind, row, plane, alive, executor, seenPid>>

CancelContext(c) ==
  /\ GotoC(c, "cancel", "kill")
  /\ cancelled' = cancelled \cup {target[c]}
  /\ UNCHANGED <<kind, row, entry, pids, alive, executor, target, seenPid>>

(* Without a tracked process, the one that the row names is killed.         *)
KillAllPIDs(c) ==
  /\ GotoC(c, "kill", IF pids[target[c]] = {} THEN "killRecorded" ELSE "update")
  /\ alive' = alive \ pids[target[c]]
  /\ pids' = [pids EXCEPT ![target[c]] = {}]
  /\ UNCHANGED <<kind, row, entry, cancelled, executor, target, seenPid>>

KillRecorded(c) ==
  /\ GotoC(c, "killRecorded", "update")
  /\ alive' = alive \ {seenPid[c]}
  /\ UNCHANGED <<kind, row, plane, executor, target, seenPid>>

MarkCancelled(c) ==
  /\ GotoC(c, "update", "answered")
  /\ UpdateRunStatus("cancelled")
  /\ UNCHANGED <<kind, plane, alive, executor, target, seenPid>>

-----------------------------------------------------------------------------
ExecutorNext ==
  \/ StartRun \/ NextModule \/ EndFlow
  \/ StartProcess \/ EndSteps \/ ReportPID \/ UpdateRunPID \/ Wait
  \/ ForgetPID \/ ClearRunPID \/ EndStep \/ EndModule \/ FinishRun

CancelRun(c) ==
  \/ GetRunByID(c) \/ LookUp(c) \/ CancelContext(c) \/ KillAllPIDs(c)
  \/ KillRecorded(c) \/ MarkCancelled(c)

Next ==
  \/ ExecutorNext
  \/ \E p \in Proc : Exit(p)
  \/ \E c \in Canceller : CancelRun(c)

(* The executor's goroutine runs; a process need not end by itself.         *)
Spec == Init /\ [][Next]_vars
FairSpec == Spec /\ WF_vars(ExecutorNext)
-----------------------------------------------------------------------------
Running(l) ==
  /\ pc \notin {"created", "returned", "done"}
  /\ l = 0 => kind = "flow"
  /\ l # 0 => l = mod /\ pc # "loop"

(* While the executor waits for a process that nobody has been told to      *)
(* kill, a request to cancel finds the process in the control plane.        *)
WaitedForIsTracked ==
  pc = "waiting" /\ Current \in alive /\ mod \notin cancelled =>
    entry # NoLevel /\ Current \in pids[entry]

(* The entry in the control plane belongs to a call that has not returned:  *)
(* a request that finds one cancels a context that somebody looks at.       *)
EntryIsLive == entry # NoLevel => Running(entry)

(* The one way to miss the run: a request that found it, and was answered   *)
(* while a process runs under a live context, found the entry of an earlier *)
(* module of a flow (executor.go:964).  It never misses a module run on its *)
(* own, nor a flow whose own entry it found.                                *)
MissesOnlyEarlierModules ==
  \A c \in Canceller :
    cpc[c] = "answered" /\ target[c] # NoLevel /\ pc = "waiting" /\ ~Done(mod) =>
      kind = "flow" /\ target[c] \in 1 .. mod - 1

(* Both: the control plane leads a request to a call that notices, unless   *)
(* the module it found ends by itself.                                      *)
CancelFindsTheCall == EntryIsLive /\ MissesOnlyEarlierModules

(* No process outlives the step that started it.                            *)
NoProcessLeftBehind ==
  pc \notin {"started", "added", "waiting"} => alive = {}

(* The row names no process of an earlier step, unless a context was        *)
(* cancelled: CancelRun kills that PID when it finds nothing else to kill.  *)
RecordedIsCurrent ==
  cancelled = {} /\ currentPid # NoProc =>
    currentPid = Current /\ pc \in {"waiting", "ended", "removed"}

(* A cancelled context ends the call it belongs to, with its processes,     *)
(* even if these would never end by themselves.                             *)
CancelledCallReturns ==
  \A l \in Level : l \in cancelled ~> ~Running(l) /\ \A p \in alive : p[1] # l

(* A request that found the run in the control plane and was answered has   *)
(* reached the run: it does not go on with a process that nobody stops.     *)
CancelReachesRun ==
  \A c \in Canceller :
    cpc[c] = "answered" /\ target[c] # NoLevel => (pc = "waiting" => Done(mod))
=============================================================================

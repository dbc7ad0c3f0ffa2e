--------------------------- MODULE RunControl_proof ------------------------
(***************************************************************************)
(* Proofs about RunControl: whatever the number of modules, of steps and   *)
(* of concurrent cancel requests, the control plane leads to the process   *)
(* that runs, and no process outlives its step.                            *)
(***************************************************************************)
EXTENDS RunControl, TLAPS

Processing == {"started", "added", "waiting"}
InModule   == Processing \cup {"steps", "ended", "removed", "cleared", "return"}

(* Where the executor is, and what that says of the control plane.          *)
PlaceInv ==
  /\ pc \in InModule => mod \in 1 .. Modules /\ entry = mod
  /\ pc \in Processing \cup {"ended", "removed", "cleared"} => step \in 1 .. Steps
  /\ pc = "created" => entry = NoLevel /\ mod = 1
  /\ pc = "loop" => kind = "flow" /\ entry \in {0, NoLevel}
  /\ pc \in {"returned", "done"} => entry = NoLevel
  /\ kind = "module" => mod = 1

(* The only process is that of the current step.                            *)
ProcessInv ==
  /\ alive \subseteq {Current}
  /\ pc \notin Processing => alive = {}

(* A request has an ActiveRun in hand when it cancels, and has cancelled    *)
(* its context when it kills.                                               *)
RequestInv ==
  \A c \in Canceller :
    /\ cpc[c] \in {"cancel", "kill"} => target[c] \in Level
    /\ cpc[c] = "kill" => target[c] \in cancelled

(* Only a request that has cancelled the module's context untracks the      *)
(* process of the current step.                                             *)
TrackInv ==
  pc \in {"added", "waiting"} /\ mod \notin cancelled => Current \in pids[mod]

IInv == TypeOK /\ PlaceInv /\ ProcessInv /\ RequestInv /\ TrackInv /\ RecordedIsCurrent

-----------------------------------------------------------------------------
LEMMA InitIInv == Init => IInv
  BY RunControlAssumption
  DEF Init, IInv, TypeOK, PlaceInv, ProcessInv, RequestInv, TrackInv, RecordedIsCurrent,
      InModule, Processing, Level, Proc, Result, Current

(* The steps of the executor that move it from one place to another.        *)
LEMMA ExecutorMoves ==
  IInv /\ (StartRun \/ NextModule \/ EndFlow \/ EndSteps \/ EndStep \/ EndModule \/ FinishRun)
    => IInv'
<1> SUFFICES ASSUME IInv,
                    StartRun \/ NextModule \/ EndFlow \/ EndSteps \/ EndStep
                      \/ EndModule \/ FinishRun
             PROVE  IInv'
  OBVIOUS
<1> USE RunControlAssumption
    DEF IInv, TypeOK, PlaceInv, ProcessInv, RequestInv, TrackInv, RecordedIsCurrent,
        InModule, Processing, Level, Proc, Result, Current, row, plane, executor, requests
<1>1. CASE StartRun
  BY <1>1 DEF StartRun, RegisterWithContext
<1>2. CASE NextModule
  BY <1>2 DEF NextModule, RegisterWithContext
<1>3. CASE EndFlow
  BY <1>3 DEF EndFlow, Unregister
<1>4. CASE EndSteps
  BY <1>4 DEF EndSteps
<1>5. CASE EndStep
  BY <1>5 DEF EndStep
<1>6. CASE EndModule
  BY <1>6 DEF EndModule, Unregister
<1>7. CASE FinishRun
  BY <1>7 DEF FinishRun, UpdateRunStatus
<1>8. QED
  BY <1>1, <1>2, <1>3, <1>4, <1>5, <1>6, <1>7

(* The steps that run the process of one step of a module.                  *)
LEMMA ExecutorRuns ==
  IInv /\ (StartProcess \/ ReportPID \/ UpdateRunPID \/ Wait \/ ForgetPID \/ ClearRunPID)
    => IInv'
<1> SUFFICES ASSUME IInv,
                    StartProcess \/ ReportPID \/ UpdateRunPID \/ Wait \/ ForgetPID \/ ClearRunPID
             PROVE  IInv'
  OBVIOUS
<1> USE RunControlAssumption
    DEF IInv, TypeOK, PlaceInv, ProcessInv, RequestInv, TrackInv, RecordedIsCurrent,
        InModule, Processing, Level, Proc, Result, Current, row, plane, executor, requests
<1>1. CASE StartProcess
  BY <1>1 DEF StartProcess
<1>2. CASE ReportPID
  BY <1>2 DEF ReportPID, AddPID
<1>3. CASE UpdateRunPID
  BY <1>3 DEF UpdateRunPID, Done
<1>4. CASE Wait
  BY <1>4 DEF Wait
<1>5. CASE ForgetPID
  BY <1>5 DEF ForgetPID, RemovePID
<1>6. CASE ClearRunPID
  BY <1>6 DEF ClearRunPID, Done
<1>7. QED
  BY <1>1, <1>2, <1>3, <1>4, <1>5, <1>6

(* The steps of a request to cancel the run.                                *)
LEMMA RequestsMove ==
  ASSUME NEW c \in Canceller, IInv, CancelRun(c)
  PROVE  IInv'
<1> USE RunControlAssumption
    DEF IInv, TypeOK, PlaceInv, ProcessInv, RequestInv, TrackInv, RecordedIsCurrent,
        InModule, Processing, Level, Proc, Result, Current, GotoC, row, plane, executor, requests
<1>1. CASE GetRunByID(c)
  <2> HIDE DEF Proc, Level, Result
  <2>1. CASE status = "running"
    BY <1>1, <2>1 DEF GetRunByID
  <2>2. CASE status # "running"
    BY <1>1, <2>2 DEF GetRunByID
  <2>3. QED
    BY <2>1, <2>2
<1>2. CASE LookUp(c)
  BY <1>2 DEF LookUp
<1>3. CASE CancelContext(c)
  <2>1. target[c] \in Level /\ cancelled' = cancelled \cup {target[c]}
    BY <1>3 DEF CancelContext
  <2>2. TypeOK'
    BY <1>3, <2>1 DEF CancelContext
  <2>3. RequestInv'
    BY <1>3, <2>1 DEF CancelContext
  <2>4. (PlaceInv /\ ProcessInv /\ TrackInv /\ RecordedIsCurrent)'
    BY <1>3, <2>1 DEF CancelContext
  <2>5. QED
    BY <2>2, <2>3, <2>4
<1>4. CASE KillAllPIDs(c)
  <2>1. target[c] \in Level /\ target[c] \in cancelled
    BY <1>4 DEF KillAllPIDs
  <2>2. pids' = [pids EXCEPT ![target[c]] = {}] /\ alive' \subseteq alive
    BY <1>4 DEF KillAllPIDs
  <2>3. TypeOK'
    BY <1>4, <2>1, <2>2 DEF KillAllPIDs
  <2>4. RequestInv'
    BY <1>4, <2>1 DEF KillAllPIDs
  <2>5. TrackInv'
    BY <1>4, <2>1, <2>2 DEF KillAllPIDs
  <2>6. (PlaceInv /\ ProcessInv /\ RecordedIsCurrent)'
    BY <1>4, <2>2 DEF KillAllPIDs
  <2>7. QED
    BY <2>3, <2>4, <2>5, <2>6
<1>5. CASE KillRecorded(c)
  BY <1>5 DEF KillRecorded
<1>6. CASE MarkCancelled(c)
  BY <1>6 DEF MarkCancelled, UpdateRunStatus
<1>7. QED
  BY <1>1, <1>2, <1>3, <1>4, <1>5, <1>6 DEF CancelRun

LEMMA NextIInv == IInv /\ [Next]_vars => IInv'
<1> SUFFICES ASSUME IInv, [Next]_vars PROVE IInv'
  OBVIOUS
<1>1. CASE ExecutorNext
  BY <1>1, ExecutorMoves, ExecutorRuns DEF ExecutorNext
<1>2. ASSUME NEW p \in Proc, Exit(p) PROVE IInv'
  BY <1>2 DEF Exit, IInv, TypeOK, PlaceInv, ProcessInv, RequestInv, TrackInv,
       RecordedIsCurrent, InModule, Processing, Level, Proc, Current, row, plane, executor, requests
<1>3. ASSUME NEW c \in Canceller, CancelRun(c) PROVE IInv'
  BY <1>3, RequestsMove
<1>4. CASE UNCHANGED vars
  BY <1>4 DEF vars, IInv, TypeOK, PlaceInv, ProcessInv, RequestInv, TrackInv,
       RecordedIsCurrent, Current, row, plane, executor, requests
<1>5. QED
  BY <1>1, <1>2, <1>3, <1>4 DEF Next

LEMMA Inductive == Spec => []IInv
  BY InitIInv, NextIInv, PTL DEF Spec

-----------------------------------------------------------------------------
(* Every variable keeps its type.                                           *)
THEOREM TypeCorrect == Spec => []TypeOK
<1>1. IInv => TypeOK
  BY DEF IInv
<1>2. QED
  BY <1>1, Inductive, PTL

(* A process that is waited for under a live context is in the entry that a *)
(* request to cancel would find (AddPID, RegisterWithContext).              *)
THEOREM ProcessIsTracked == Spec => []WaitedForIsTracked
<1>1. IInv => WaitedForIsTracked
  BY RunControlAssumption
  DEF IInv, WaitedForIsTracked, TypeOK, PlaceInv, TrackInv, InModule, Processing
<1>2. QED
  BY <1>1, Inductive, PTL

(* The control plane holds no entry of a call that has returned.            *)
THEOREM EntryBelongsToCall == Spec => []EntryIsLive
<1>1. IInv => EntryIsLive
  BY RunControlAssumption
  DEF IInv, EntryIsLive, Running, TypeOK, PlaceInv, InModule, Processing
<1>2. QED
  BY <1>1, Inductive, PTL

(* What a request has found lies behind the executor, or is where it is; it *)
(* has cancelled that once it is past its cancel.                           *)
FoundInv ==
  \A c \in Canceller :
    target[c] # NoLevel =>
      /\ target[c] \in 0 .. mod
      /\ target[c] = 0 => kind = "flow"
      /\ cpc[c] \in {"kill", "killRecorded", "update", "answered"} => target[c] \in cancelled

LEMMA FoundInvariance == Spec => []FoundInv
<1>1. Init => FoundInv
  BY DEF Init, FoundInv
<1>2. IInv /\ FoundInv /\ [Next]_vars => FoundInv'
  <2> SUFFICES ASSUME IInv, FoundInv, [Next]_vars PROVE FoundInv'
    OBVIOUS
  <2> USE RunControlAssumption DEF IInv, TypeOK, FoundInv, Level
  <2>1. ASSUME UNCHANGED <<kind, requests>>, cancelled \subseteq cancelled', mod' \in {mod, mod + 1}
        PROVE  FoundInv'
    BY <2>1 DEF requests
  <2>2. CASE ExecutorNext
    <3>1. UNCHANGED <<kind, requests, cancelled>>
      BY <2>2 DEF ExecutorNext, StartRun, NextModule, EndFlow, StartProcess, EndSteps, ReportPID,
           UpdateRunPID, Wait, ForgetPID, ClearRunPID, EndStep, EndModule, FinishRun, plane
    <3>2. mod' \in {mod, mod + 1}
      BY <2>2 DEF ExecutorNext, StartRun, NextModule, EndFlow, StartProcess, EndSteps, ReportPID,
           UpdateRunPID, Wait, ForgetPID, ClearRunPID, EndStep, EndModule, FinishRun
    <3> QED
      BY <2>1, <3>1, <3>2
  <2>3. ASSUME NEW p \in Proc, Exit(p) PROVE FoundInv'
    BY <2>1, <2>3 DEF Exit, plane, executor
  <2>4. ASSUME NEW c \in Canceller, CancelRun(c) PROVE FoundInv'
    <3>1. UNCHANGED <<kind, mod>> /\ cancelled \subseteq cancelled'
      BY <2>4 DEF CancelRun, GetRunByID, LookUp, CancelContext, KillAllPIDs, KillRecorded,
           MarkCancelled, plane, executor
    <3>2. CASE GetRunByID(c) \/ KillRecorded(c) \/ MarkCancelled(c)
      BY <3>1, <3>2 DEF GetRunByID, KillRecorded, MarkCancelled, GotoC
    <3>3. CASE LookUp(c)
      <4>1. entry # NoLevel => entry \in 0 .. mod /\ (entry = 0 => kind = "flow")
        BY DEF PlaceInv, InModule, Processing
      <4> QED
        BY <3>1, <3>3, <4>1 DEF LookUp, GotoC
    <3>4. CASE CancelContext(c)
      BY <3>1, <3>4 DEF CancelContext, GotoC
    <3>5. CASE KillAllPIDs(c)
      BY <3>1, <3>5 DEF KillAllPIDs, GotoC
    <3> QED
      BY <2>4, <3>2, <3>3, <3>4, <3>5 DEF CancelRun
  <2>5. CASE UNCHANGED vars
    BY <2>1, <2>5 DEF vars, plane, executor
  <2> QED
    BY <2>2, <2>3, <2>4, <2>5 DEF Next
<1> QED
  BY <1>1, <1>2, Inductive, PTL DEF Spec

(* A request that finds an entry reaches the run, unless what it found was  *)
(* the entry of a module of a flow that has ended by now.                   *)
LEMMA OnlyEarlierModulesMissed == Spec => []MissesOnlyEarlierModules
<1>1. IInv /\ FoundInv => MissesOnlyEarlierModules
  <2> SUFFICES ASSUME IInv, FoundInv, NEW c \in Canceller, cpc[c] = "answered",
                      target[c] # NoLevel, pc = "waiting", ~Done(mod)
               PROVE  kind = "flow" /\ target[c] \in 1 .. mod - 1
    BY DEF MissesOnlyEarlierModules
  <2>1. /\ target[c] \in 0 .. mod /\ target[c] \in cancelled
        /\ target[c] = 0 => kind = "flow"
    BY DEF FoundInv
  <2>2. mod \in Nat /\ (kind = "module" => mod = 1) /\ kind \in {"flow", "module"}
    BY RunControlAssumption DEF IInv, TypeOK, PlaceInv
  <2> QED
    BY <2>1, <2>2 DEF Done
<1> QED
  BY <1>1, Inductive, FoundInvariance, PTL

(* And what it finds is the entry of a call that has not returned           *)
(* (RegisterWithContext, Unregister, Cancel).                               *)
THEOREM CancelIsNoticed == Spec => []CancelFindsTheCall
  BY EntryBelongsToCall, OnlyEarlierModulesMissed, PTL DEF CancelFindsTheCall

(* What CancelReachesRun asks of every run, and the flow of the run         *)
(* RunControl_cancel does not keep, holds of modules that run on their own. *)
THEOREM SingleModuleIsReached == Spec => [](Kinds \subseteq {"module"} => CancelReachesRun)
<1> DEFINE Single == Kinds \subseteq {"module"} => kind = "module"
<1>1. Init => Single
  BY DEF Init
<1>2. Single /\ [Next]_vars => Single'
  BY DEF Next, vars, ExecutorNext, StartRun, NextModule, EndFlow, StartProcess, EndSteps,
     ReportPID, UpdateRunPID, Wait, ForgetPID, ClearRunPID, EndStep, EndModule, FinishRun, Exit,
     CancelRun, GetRunByID, LookUp, CancelContext, KillAllPIDs, KillRecorded, MarkCancelled
<1>3. Single /\ MissesOnlyEarlierModules => (Kinds \subseteq {"module"} => CancelReachesRun)
  BY DEF MissesOnlyEarlierModules, CancelReachesRun
<1> HIDE DEF Single
<1> QED
  BY <1>1, <1>2, <1>3, OnlyEarlierModulesMissed, PTL DEF Spec

(* No process runs when the executor is not waiting for one.                *)
THEOREM NothingLeftBehind == Spec => []NoProcessLeftBehind
<1>1. IInv => NoProcessLeftBehind
  BY DEF IInv, NoProcessLeftBehind, ProcessInv, Processing
<1>2. QED
  BY <1>1, Inductive, PTL

(* As long as nothing was cancelled, the PID of the run's row is that of    *)
(* the current step (UpdateRunPID, ClearRunPID).                            *)
THEOREM RowNamesCurrent == Spec => []RecordedIsCurrent
<1>1. IInv => RecordedIsCurrent
  BY DEF IInv
<1>2. QED
  BY <1>1, Inductive, PTL
=============================================================================

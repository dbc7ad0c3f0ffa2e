----------------------------- MODULE StepOrder -----------------------------
(***************************************************************************)
(* What running a module with depends_on promises, without queues,         *)
(* counters or goroutines: a step starts once, after every step it depends *)
(* on has succeeded; it is blocked when one of them failed or was blocked; *)
(* and the run ends when nothing is running and everything is settled, or  *)
(* a skip() or a cancellation cut it short.                                *)
(***************************************************************************)
CONSTANTS Step, DependsOn

VARIABLES status, ended

vars == <<status, ended>>

Settled == {"ok", "failed", "blocked"}

Init ==
  /\ status = [s \in Step |-> "pending"]
  /\ ended = FALSE

Become(s, from, to) ==
  /\ ~ended
  /\ status[s] = from
  /\ status' = [status EXCEPT ![s] = to]
  /\ UNCHANGED ended

DepsSucceeded(s) == \A d \in DependsOn[s] : status[d] = "ok"

Start(s) == DepsSucceeded(s) /\ Become(s, "pending", "running")

Cancelled(s) == DepsSucceeded(s) /\ Become(s, "pending", "cancelled")

Finish(s) == \E to \in {"ok", "failed", "skip"} : Become(s, "running", to)

Block(s) ==
  /\ \A d \in DependsOn[s] : status[d] \in Settled
  /\ \E d \in DependsOn[s] : status[d] # "ok"
  /\ Become(s, "pending", "blocked")

CutShort == \E s \in Step : status[s] \in {"skip", "cancelled"}

End ==
  /\ ~ended
  /\ \A s \in Step : status[s] # "running"
  /\ (\A s \in Step : status[s] \in Settled) \/ CutShort
  /\ ended' = TRUE
  /\ UNCHANGED status

Next ==
  \/ \E s \in Step : Start(s) \/ Cancelled(s) \/ Finish(s) \/ Block(s)
  \/ End

Spec == Init /\ [][Next]_vars
=============================================================================

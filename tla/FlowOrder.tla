----------------------------- MODULE FlowOrder -----------------------------
(***************************************************************************)
(* What running a flow promises, without queues and counters: its modules  *)
(* run one at a time, each once, after all those it depends on have ended, *)
(* in whatever way; the flow completes when every module has ended, and it *)
(* fails as circular when some are left but each of them waits for another *)
(* one.  It may fail or be cancelled at any point, also by the module that *)
(* runs.                                                                   *)
(***************************************************************************)
VARIABLES deps, status, ended

vars == <<deps, status, ended>>

Listed == DOMAIN deps
Ended  == {"completed", "skipped", "failed", "cancelled"}

Init ==
  /\ status = [m \in Listed |-> "pending"]
  /\ ended = "running"

MayRun(m) ==
  /\ ended = "running"
  /\ status[m] = "pending"
  /\ \A d \in deps[m] : d \in Listed /\ status[d] \in Ended

Begin(m) ==
  /\ MayRun(m)
  /\ \A x \in Listed : status[x] # "running"
  /\ status' = [status EXCEPT ![m] = "running"]
  /\ UNCHANGED <<deps, ended>>

Skip(m) ==
  /\ MayRun(m)
  /\ status' = [status EXCEPT ![m] = "skipped"]
  /\ UNCHANGED <<deps, ended>>

Settle(m) ==
  /\ ended = "running" /\ status[m] = "running"
  /\ \E s \in Ended : status' = [status EXCEPT ![m] = s]
  /\ ended' \in {"running", "failed", "cancelled"}
  /\ UNCHANGED deps

End ==
  /\ ended = "running"
  /\ \A m \in Listed : status[m] # "running"
  /\ \/ ended' \in {"failed", "cancelled"}
     \/ ended' = "completed" /\ \A m \in Listed : status[m] \in Ended
     \/ /\ ended' = "circular"
        /\ \A m \in Listed : ~ MayRun(m)
        /\ \E m \in Listed : status[m] = "pending"
  /\ UNCHANGED <<deps, status>>

Next == (\E m \in Listed : Begin(m) \/ Skip(m) \/ Settle(m)) \/ End

Spec == Init /\ [][Next]_vars
=============================================================================

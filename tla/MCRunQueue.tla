----------------------------- MODULE MCRunQueue ----------------------------
(* Instances for TLC: a new run before two processes and a request; three   *)
(* queued runs, more than the channel and the executor can take, before one *)
(* process; a run that is pending before a process and two requests; a      *)
(* queued run before a process and a request.                               *)
EXTENDS RunQueue, TLC

CONSTANTS r1, r2, r3, p1, p2, q1, q2

Runs(f)     == status = [r \in Run |-> IF r \in DOMAIN f THEN f[r] ELSE "cancelled"]
Up(P)       == mode = [p \in Poller |-> IF p \in P THEN "up" ELSE "down"]
Requests(Q) == reqPc = [q \in Request |-> IF q \in Q THEN "idle" ELSE "done"]

NewRun      == Runs(r1 :> "none") /\ Up({p1, p2}) /\ Requests({q1})
FullChannel == /\ Runs([r \in {r1, r2, r3} |-> "queued"]) /\ pending = {r2, r3}
               /\ Up({p1}) /\ Requests({})
PendingRun  == Runs(r1 :> "pending") /\ Up({p1}) /\ Requests({q1, q2})
QueuedRun   == Runs(r1 :> "queued") /\ Up({p1}) /\ Requests({q1})

MCInit == Init /\ (NewRun \/ FullChannel \/ PendingRun \/ QueuedRun)
MCSpec == MCInit /\ [][Next]_vars /\ Fairness
=============================================================================

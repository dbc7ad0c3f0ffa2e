------------------------------ MODULE Services -----------------------------
(***************************************************************************)
(* Components of the server next to one another: the event bus, the        *)
(* breaker and the pool of SSH connections.  They share no variable, and   *)
(* their steps interleave.                                                 *)
(***************************************************************************)
EXTENDS EventBus, CircuitBreaker, SSHPool

vars == <<busVars, breakerVars, poolVars>>

Bus(A)     == A /\ UNCHANGED <<breakerVars, poolVars>>
Breaker(A) == A /\ UNCHANGED <<busVars, poolVars>>
Pool(A)    == A /\ UNCHANGED <<busVars, breakerVars>>

Init == BusInit /\ BreakerInit /\ PoolInit
Next == Bus(BusNext) \/ Breaker(BreakerNext) \/ Pool(PoolNext)

Spec ==
  /\ Init /\ [][Next]_vars
  /\ WF_vars(Bus(Listener)) /\ WF_vars(Bus(StopHolder))

TypeOK == BusTypeOK /\ BreakerTypeOK /\ PoolTypeOK
=============================================================================

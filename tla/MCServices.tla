----------------------------- MODULE MCServices ----------------------------
(* The components of Services, which share nothing, one at a time in one    *)
(* run: `part' says which.  Events: one queued row and one event of a run,  *)
(* or two queued rows; two triggers of files with one template, so with one *)
(* key for both events, and a schedule that may be created later; room for  *)
(* one event; two starts of the server.                                     *)
EXTENDS Services, TLC

CONSTANTS e1, e2, k1

VARIABLE part

AcceptsAll == [t \in Trigger |-> Event]
OneKey     == [t \in Trigger |-> [e \in Event |-> IF t \in FromFiles THEN k1 ELSE NoKey]]

Rows == eventRow[e1] = "queued"

MCInit ==
  /\ Init
  /\ Rows /\ part \in {"bus", "breaker", "pool"}
  /\ part # "bus" => eventRow[e2] = "none"

Part(p, A) == part = p /\ A /\ UNCHANGED part

MCNext == \/ Part("bus", Bus(BusNext)) \/ Part("breaker", Breaker(BreakerNext))
          \/ Part("pool", Pool(PoolNext))

MCSpec ==
  /\ MCInit /\ [][MCNext]_<<vars, part>>
  /\ WF_vars(Part("bus", Bus(Listener))) /\ WF_vars(Part("bus", Bus(StopHolder)))
=============================================================================

--------------------------- MODULE CircuitBreaker --------------------------
(***************************************************************************)
(* retry.CircuitBreaker (internal/retry/circuit_breaker.go).  Its counters *)
(* are read and written without its mutex; the mutex only orders the       *)
(* transitions.  Each action below is one atomic access, or a section      *)
(* under the mutex that has one; lastFailureTime is read or written along  *)
(* with the access next to it.                                             *)
(***************************************************************************)
EXTENDS Integers, FiniteSets

CONSTANTS
  Caller, Nobody,
  Resetter,           \* the goroutine that calls Reset
  FailureThreshold, SuccessThreshold, MaxHalfOpenRequests

ASSUME CircuitBreakerAssumption ==
  /\ IsFiniteSet(Caller)
  /\ Nobody \notin Caller /\ Resetter \notin Caller /\ Nobody # Resetter
  /\ FailureThreshold \in Nat \ {0} /\ SuccessThreshold \in Nat \ {0}
  /\ MaxHalfOpenRequests \in Nat \ {0}

VARIABLES
  circuit,          \* the state
  failureCount, successCount, halfOpenRequests,
  recovered,        \* RecoveryTimeout has passed since lastFailureTime
  mutex,            \* who is in a section of several accesses
  at,               \* where each caller is
  saw,              \* the state it has loaded
  resetAt,          \* how far Reset is
  inSlot            \* history: callers between their +1 and their -1, or
                    \* until their call ends without one

counters    == <<failureCount, successCount, halfOpenRequests>>
breakerVars == <<circuit, counters, recovered, mutex, at, saw, resetAt, inSlot>>

CircuitState == {"closed", "open", "halfOpen"}

BreakerTypeOK ==
  /\ circuit \in CircuitState
  /\ failureCount \in Nat /\ successCount \in Nat /\ halfOpenRequests \in Int
  /\ recovered \in BOOLEAN
  /\ mutex \in Caller \cup {Nobody, Resetter}
  /\ at \in [Caller -> {"idle", "lock", "zeroHalfOpen", "zeroSuccess", "limit", "reject",
                        "running", "failed", "succeeded", "trip", "count", "close", "clear"}]
  /\ saw \in [Caller -> CircuitState]
  /\ resetAt \in {"idle", "failure", "success", "halfOpen"}
  /\ inSlot \subseteq Caller

BreakerInit ==
  /\ circuit = "closed"
  /\ failureCount = 0 /\ successCount = 0 /\ halfOpenRequests = 0
  /\ recovered = FALSE /\ mutex = Nobody
  /\ at = [c \in Caller |-> "idle"]
  /\ saw = [c \in Caller |-> "closed"]
  /\ resetAt = "idle"
  /\ inSlot = {}

Goto(c, l) == at' = [at EXCEPT ![c] = l]

(* RecoveryTimeout has passed since the last failure.                       *)
RecoveryTimeout ==
  /\ ~ recovered /\ circuit = "open"
  /\ recovered' = TRUE
  /\ UNCHANGED <<circuit, counters, mutex, at, saw, resetAt, inSlot>>
-----------------------------------------------------------------------------
(* beforeRequest.  A call that is turned away at once changes nothing.      *)

BeforeRequest(c) ==
  /\ at[c] = "idle"
  /\ \/ circuit = "closed" /\ Goto(c, "running")
     \/ circuit = "open" /\ recovered /\ Goto(c, "lock")
     \/ circuit = "halfOpen" /\ Goto(c, "limit")
  /\ UNCHANGED <<circuit, counters, recovered, mutex, saw, resetAt, inSlot>>

(* The state first, its counters after it.                                  *)
ToHalfOpen(c) ==
  /\ at[c] = "lock" /\ mutex = Nobody
  /\ IF circuit = "open"
       THEN circuit' = "halfOpen" /\ mutex' = c /\ Goto(c, "zeroHalfOpen")
       ELSE UNCHANGED <<circuit, mutex>> /\ Goto(c, "limit")
  /\ UNCHANGED <<counters, recovered, saw, resetAt, inSlot>>

(* Mutant: the counter of the last half-open phase is kept.                 *)
ZeroHalfOpenNot(c) ==
  /\ at[c] = "zeroHalfOpen"
  /\ Goto(c, "zeroSuccess")
  /\ UNCHANGED <<circuit, counters, recovered, mutex, saw, resetAt, inSlot>>

ZeroHalfOpen(c) ==
  /\ at[c] = "zeroHalfOpen"
  /\ halfOpenRequests' = 0
  /\ Goto(c, "zeroSuccess")
  /\ UNCHANGED <<circuit, failureCount, successCount, recovered, mutex, saw, resetAt, inSlot>>

ZeroSuccess(c) ==
  /\ at[c] = "zeroSuccess"
  /\ successCount' = 0 /\ mutex' = Nobody
  /\ Goto(c, "limit")
  /\ UNCHANGED <<circuit, failureCount, halfOpenRequests, recovered, saw, resetAt, inSlot>>

CheckHalfOpenLimit(c) ==
  /\ at[c] = "limit"
  /\ halfOpenRequests' = halfOpenRequests + 1
  /\ inSlot' = inSlot \cup {c}
  /\ Goto(c, IF halfOpenRequests' > MaxHalfOpenRequests THEN "reject" ELSE "running")
  /\ UNCHANGED <<circuit, failureCount, successCount, recovered, mutex, saw, resetAt>>

Reject(c) ==
  /\ at[c] = "reject"
  /\ halfOpenRequests' = halfOpenRequests - 1
  /\ inSlot' = inSlot \ {c}
  /\ Goto(c, "idle")
  /\ UNCHANGED <<circuit, failureCount, successCount, recovered, mutex, saw, resetAt>>
-----------------------------------------------------------------------------
(* afterRequest loads the state anew: it need not be the one the call was   *)
(* let through in.                                                          *)

AfterRequest(c) ==
  /\ at[c] = "running"
  /\ saw' = [saw EXCEPT ![c] = circuit]
  /\ inSlot' = IF circuit = "halfOpen" THEN inSlot ELSE inSlot \ {c}
  /\ \/ Goto(c, IF circuit = "open" THEN "idle" ELSE "succeeded") /\ UNCHANGED recovered
     \/ Goto(c, IF circuit = "open" THEN "idle" ELSE "failed") /\ recovered' = FALSE
  /\ UNCHANGED <<circuit, counters, mutex, resetAt>>

RecordFailure(c) ==
  /\ at[c] = "failed"
  /\ IF saw[c] = "closed"
       THEN /\ failureCount' = failureCount + 1
            /\ Goto(c, IF failureCount' >= FailureThreshold THEN "trip" ELSE "idle")
            /\ UNCHANGED <<halfOpenRequests, inSlot>>
       ELSE /\ halfOpenRequests' = halfOpenRequests - 1
            /\ inSlot' = inSlot \ {c}
            /\ Goto(c, "trip")
            /\ UNCHANGED failureCount
  /\ UNCHANGED <<circuit, successCount, recovered, mutex, saw, resetAt>>

(* Under the mutex: only from the state that was loaded.                    *)
ToOpen(c) ==
  /\ at[c] = "trip" /\ mutex = Nobody
  /\ circuit' = IF circuit = saw[c] THEN "open" ELSE circuit
  /\ Goto(c, "idle")
  /\ UNCHANGED <<counters, recovered, mutex, saw, resetAt, inSlot>>

RecordSuccess(c) ==
  /\ at[c] = "succeeded"
  /\ IF saw[c] = "closed"
       THEN /\ failureCount' = 0
            /\ Goto(c, "idle")
            /\ UNCHANGED <<halfOpenRequests, inSlot>>
       ELSE /\ halfOpenRequests' = halfOpenRequests - 1
            /\ inSlot' = inSlot \ {c}
            /\ Goto(c, "count")
            /\ UNCHANGED failureCount
  /\ UNCHANGED <<circuit, successCount, recovered, mutex, saw, resetAt>>

CountSuccess(c) ==
  /\ at[c] = "count"
  /\ successCount' = successCount + 1
  /\ Goto(c, IF successCount' >= SuccessThreshold THEN "close" ELSE "idle")
  /\ UNCHANGED <<circuit, failureCount, halfOpenRequests, recovered, mutex, saw, resetAt,
                 inSlot>>

ToClosed(c) ==
  /\ at[c] = "close" /\ mutex = Nobody
  /\ IF circuit = "halfOpen"
       THEN circuit' = "closed" /\ mutex' = c /\ Goto(c, "clear")
       ELSE UNCHANGED <<circuit, mutex>> /\ Goto(c, "idle")
  /\ UNCHANGED <<counters, recovered, saw, resetAt, inSlot>>

ClearFailures(c) ==
  /\ at[c] = "clear"
  /\ failureCount' = 0 /\ mutex' = Nobody
  /\ Goto(c, "idle")
  /\ UNCHANGED <<circuit, successCount, halfOpenRequests, recovered, saw, resetAt, inSlot>>

CallerStep(c) ==
  \/ BeforeRequest(c) \/ ToHalfOpen(c) \/ ZeroHalfOpen(c) \/ ZeroSuccess(c)
  \/ CheckHalfOpenLimit(c) \/ Reject(c)
  \/ AfterRequest(c) \/ RecordFailure(c) \/ ToOpen(c)
  \/ RecordSuccess(c) \/ CountSuccess(c) \/ ToClosed(c) \/ ClearFailures(c)
-----------------------------------------------------------------------------
(* Reset: the state and the three counters, one store after the other.      *)

ResetState ==
  /\ resetAt = "idle" /\ mutex = Nobody
  /\ circuit' = "closed" /\ mutex' = Resetter /\ resetAt' = "failure"
  /\ UNCHANGED <<counters, recovered, at, saw, inSlot>>

ResetCounters ==
  /\ \/ /\ resetAt = "failure"
        /\ failureCount' = 0 /\ resetAt' = "success"
        /\ UNCHANGED <<successCount, halfOpenRequests, mutex>>
     \/ /\ resetAt = "success"
        /\ successCount' = 0 /\ resetAt' = "halfOpen"
        /\ UNCHANGED <<failureCount, halfOpenRequests, mutex>>
     \/ /\ resetAt = "halfOpen"
        /\ halfOpenRequests' = 0 /\ resetAt' = "idle" /\ mutex' = Nobody
        /\ UNCHANGED <<failureCount, successCount>>
  /\ UNCHANGED <<circuit, recovered, at, saw, inSlot>>

BreakerNext ==
  \/ \E c \in Caller : CallerStep(c)
  \/ ResetState \/ ResetCounters \/ RecoveryTimeout

BreakerSpec == BreakerInit /\ [][BreakerNext]_breakerVars
-----------------------------------------------------------------------------
(* A half-open breaker counts no more requests than there are: each one it  *)
(* counts is under way or about to be turned away.  A slot that is never    *)
(* given back would make it turn every request away for ever, since only a  *)
(* request moves it out of half-open (circuit_breaker.go:147-176: the state *)
(* is stored before the counter is reset; 181, 204, 220: a request ends in  *)
(* a state it was not let through in).                                      *)
Resetting == \E c \in Caller : at[c] = "zeroHalfOpen"

NoSlotLeaks ==
  circuit = "halfOpen" /\ ~ Resetting => halfOpenRequests <= Cardinality(inSlot)
=============================================================================

SPECIFICATION MCSpec
CONSTANTS
  e1 = e1  e2 = e2  k1 = k1
  Event = {e1, e2}
  NoEvent = NoEvent
  Backlog = Backlog
  Trigger = {t1, t2, t3}
  FromFiles = {t1, t2}
  Accepts <- AcceptsAll
  Key = {k1}
  NoKey = NoKey
  KeyOf <- OneKey
  QueueSize = 1
  BatchSize = 1
  MaxStarts = 2
  Caller = {c1, c2}
  Nobody = Nobody
  Resetter = Resetter
  FailureThreshold = 2
  SuccessThreshold = 2
  MaxHalfOpenRequests = 1
  Host = {h1}
  User = {u1, u2, u3}
  Client = {n1, n2, n3}
  NoClient = NoClient
  MaxSetupFails = 1
INVARIANT TypeOK
INVARIANT AcceptedOrQueued
INVARIANT OncePerWindow
INVARIANT NoSlotLeaks
INVARIANT PoolIsSound
PROPERTY AcceptedIsDispatched
CHECK_DEADLOCK FALSE

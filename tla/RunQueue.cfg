SPECIFICATION MCSpec
CONSTANTS
  r1 = r1  r2 = r2  r3 = r3
  p1 = p1  p2 = p2
  q1 = q1  q2 = q2
  Run = {r1, r2, r3}
  NoRun = NoRun
  Poller = {p1, p2}
  Executor = {e1}
  Request = {q1, q2}
  MaxFaults = 1
INVARIANT TypeOK
INVARIANT ClaimedOnce
INVARIANT NoRunIsForgotten
PROPERTY QueuedRunStarts
PROPERTY StopEndsOrSticks
CHECK_DEADLOCK FALSE

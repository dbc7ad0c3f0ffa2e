\* A flow of two modules and one request to cancel the run.
CONSTANTS
  c1 = c1  c2 = c2
  Modules = 2
  Steps = 1
  Canceller = {c1}
  Kinds = {"flow"}
  NoLevel = NoLevel
  NoProc = NoProc
SPECIFICATION Spec
INVARIANTS CancelReachesRun
CHECK_DEADLOCK FALSE

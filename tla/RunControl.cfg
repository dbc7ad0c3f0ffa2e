\* A module of two steps or a flow of two, and two requests to cancel the run.
\* A run that has ended stops.
CONSTANTS
  c1 = c1  c2 = c2
  Modules = 2
  Steps = 2
  Canceller = {c1, c2}
  Kinds = {"flow", "module"}
  NoLevel = NoLevel
  NoProc = NoProc
SPECIFICATION FairSpec
INVARIANTS TypeOK WaitedForIsTracked CancelFindsTheCall NoProcessLeftBehind RecordedIsCurrent
PROPERTIES CancelledCallReturns
CHECK_DEADLOCK FALSE

\* The run is cancelled before a step that others depend on starts.
CONSTANTS
  fork = fork  left = left  right = right  join = join  side = side
  Step <- Chain
  DependsOn <- ChainDeps
  MaxConcurrency = 2
  ContinueOnError = {}
  CanFail = {}
  CanSkip = {}
  Cancellable = TRUE
  NoStep = NoStep
SPECIFICATION FairSpec
PROPERTIES Termination
\* A cancelled or skipped module can stop for good (Termination).
CHECK_DEADLOCK FALSE

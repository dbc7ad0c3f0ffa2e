\* A step calls skip() while another one runs.
CONSTANTS
  fork = fork  left = left  right = right  join = join  side = side
  Step <- Chain
  DependsOn <- ChainDeps
  MaxConcurrency = 2
  ContinueOnError = {}
  CanFail = {}
  CanSkip = {side}
  Cancellable = FALSE
  NoStep = NoStep
SPECIFICATION FairSpec
PROPERTIES Termination
\* A cancelled or skipped module can stop for good (Termination).
CHECK_DEADLOCK FALSE

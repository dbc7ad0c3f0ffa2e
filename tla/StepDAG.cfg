\* Steps may fail, skip or continue on error, and the run may be cancelled.
CONSTANTS
  fork = fork  left = left  right = right  join = join  side = side
  Step <- Diamond
  DependsOn <- DiamondDeps
  MaxConcurrency = 2
  ContinueOnError = {left}
  CanFail = {left, right}
  CanSkip = {fork, side}
  Cancellable = TRUE
  NoStep = NoStep
SPECIFICATION FairSpec
INVARIANTS TypeOK ResultIsHonest LoopIsNeverStuck
PROPERTIES TerminatesUnstopped ImplementsOrder
\* A cancelled or skipped module can stop for good (Termination).
CHECK_DEADLOCK FALSE

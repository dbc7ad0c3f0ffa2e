\* Two modules share the coordinator; one write may fail.
CONSTANTS
  s1 = s1  s2 = s2  s3 = s3
  Step <- Steps
  Modules = 2
  IsFlow = TRUE
  ModuleOf <- TwoModules
  HookStep = {s3}
  TotalSteps = 2
  Artifact = {a1}
  FlushThreshold = 2
  Sinks = {"db", "redis"}
  MaxFaults = 1
  UseStop = TRUE
SPECIFICATION FairSpec
INVARIANTS TypeOK NeverStoredTwice NothingLost ProgressConserved
PROPERTIES FlushAllEmpties EventuallyStored FlowMovesOn

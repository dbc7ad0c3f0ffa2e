\* Two modules share the coordinator; nothing fails.
CONSTANTS
  s1 = s1  s2 = s2  s3 = s3
  Step <- Steps
  Modules = 2
  IsFlow = TRUE
  ModuleOf <- TwoModules
  HookStep = {s3}
  TotalSteps = 2
  Artifact = {}
  FlushThreshold = 2
  Sinks = {"db"}
  MaxFaults = 0
  UseStop = FALSE
SPECIFICATION FairSpec
INVARIANTS FlushedAtEnd

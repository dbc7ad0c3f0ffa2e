\* One task, two workers, one of which may crash and one be stopped.  There
\* is nothing left to do when the task is done and no worker is registered.
CONSTANTS
  t1 = t1  t2 = t2  w1 = w1  w2 = w2
  Task = {t1}
  Worker = {w1, w2}
  MaxCrashes = 1
  MaxStops = 1
  NoTask = NoTask
  NoWorker = NoWorker
SPECIFICATION FairSpec
INVARIANTS TypeOK NoTaskVanishes QueuedOnce EntryLeadsToHolder TasksStayWithTheLiving
PROPERTIES CrashedEntriesCleared TasksComplete
CHECK_DEADLOCK FALSE

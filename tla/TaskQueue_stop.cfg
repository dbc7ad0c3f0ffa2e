\* Two workers, one of which is stopped; none crashes.
CONSTANTS
  t1 = t1  t2 = t2  w1 = w1  w2 = w2
  Task = {t1}
  Worker = {w1, w2}
  MaxCrashes = 0
  MaxStops = 1
  NoTask = NoTask
  NoWorker = NoWorker
SPECIFICATION FairSpec
PROPERTIES TasksSurvive
CHECK_DEADLOCK FALSE

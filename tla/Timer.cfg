SPECIFICATION Spec
CONSTANTS
  Threads = {t1, t2}
  MaxIOStarts = 2
  Waits = {w1, w2}
  MaxTime = 3
  MaxTimerStarts = 3
CHECK_DEADLOCK FALSE
INVARIANTS QueueWatched JoinsFinishedThreads
PROPERTIES WaitsResolve IOStops

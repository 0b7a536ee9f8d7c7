CONSTANTS
  Stop = Stop
  StartRoot = StartRoot
  Iterate = Iterate
  SetStopping = SetStopping
  Task = {t1, t2}
  LoopTask = {l1, l2}
SPECIFICATION Spec
CHECK_DEADLOCK FALSE
INVARIANTS CompletedOnce LoopWorkNeverLost RootStoppedBeforeDestroy
PROPERTY LoopProgresses

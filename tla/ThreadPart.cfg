CONSTANT MaxLaunches = 3
SPECIFICATION Spec
CHECK_DEADLOCK FALSE
INVARIANT JoinOnlyStopped
PROPERTIES LaunchResolves RequestedStopResolves

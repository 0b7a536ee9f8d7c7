SPECIFICATION Spec
CONSTANTS
  d = d
  x = x
  y = y
  z = z
  Interfaces = {d, x, y, z}
  Default = d
  Singletons = {x, z}
  Prio <- MCPrio
  Addr <- MCAddr
  Flags <- MCFlags
  Users = {u}
  Picked = {x}
INVARIANTS SelectionCurrent PointerUsable StorageBacked NothingMissed SingletonNotStarved SwapAssertionsHold
PROPERTIES StopServed
CHECK_DEADLOCK FALSE

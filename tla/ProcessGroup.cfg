SPECIFICATION GroupSpec
CONSTANTS
  Threads = {t1, t2}
  MaxIOStarts = 1
  Spawns = {p, q}
  Streamed = {p}
  Buffered = {q}
  MaxLines = 2
  MaxGroupStarts = 2
CHECK_DEADLOCK FALSE
INVARIANTS StreamsClosed
PROPERTIES SpawnsSettle

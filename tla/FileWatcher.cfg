SPECIFICATION Spec
CONSTANTS
  Files = {f, g, x}
  Ignored = {x}
  InitialAdd = TRUE
  MaxChanges = 4
  MaxStarts = 2
CHECK_DEADLOCK FALSE
INVARIANTS NoChangeLost DebouncePending
PROPERTIES ClientCatchesUp

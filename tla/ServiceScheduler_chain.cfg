SPECIFICATION Spec
CONSTANTS
  r = r  a = a  b = b  m = m  u = u  w = w
  Root = r
  Services <- ChainServices
  Parent <- ChainParent
  Head <- ChainHead
  Members = {}
  Usages <- PairUsages
  Used <- PairUsed
  User <- PairUser
  Weak = {w}
  Requested = {r, a, b}
  Async = {a, b}
  MaxHeld = 0
INVARIANTS CountersExact QueueSound NothingLeftBehind

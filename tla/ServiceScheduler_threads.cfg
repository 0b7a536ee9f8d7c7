SPECIFICATION FairSpec
CONSTANTS
  r = r  a = a  b = b  m = m  u = u  w = w
  Root = r
  Services <- ChainServices
  Parent <- ChainParent
  Head <- ChainHead
  Members = {}
  Usages <- ChainUsages
  Used <- ChainUsed
  User <- ChainUser
  Weak = {}
  Requested = {a, b}
  Async = {a}
  MaxHeld = 1
INVARIANTS UsesExact
PROPERTIES StopResolves

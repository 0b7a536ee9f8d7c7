SPECIFICATION Spec
CONSTANTS
  r = r  a = a  b = b  m = m  u = u  w = w
  Root = r
  Services <- ClusterServices
  Parent <- ClusterParent
  Head <- ClusterHead
  Members = {m}
  Usages = {}
  Used <- NoUse
  User <- NoUse
  Weak = {}
  Requested = {r, a, b}
  Async = {a, m, b}
  MaxHeld = 0
INVARIANTS CountersExact
PROPERTIES LifecycleSpec

SPECIFICATION Spec
CONSTANTS
  t1 = t1  t2 = t2  t3 = t3
  c1 = c1  c2 = c2
  Threads <- ThreeThreads
  Cookies <- TwoCookies
  ListHead = ListHead
  NULL = NULL
SYMMETRY Symmetric
INVARIANTS IteratorsLive NoLateCall CookiesAreNodes
PROPERTIES IsRegistry

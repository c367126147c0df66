SPECIFICATION Spec
CONSTANTS
  h1 = h1  h2 = h2  s1 = s1  s2 = s2  c1 = c1  c2 = c2  w1 = w1
  Operations = {h1, h2}
  Scopes = {s1, s2}
  ScopeOf <- TwoScopes
  NoOperation = NoOperation
  Calls = {c1, c2}
  Watchers = {w1}
  MaxWaiters = 1
  TTL = 1
  WaitTime = 2
  RetainTTL = 1
  MaxEntries = 2
  MaxRequests = 3
  MaxTime = 3
SYMMETRY Symmetry
CHECK_DEADLOCK FALSE
INVARIANTS
  TypeOK
  ApprovalsSound
  OneLivePerOperation
  StatusIsTrue
  NoLostWakeup
PROPERTIES
  ImplementsLifecycle

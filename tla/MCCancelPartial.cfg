\* An environment is cancelled when one of its plugins has connected.
CONSTANTS
  s = s
  d = d
  m = m
  l1 = l1
  l2 = l2
  None = None
  Plugins = {s, m}
  Servers = {s}
  Provider <- NoProvider
  Plans = {l1, l2}
  Target <- BothPlans
  Retries = {}
  MaxConcurrency = 1
  Requests <- MCCancel
  MaxRequests = 1
  MaxLosses = 0
  Overlapping = TRUE
SPECIFICATION Spec
CHECK_DEADLOCK FALSE
INVARIANT ConnectedHasSession

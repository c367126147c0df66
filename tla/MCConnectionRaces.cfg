\* A server and a plugin behind it, a single permit and a session that may be
\* lost; requests may overlap in every way.
CONSTANTS
  s = s
  d = d
  m = m
  l1 = l1
  l2 = l2
  None = None
  Plugins = {s, d}
  Servers = {s}
  Provider <- MCProvider
  Plans = {l1, l2}
  Target <- TwoPlans
  Retries = {l2}
  MaxConcurrency = 1
  Requests <- MCAll
  MaxRequests = 1
  MaxLosses = 1
  Overlapping = TRUE
SPECIFICATION LiveSpec
CHECK_DEADLOCK FALSE
INVARIANTS PermitsExact SessionsOwned
PROPERTIES  CleanupSparesNewSessions PlansEnd

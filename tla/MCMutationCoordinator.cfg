SPECIFICATION FairSpec
CONSTANTS
  e1 = e1  e2 = e2  p1 = p1  p2 = p2
  o1 = o1  o2 = o2  o3 = o3  w1 = w1  w2 = w2
  Environments = {e1, e2}
  Projects = {p1}
  ProjectOf <- TwoEnvironments
  Operations = {o1, o2, o3}
  Owners = {w1, w2}
  Unowned = Unowned
INVARIANTS
  TypeOK
  ScopesIsolated
PROPERTIES
  WaitsEnd
  ImplementsLock

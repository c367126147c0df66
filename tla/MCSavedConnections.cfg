CONSTANTS
  p1 = p1
  p2 = p2
  bA = bA
  bB = bB
  s1 = s1
  s2 = s2
  Plugins = {p1, p2}
  Bindings = {bA, bB}
  Secrets = {s1, s2}
  NoSecret = NoSecret
  Unreadable = Unreadable
  NoEntry = NoEntry
  NoRecord = NoRecord
  NoSave = NoSave
  NoMirror = NoMirror
  MaxRevision = 4
  MaxDamage = 1
  None = None
  a1 = a1
  a2 = a2
  d1 = d1
  d2 = d2
  d3 = d3
  Dials = {d1, d2, d3}
  HangUps = {a1, a2}
  Asks = {a1, a2}
  MaxTerminals = 2
  MaxConnections = 2
  MaxConfigs = 2
SPECIFICATION AllSpec
SYMMETRY AllSymmetry
INVARIANTS AllOrNothing OrphanCovered RecoveryDecides
PROPERTIES NeighboursUntouched SessionsKeep

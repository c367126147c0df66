CONSTANTS
  p1 = p1
  p2 = p2
  bA = bA
  bB = bB
  s1 = s1
  s2 = s2
  Plugins = {p1}
  Bindings = {bA, bB}
  Secrets = {s1, s2}
  NoSecret = NoSecret
  Unreadable = Unreadable
  NoEntry = NoEntry
  NoRecord = NoRecord
  NoSave = NoSave
  NoMirror = NoMirror
  MaxRevision = 5
  MaxDamage = 0
SPECIFICATION Spec
INVARIANTS RestartCompletesCleanup

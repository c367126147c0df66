CONSTANTS
  a1 = a1
  a2 = a2
  v1 = v1
  v2 = v2
  v3 = v3
  Environments = {a1, a2}
  Values = {v1, v2, v3}
  Cloud = Cloud
  NoRun = NoRun
  NoPreview = NoPreview
  MaxEdits = 1
  None = None
  Blocks = 2
  MaxResumes = 1
  MaxRuns = 2
  MaxLosses = 1
  f1 = f1
  f2 = f2
  Files = {f1, f2}
  BatchBlocks = 2
  WindowBlocks = 2
  MaxBatches = 2
  Tabs = {a1, a2}
  MaxDrafts = 2
  MaxSaves = 2
  MaxCuts = 1
  Edits = {a1, a2}
  MaxChanges = 1
  u1 = u1
  u2 = u2
  Sources = {u1, u2}
  Secure = {u1}
  Drivers = {a1, a2}
  MaxActive = 1
SPECIFICATION MCSpec
SYMMETRY MCSymmetry
INVARIANT TypeOK
PROPERTIES OnlyItsRecordWrites HandEditsKept ImplementsAtomic ChangesKeep

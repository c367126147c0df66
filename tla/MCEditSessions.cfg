\* Two edits, one after the other or at once, of one window.
CONSTANTS
  None = None
  a1 = a1
  a2 = a2
  Edits = {e1, e2}
  Windows = {w1}
  Addresses = {a1, a2}
  Stored <- MCStored
  Submitted <- MCSubmitted
  MaxChecks = 2
  MaxGeneration = 1
  Worked = {e1}
  MaxRevision = 2
SPECIFICATION LiveSpec
CHECK_DEADLOCK FALSE
INVARIANTS FenceOwned Undisturbed
PROPERTIES ProvenKeys EditsSettle

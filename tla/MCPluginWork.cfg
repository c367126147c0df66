\* One tab with two plans and one broken connection; three attempts and two
\* disconnects of one plugin; four probes of a form.
CONSTANTS
  None = None
  Sessions = {s1}
  Scripts <- MCScripts
  MaxItems = 2
  MaxPlans = 2
  MaxLosses = 1
  Attempts = {a1, a2, a3}
  Leavers = {d1, d2}
  Nobody = Nobody
  Probes = {r1, r2, r3, r4}
  r1 = r1
  r2 = r2
  r3 = r3
  r4 = r4
  g1 = g1
  g2 = g2
SPECIFICATION MCLiveSpec
CHECK_DEADLOCK FALSE
INVARIANTS OutcomeTruthful AppliedOnce EditSparesTransactions
PROPERTIES AbandonedRollsBack OwnersKeep

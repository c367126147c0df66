CONSTANTS
  t1 = t1
  t2 = t2
  t3 = t3
  t4 = t4
  k1 = k1
  k2 = k2
  Tasks = {t1, t2, t3, t4}
  Keys = {k1, k2}
  KeyOf <- MCKeyOf
  Size <- MCSize
  Patient = {t2, t3}
  MaxConcurrent = 2
  MaxPerKey = 1
  MaxReserved = 4
  MaxQueued = 3
  MaxSession = 2
  l1 = l1
  l2 = l2
  None = None
  Callers = {c1, c2}
  Paths = {p1, p2}
  Linked = {p1}
  Reads = {11, 12}
  Channels = {21, 22}
  MaxDirectories = 2
  MaxEntries = 1
  MaxIdle = 1
  Askers = {a1, a2, a3}
  Listings = {l1, l2}
  Bytes <- MCBytes
  MaxBytes = 2
  MaxListings = 2
  MaxPending = 1
  MaxVersion = 1
  MaxCleared = 1
SPECIFICATION MCLiveSpec
INVARIANT PoolExact
PROPERTIES  NoOvertaking PatientServed ReadsOwned

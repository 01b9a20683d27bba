SPECIFICATION LimiterSpec
CONSTANTS
  k1 = k1
  k2 = k2
  r1 = r1
  r2 = r2
  r3 = r3
  r4 = r4
  r5 = r5
  Keys = {k1, k2}
  Requests = {r1, r2, r3, r4, r5}
  Limit = 1
  Burst = 1
  Window = 3
  MaxEntries = 0
  MaxDelay = 1
  MaxTime = 7
SYMMETRY Symmetry
CONSTRAINT TimeBound
INVARIANTS
  LimiterInv
  WindowsDoNotOverlap
  AtMostTwoWindows

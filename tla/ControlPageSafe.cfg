CONSTANTS
  b1 = b1
  b2 = b2
  v1 = v1
  v2 = v2
  g1 = g1
  Bands <- MCBands
  Values <- MCValues
  Gains <- MCGains
  Dies = TRUE
  Crashes = FALSE
  Rejects = FALSE
  MaxRetry = 1
  MaxReq = 2
  MaxPg = 1
  MaxStarts = 1
SPECIFICATION Spec
CHECK_DEADLOCK FALSE
SYMMETRY Symmetry
INVARIANTS
  NewestIsWhole

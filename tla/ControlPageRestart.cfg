CONSTANTS
  b1 = b1
  b2 = b2
  v1 = v1
  v2 = v2
  g1 = g1
  Bands <- MCBands
  Values <- MCValues
  Gains <- MCGains
  Dies = TRUE
  Crashes = TRUE
  Rejects = TRUE
  MaxRetry = 1
  MaxReq = 1
  MaxPg = 1
  MaxStarts = 2
SPECIFICATION FairSpec
CHECK_DEADLOCK FALSE
PROPERTIES
  NothingGoesBack
  RequestsAreAcked

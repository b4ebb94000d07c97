SPECIFICATION StreamsSpec
CONSTANTS
  N = 3
  P = 2
  Refuses = TRUE
  MaxFrames = 17
  MaxLives = 2
  Tries = 2
  Wrap = 4
  MaxPulled = 12
  Fragments = 3
  F = 2
  MaxUnits = 8
  MaxTurns = 3
CONSTRAINT Followed
INVARIANTS StreamsAreWhole DrainEnds
PROPERTIES PointerIsTheDevices
CHECK_DEADLOCK FALSE

CONSTANTS
  Prime = 641
  Root = 7
  Stride = 13
  BlockLen = 4
  Edge = 1
  Ramp = 2
  Groups = 3
  Loudest = 2
  MaxPlayed = 3
  PrimaryDepth = 2
  SecondaryDepth = 3
  IntegratorDepth = 3
  InputDepth = 2
  RmsDepth = 3
  MaxCounter = 3
  Bottom = 2
  MaxCalls = 9
  Peaks = {0, 2, 4}
  Limit = 1
  Ease = 1
  Floor = 1
  Top = 4
  Width = 2
  Alpha = 2
  Taps = 4
  MaxSteps = 13
  HoldLimit = 2
  RingSize = 2
  Every = 2
  MaxBlocks = 5
  Profiles = {"dynamic", "movie", "personalize"}
  Eqs = {1, 2}
  Block = 2
  Chunk = 3
  Sizes = {1, 4}
  MaxFrames = 9
  MaxAsks = 2
  MaxFaults = 1
  Depth = 6
  Period = 2
  Steps = {2, 3, 5}
  MaxUpdates = 30
SPECIFICATION EngineSpec
INVARIANTS
  AppliedWhole
  DelayIsFixed
  FramesAreWhole
  NeverOverLimit
  HistoriesAreWhole
  EventForgets
  BinsAreDft

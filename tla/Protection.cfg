SPECIFICATION CardSpec
CONSTANTS
  Module = {"a", "b", "c", "d"}
  Mixer = {"m"}
  Stage = {"sp", "spvi"}
  Files <- MCFiles
  Flaws = {"sub", "cont", "mod", "cfg", "links", "stages", "kind", "event", "control"}
  Gain = {0, 1}
  None = None
  SpeakerGraph = "g"
INVARIANTS ProtectedOrBypassed FollowsFile GainIsHeard
PROPERTY EnabledWhole
CHECK_DEADLOCK FALSE

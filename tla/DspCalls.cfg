CONSTANTS
  Caller = {c1, c2}
  Op = {setcfg, unmap}
  Silent = {unmap}
  Data = TRUE
  Slow = TRUE
  None = None
  MaxCmd = 2
  MaxData = 2
  Faulty = TRUE
  MaxPauses = 3
  MaxMark = 1
  MaxBinds = 2
  MaxOpens = 1
  MaxSlow = 1
  Shapes <- Forms
  MaxContainers = 2
  MaxModules = 3
  MaxChannels = 4
  InjectSizes = {1, 7, 8, 1024, 1025}
  Kinds = {"logging", "pcm", "display port", "i2s", "shared memory", "gain", "codec dma", "sal", "mfc", "gapless", "sp", "vi"}
  Formats = {"pcm", "mp3", "aac", "flac", "opus"}
SPECIFICATION CallsSpec
INVARIANTS
  PauseIsAgreed
  MapsFollowBuffers
  PacketsAreRead
PROPERTIES
  AnswersAreReal
  EveryCallEnds

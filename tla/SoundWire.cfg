SPECIFICATION EitherSpec
CONSTANTS
    Streams = {"render", "vi"}
    Amps = {left, right}
    Slaves = {left, right}
    Swr = swr
    MaxFaults = 2
    Paths = {rx0, rx1}
    Left = rx0
    MaxPuts = 2
    MaxChanges = 2
    Dais = {"render", "cps"}
    AmpSeq <- AmpsInOrder
    PortMap <- BoardPorts
    MaxPort = 13
    MaxBroken = 1
    MaxSwitches = 1
    MaxOrphans = 1
INVARIANTS PortsFollowStreams Clocked StatusIsSeen MacroIsWhole
    RuntimesAreWhole

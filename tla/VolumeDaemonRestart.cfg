SPECIFICATION FairSpec
CONSTANTS
    Levels = 2
    Targets = {TRUE, FALSE}
    Faults = {}
    QuickReopen = FALSE
    Exits = TRUE
    MaxNodes = 3
    MaxEvents = 1
    None = None
INVARIANT VolumeIsUsers
PROPERTY ComesToRest

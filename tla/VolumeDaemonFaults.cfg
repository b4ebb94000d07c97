SPECIFICATION Spec
CONSTANTS
    Levels = 2
    Targets = {TRUE}
    Faults = {"mute", "volume", "gainstep"}
    QuickReopen = TRUE
    Exits = TRUE
    MaxNodes = 1
    MaxEvents = 1
    None = None
INVARIANT NeverFull
INVARIANT FailsSafe

SPECIFICATION Spec
CONSTANTS
    Retries = 2
    MaxFailures = 1
    MaxMishaps = 2
INVARIANTS CacheIsChip OnlyDriven NoDeadlock

SPECIFICATION Spec
CONSTANTS
    wide = wide
    light = light
    fallback = fallback
    Runs = {wide, light, fallback}
    MaxWorkers = 3
    MaxMemory = 5
    MinMemory = 2
    MaxTasks = 4
    Percent <- MCPercent
    Accelerated <- MCAccelerated
    Budget <- MCBudget
INVARIANTS
    TypeOK
    ExactAccounting
    EveryRunIsRunnable
    ReservedWorkNeverQueues
PROPERTIES
    WaitingEnds
CHECK_DEADLOCK FALSE

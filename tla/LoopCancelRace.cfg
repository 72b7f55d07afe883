\* The smallest turn that runs a tool.
CONSTANTS
    Hooks = TRUE
    Faults = FALSE
    MaxIterations = 1
    StopLimit = 0
    ReminderInterval = 1
    MaxRestarts = 0
    MaxBatch = 1
    MaxTurns = 1
    MaxCrashes = 0
SPECIFICATION Spec
PROPERTIES
    NothingStartsAfterCancel
CHECK_DEADLOCK FALSE

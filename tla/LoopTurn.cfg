\* One turn: four model calls, two tool calls each, hooks, reminders, two Stop
\* continuations, one stale receipt.
CONSTANTS
    Hooks = TRUE
    Faults = FALSE
    MaxIterations = 4
    StopLimit = 2
    ReminderInterval = 2
    MaxRestarts = 1
    MaxBatch = 2
    MaxTurns = 1
    MaxCrashes = 0
SPECIFICATION FairSpec
INVARIANTS
    TurnsEndWell
PROPERTIES
    CancelEndsTurn
\* The last turn may end and no other begin.
CHECK_DEADLOCK FALSE

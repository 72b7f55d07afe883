\* Two turns of one model call and two tool calls over one session: failing
\* appends, a stale receipt, a reminder, one crash inside or between them.
CONSTANTS
    Hooks = TRUE
    Faults = TRUE
    MaxIterations = 1
    StopLimit = 0
    ReminderInterval = 1
    MaxRestarts = 1
    MaxBatch = 2
    MaxTurns = 2
    MaxCrashes = 1
SPECIFICATION Spec
INVARIANTS
    TypeOK
    CallsArePaired
\* The last turn may end and no other begin.
CHECK_DEADLOCK FALSE

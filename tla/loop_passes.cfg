SPECIFICATION Spec
CONSTANTS
    TimeMax = 9
    TicksPerMs = 1
    Calls <- RunningCalls
    Timeouts <- ShortTimeouts
    Intervals <- HugeIntervals
    MaxTime = 2
    MaxTasks = 2
    MaxTimers = 2
    MaxCalls = 1
    MaxDepth = 1
INVARIANTS TypeOK ValidWhileHeld NotAsleepOnWork
PROPERTIES NoCatchingUp NoneOvertakenTwice PendingRunsWhatItFound
CHECK_DEADLOCK FALSE

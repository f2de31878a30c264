SPECIFICATION Spec
CONSTANTS
    TimeMax = 9
    TicksPerMs = 1
    Calls <- RunCall
    Timeouts <- NoTimeout
    Intervals <- ShortIntervals
    MaxTime = 1
    MaxTasks = 1
    MaxTimers = 1
    MaxCalls = 1
    MaxDepth = 1
PROPERTIES RunUntilQuit
CHECK_DEADLOCK FALSE

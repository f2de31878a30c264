SPECIFICATION FairSpec
CONSTANTS
    TimeMax = 9
    TicksPerMs = 1
    Calls <- RunningCalls
    Timeouts <- ShortTimeouts
    Intervals <- ShortIntervals
    MaxTime = 1
    MaxTasks = 2
    MaxTimers = 1
    MaxCalls = 2
    MaxDepth = 2
PROPERTIES QuitEndsRun WorkIsDone BoundedCallsEnd
CHECK_DEADLOCK FALSE

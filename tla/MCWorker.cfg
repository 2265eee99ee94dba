CONSTANTS
    MaxJobs = 10
SPECIFICATION WorkerSpec
INVARIANT SignalFindsSleeper
PROPERTIES ImplementsSlot
CHECK_DEADLOCK FALSE

SPECIFICATION LiveSpec
CONSTANTS
    Delays = {d, i}
    IdleOnly = {i}
    Timers = {t}
    Timeout = Timeout
    Prios = {0, 1, 2}
    MaxTriggers = 1
    MaxDepth = 4
INVARIANTS FlagMeansQueued PriorityOrder TimeoutArmed
PROPERTIES ProcessingEnds DelaySensorsRun

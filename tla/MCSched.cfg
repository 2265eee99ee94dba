SPECIFICATION LiveSpec
CONSTANTS
    Workers = {w1, w2}
    Clients = {c1, c2}
    Controllers = {c1}
    NoOne = NoOne
    Prios = {1, 2}
    MaxJobs = 2
    Allowances = {0, 2}
INVARIANTS CellsDisjoint LockOrder NothingRunsAfterDestruct
PROPERTIES ImplementsJobQueue WaitAllReturns

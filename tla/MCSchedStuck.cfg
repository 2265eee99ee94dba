SPECIFICATION LiveSpec
CONSTANTS
    Workers = {w1}
    Clients = {c1}
    Controllers = {c1}
    NoOne = NoOne
    Prios = {1}
    MaxJobs = 2
    Allowances = {}
PROPERTIES QueuedJobsRun

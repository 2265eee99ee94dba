SPECIFICATION LiveSpec
CONSTANTS
    Workers = {w1, w2, w3}
    Clients = {c1, c2}
    Controllers = {c1}
    NoOne = NoOne
INVARIANTS PromiseKept LoneWaiterWoken
PROPERTIES WaitReturns

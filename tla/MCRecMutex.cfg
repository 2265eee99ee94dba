CONSTANTS
    Threads = {t1, t2, t3, t4}
    NoThread = NoThread
    MaxLevel = 3
SPECIFICATION RecSpec
INVARIANT WaiterAwake
PROPERTIES ImplementsRecLock

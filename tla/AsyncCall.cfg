CONSTANTS
    Calls = {c1, c2}
    Threads = {t1, t2}
    PoolSize = 1
    AsyncFaults <- NoneOrOne
    None = None
    Owner = o
    Users = {u}
    MaxTasks = 2
    MaxUpdates = 2
    Early = {TRUE, FALSE}
SPECIFICATION MCSpec
INVARIANTS Sound ThreadSound
PROPERTIES WaitReturns ThreadServes
CHECK_DEADLOCK FALSE

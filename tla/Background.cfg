CONSTANTS
    Threads = {t1}
    Cors = {c1, c2, c3, c4}
    Main = Main
    NoThread = NoThread
    Sizes = {1, 2}
    MaxTasks = 3
    MaxLines = 3
    MaxSize = 1
    MaxDays = 2
    LogFaults <- OneFault
SPECIFICATION MCSpec
INVARIANTS Sound
PROPERTIES PoolRunsAll KeepsLines EndEnds
CHECK_DEADLOCK TRUE

CONSTANTS
    Conns = {c1, c2}
    Fds = {f1, f2}
    Buckets = 2
    MaxTasks = 1
    HandlerShuts = TRUE
    NoConn = NoConn
    NoFd = NoFd
SPECIFICATION FairSpec
INVARIANTS Sound IdleForATurn
PROPERTIES EventuallyDeleted
CHECK_DEADLOCK FALSE

CONSTANTS
    Conns = {c1}
    Fds = {f1}
    Buckets = 1
    MaxTasks = 1
    HandlerShuts = FALSE
    NoConn = NoConn
    NoFd = NoFd
SPECIFICATION FairSpec
PROPERTIES ShutThenDeleted
CHECK_DEADLOCK FALSE

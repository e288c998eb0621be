CONSTANTS
    Callers = {c1, c2}
    Addrs = {a1, a2}
    Fds = {1, 2}
    MaxRetry = 1
    Timeout = 2
    ConnectTimeout = 1
    MaxCalls = 3
    FaultSets <- OneFault
    NoCaller = NoCaller
SPECIFICATION FairSpec
INVARIANTS Sound
PROPERTIES TimeoutNotEarly CallReturns
CHECK_DEADLOCK FALSE

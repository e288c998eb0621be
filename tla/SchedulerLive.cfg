CONSTANTS
    Threads = {t1, t2}
    ServerFds = {s1, s2}
    ClientFds = {}
    Cors = {c1, c2}
    Batch = 1
    HandlersSleep = FALSE
    PeersReset = FALSE
    Main = Main
    NoCor = NoCor
    NoThread = NoThread
    NoFd = NoFd
SPECIFICATION FairSpec
PROPERTIES EventuallyResumed
CHECK_DEADLOCK FALSE

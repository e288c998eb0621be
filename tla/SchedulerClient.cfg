CONSTANTS
    Threads = {t1}
    ServerFds = {s1, s2}
    ClientFds = {k1}
    Cors = {c1, c2, c3}
    Batch = 1
    HandlersSleep = FALSE
    PeersReset = TRUE
    Main = Main
    NoCor = NoCor
    NoThread = NoThread
    NoFd = NoFd
SPECIFICATION Spec
SYMMETRY CorSymmetry
INVARIANTS OneWakeup
CHECK_DEADLOCK FALSE

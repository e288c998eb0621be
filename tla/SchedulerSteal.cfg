CONSTANTS
    Threads = {t1, t2}
    ServerFds = {s1, s2}
    ClientFds = {}
    Cors = {c1, c2, c3}
    Batch = 1
    HandlersSleep = TRUE
    PeersReset = FALSE
    Main = Main
    NoCor = NoCor
    NoThread = NoThread
    NoFd = NoFd
SPECIFICATION Spec
SYMMETRY Symmetry
INVARIANTS ExclusiveRun OneWakeup NoSpuriousClose NoWorkLeftAtWait IndInv
PROPERTIES ResumeSaved
CHECK_DEADLOCK FALSE

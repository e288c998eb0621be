CONSTANTS
    Threads = {t1}
    Cors = {c1, c2}
    Main = Main
    NoThread = NoThread
SPECIFICATION Spec
INVARIANTS MutualExclusion
CHECK_DEADLOCK TRUE

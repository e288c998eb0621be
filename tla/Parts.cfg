CONSTANTS
    Bytes = {1, 2}
    InitSize = 3
    MaxData = 3
    MaxSize = 12
    SendFails = FALSE
    Processes = {p1, p2}
    Consumers = {p2}
    MaxDiscovers = 1
    Services <- OneService
    RegistryFaults <- FaultSets
    Setters = {t1, t2}
    MaxCalls = 2
    Lists <- AddressLists
    Keys = {"k1", "k2", "k3"}
    ItemHash <- Hashes
    Replicas = 2
    RingPoint <- Ring
    KeyPoint <- KeyPlaces
    SizeBits = 8
    IntBits = 4
    MaxChoices = 3
    Digits = {0, 1, 2, 3}
    MsgReqLen = 3
    Methods <- ProtoMethods
    MaxRuns = 2
    MaxEdits = 1
SPECIFICATION MCSpec
INVARIANTS RegistrySound ConfigLoaded BalanceSound
PROPERTIES ImplementsQueue CountsUp GeneratorSound
CHECK_DEADLOCK FALSE

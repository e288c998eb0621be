CONSTANTS
    MaxStream = 2
    RpcRequests <- RpcSmall
    HttpRequests <- HttpSmall
    Services <- ServicesPlain
    Unparsable <- UnparsablePlain
    ServletCalls <- ServletsPlain
    GlobCalls <- GlobsPlain
    InitSize = 24
    Strays = {0, 3}
    CutAfterLine = FALSE
SPECIFICATION FairSpec
INVARIANTS Sound PackagesFit
PROPERTIES ImplementsChannel EventuallyReplied ShutIsClosed
CHECK_DEADLOCK FALSE

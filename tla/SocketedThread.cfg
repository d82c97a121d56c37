SPECIFICATION FairSpec
CONSTANTS
    Origins = {"read_first", "write_first", "auto", "func"}
    MaxOut = 3
    MaxIn = 3
    MaxArg = 2
    SockCap = 2
    RelayBuf = 2
    BoxedMayFail = TRUE
    Signals = {TRUE, FALSE}
INVARIANTS TypeOK InOrder EofIsTheEnd Alternates
PROPERTIES DropReturns DroppedThreadEnds
CHECK_DEADLOCK FALSE

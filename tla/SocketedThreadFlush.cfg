SPECIFICATION Spec
CONSTANTS
    Origins = {"read_first", "write_first", "auto"}
    MaxOut = 3
    MaxIn = 3
    MaxArg = 2
    SockCap = 2
    RelayBuf = 2
    BoxedMayFail = FALSE
    Signals = {FALSE}
INVARIANTS FlushSynchronizes
CHECK_DEADLOCK FALSE

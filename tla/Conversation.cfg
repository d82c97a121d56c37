SPECIFICATION ConvSpec
CONSTANTS
    Origins = {"read_first", "write_first", "auto"}
    MaxOut = 6
    MaxIn = 6
    MaxArg = 3
    SockCap = 3
    RelayBuf = 2
    BoxedMayFail = FALSE
    Signals = {TRUE, FALSE}
    Requests = {1, 2, 3}
    Replies = {1, 2, 3}
    Rounds = 2
INVARIANTS StallHasCause OthersStall
PROPERTIES ExchangeCompletes
CHECK_DEADLOCK FALSE

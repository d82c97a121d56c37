SPECIFICATION Spec
CONSTANTS
    MaxIn = 2
    MaxArg = 2
    PipeCap = 1
    PipeBuf = 1
    CopyBuf = 1
    ReaderMayFail = FALSE
    Signals = FALSE
    Calls = {"read", "read_exact"}
INVARIANTS TakeFindsThread

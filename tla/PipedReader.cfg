SPECIFICATION FairSpec
CONSTANTS
    MaxIn = 6
    MaxArg = 3
    PipeCap = 4
    PipeBuf = 3
    CopyBuf = 2
    ReaderMayFail = TRUE
    Signals = TRUE
    Calls = {"read", "read_exact", "read_to_end", "read_to_string"}
INVARIANTS TypeOK InOrder
PROPERTIES ImplementsReader CallsReturn

SPECIFICATION FairSpec
CONSTANTS
    MaxOut = 6
    MaxArg = 3
    PipeCap = 3
    CopyBuf = 2
    WriterMayFail = TRUE
    SpawnMayFail = TRUE
    Signals = TRUE
INVARIANTS TypeOK InOrder FlushSynchronizes
PROPERTIES ImplementsWriter CallsReturn

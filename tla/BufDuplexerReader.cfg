SPECIFICATION Spec
CONSTANTS
    Byte = {a, nl}
    NL = nl
    RCap = 2
    WCap = 2
    MaxOut = 1
    MaxIn = 4
    MaxArg = 3
    Calls = {"write", "read", "read_until", "fill_buf", "consume"}
INVARIANTS InConserved UntilStopsAtDelimiter
PROPERTIES FlushedBeforeRead

SPECIFICATION FairSpec
CONSTANTS
    Byte = {a, nl}
    NL = nl
    RCap = 0
    WCap = 2
    MaxOut = 4
    MaxIn = 0
    MaxArg = 3
    Calls = {"write", "write_all", "flush", "into_inner", "drop"}
INVARIANTS OutConserved CapacityKept FlushReachesSink
PROPERTIES DropNeverRewrites ImplementsChannel CallsReturn

SPECIFICATION Spec
CONSTANTS
    Byte = {a, nl}
    NL = nl
    RCap = 1
    WCap = 2
    MaxOut = 5
    MaxIn = 0
    MaxArg = 4
    Calls = {"write", "write_all", "read", "flush", "into_inner", "drop"}
INVARIANTS OutConserved CapacityKept StaleLineIsLast LinesRetried WriteAllSendsLines
PROPERTIES ImplementsChannel

SPECIFICATION FairSpec
CONSTANTS
    Handle = {h1, h2}
    Stranger = {x}
    Stream = {"stdin", "stdout", "stderr"}
    SpawnMayFail = TRUE
    MaxUses = 1
    NoOne = NoOne
INVARIANTS SoleOwner NoStrayThread
PROPERTIES RefusedHasCause CloseReturns LockedInTheEnd

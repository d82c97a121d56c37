SPECIFICATION Spec
CONSTANTS
    Handle = {h1, h2}
    Stranger = {x}
    Stream = {"stdout", "stderr"}
    SpawnMayFail = FALSE
    MaxUses = 1
    NoOne = NoOne
PROPERTIES RefusedOnlyIfOwned

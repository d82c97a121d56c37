SPECIFICATION Spec
CONSTANTS
    Stream = {s1, s2}
    Fd = {f1, f2, f3, f4, f5}
    NoFd = NoFd
SYMMETRY Symmetry
INVARIANTS HandleHeldLive NothingOutlives

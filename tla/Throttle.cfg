\* Two sends a second, enough goroutines to fill the two seconds of waiting.
SPECIFICATION Spec
CONSTANTS
    Procs = {p1, p2, p3, p4, p5}
    PerSecond = 2
    Grain = 2
SYMMETRY Symmetry
INVARIANTS
    TypeOK
    RateBound
    OneByOne
    RefusedBehindQueue

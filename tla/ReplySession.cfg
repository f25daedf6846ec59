\* Two updates of the owner overlap; every kind of failure.
SPECIFICATION Spec
CONSTANTS
    Mappings = {m1, m2}
    Procs = {p1, p2}
    Life = 1
    Faults = {"store", "api", "crash"}
    MaxTime = 2
    MaxSessions = 2
    MaxMessages = 2
SYMMETRY Symmetry
INVARIANTS
    TypeOK
    LatestChoice
    CancelIsFinal
    ExpiredStaysUnused
    RecordsBacked

\* One stranger, two concurrent checks, the cleanup and restarts.
SPECIFICATION Spec
CONSTANTS
    Users = {u1}
    Procs = {p1, p2}
    Windows <- MCWindows
    Micro = 2
    Retention = 6
    RequestTimeout = 2
    MaxTime = 7
    MaxEvents = 4
SYMMETRY Symmetry
INVARIANTS
    TypeOK
    WindowBound
    CleanupSparesChecks
    LimitJustified
    LimitedCountBacked
PROPERTY
    QuotaKept

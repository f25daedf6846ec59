\* Two messages of the owner overlap, with no failure at all.
SPECIFICATION Spec
CONSTANTS
    Mappings = {m1, m2}
    Procs = {p1, p2}
    Life = 1
    Faults = {}
    MaxTime = 2
    MaxSessions = 2
    MaxMessages = 3
INVARIANT OneMessage

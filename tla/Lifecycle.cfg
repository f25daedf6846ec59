SPECIFICATION Spec
CONSTANTS
    Keys <- MCKeys
    Required <- MCRequired
    Unit <- MCUnit
    Default <- MCDefault
    Windows <- MCWindows
    Given <- MCGiven
    Width = 5
    Unset = Unset
    Blank = Blank
    Junk = Junk
    Procs = {h1, h2}
    Owner = "owner"
    Retention = "days"
    Day = 3
INVARIANTS
    StartedSane
    InForceAsWritten
    CutOffLast
    LeavesNothingOpen
PROPERTY
    LateSignalStops

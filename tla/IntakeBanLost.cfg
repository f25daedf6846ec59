\* The owner bans a stranger whose temporary ban then expires.
SPECIFICATION Spec
CONSTANTS
    Users = {u1}
    Procs = {p1}
    Threshold = 2
    BanTicks = 2
PROPERTY OwnerBanStays

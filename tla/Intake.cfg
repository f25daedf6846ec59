\* Two messages of one stranger in progress while the owner decides and store
\* errors interfere; the stranger keeps writing.
SPECIFICATION FairSpec
CONSTANTS
    Users = {u1}
    Procs = {p1, p2}
    Threshold = 2
    BanTicks = 2
INVARIANTS
    TypeOK
    DecisionStays
    ForwardedWasNormal
    EndlessBlockIsOwners
    TemporaryBanEarned
PROPERTY
    TemporaryBanEnds

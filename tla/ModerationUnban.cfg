SPECIFICATION Spec
CONSTANTS
    OwnerID = 9
    Word = Word
    DefaultLimit = 10
    MaxLimit = 50
    Procs = {h1, h2}
    Stranger = 2
    Mapping = 1
    Updates <- MCUpdates
    Faults = {}
    MaxChat = 3
    MaxActs = 2
SYMMETRY Symmetry
INVARIANT
    UnbanOffered

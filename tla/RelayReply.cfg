\* The messages of two strangers, answered and ignored while they are relayed.
SPECIFICATION Spec
CONSTANTS
    u1 = u1
    u2 = u2
    m1 = m1
    m2 = m2
    Users = {u1, u2}
    Texts = {m1, m2}
    Media = {}
    AuthorOf <- MCAuthorOf
    Procs = {p1, p2}
    Faults = {"api"}
    MaxChat = 2
    MaxReplies = 2
SYMMETRY Symmetry
INVARIANTS
    ReplyReachesAuthor
    RecordedWasReceived
    BlockedGetsNoReply

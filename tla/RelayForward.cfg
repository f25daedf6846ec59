\* One stranger writes twice; calls to the store and to Telegram may fail.
SPECIFICATION Spec
CONSTANTS
    u1 = u1
    u2 = u2
    m1 = m1
    m2 = m2
    Users = {u1}
    Texts = {m1}
    Media = {m2}
    AuthorOf <- MCSameAuthorOf
    Procs = {p1, p2}
    Faults = {"store", "api"}
    MaxChat = 4
    MaxReplies = 0
SYMMETRY Symmetry
INVARIANTS
    TypeOK
    AckedIsAnswerable
    ButtonsMatch

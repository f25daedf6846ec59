\* One media message, with every kind of failure: errors, crashes and restarts,
\* the message delivered again.
SPECIFICATION Spec
CONSTANTS
    u1 = u1
    u2 = u2
    m1 = m1
    m2 = m2
    Users = {u1}
    Texts = {}
    Media = {m1}
    AuthorOf <- MCOneAuthorOf
    Procs = {p1, p2}
    Faults = {"store", "api", "crash"}
    MaxChat = 5
    MaxReplies = 0
SYMMETRY Symmetry
INVARIANTS
    CountsBacked
PROPERTY Conversed

SPECIFICATION Spec
CONSTANTS
    Chats = {c1}
    Users = {ann}
    Messages <- AllMessages
    MaxRevision = 2
    Tabs = {t1, t2}
    Turns = {n1, n2}
    MaxEpoch = 0
    MaxHistory = 1
INVARIANTS
    NothingClearedComesBack
    LocalHistoryMatchesRevision
    NoGenerationWhilePending
PROPERTIES
    RevisionNeverGoesBack
SYMMETRY Symmetry
CHECK_DEADLOCK FALSE

SPECIFICATION Spec
CONSTANTS
    Chats = {c1}
    Users = {root, ann}
    Messages = {m1}
    MaxRevision = 2
    Sessions = {s1, s2, s3}
    Requests = {q1, q2}
    Passwords = {p1, p2}
    FirstAdmin = root
    FirstPassword = p1
INVARIANTS
    StoredAtCurrentRevision
    NoOrphans
    EditsAreTheOwners
    NoSessionUnderOldPassword
    AnAdminRemains
PROPERTIES
    WritesNeedALiveSession
    HistoryGrowsOrIsCleared
SYMMETRY Symmetry
CHECK_DEADLOCK FALSE

SPECIFICATION Spec
CONSTANTS
    Chats = {c1}
    Users = {ann}
    Messages <- AllMessages
    MaxRevision = 1
    Tabs = {t1, t2}
    Turns = {n1}
    MaxEpoch = 0
    MaxHistory = 1
INVARIANTS
    FailedReconciliationKeepsSendsBlocked
SYMMETRY Symmetry
CHECK_DEADLOCK FALSE

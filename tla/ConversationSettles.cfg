SPECIFICATION Spec
CONSTANTS
    Chats = {c1}
    Users = {ann}
    Messages <- AllMessages
    MaxRevision = 1
    Tabs = {t1}
    Turns = {n1, n2}
    MaxEpoch = 2
    MaxHistory = 1
INVARIANTS
    SendButtonComesBack
PROPERTIES
    GenerationEnds
    LockedChatIsReleased
CHECK_DEADLOCK FALSE

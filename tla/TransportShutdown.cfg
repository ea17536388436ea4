\* What becomes of the writes that wait when the destructor begins.
SPECIFICATION FairSpec
CONSTANTS
    m1 = m1
    m2 = m2
    m3 = m3
    Messages = {m1, m2}
    Parts <- SmallParts
PROPERTIES
    PendingWritesComplete
CHECK_DEADLOCK FALSE

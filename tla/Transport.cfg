\* Messages of which one may be cut, for the socket or by it.
SPECIFICATION FairSpec
CONSTANTS
    m1 = m1
    m2 = m2
    m3 = m3
    Messages = {m1, m2, m3}
    Parts <- LongParts
INVARIANTS
    TypeOK
    HandshakeFirst
PROPERTIES
    IsFifo
    DestructorReturns
\* All messages may have been sent, or the transport destroyed.
CHECK_DEADLOCK FALSE

\* A conforming peer, and every way in which its stream can be cut.
SPECIFICATION FairSpec
CONSTANTS
    Headers <- SoundHeaders
    MaxArraySize = 8
    MaxMessageSize = 48
    BufferSize = 24
    StreamLength = 72
INVARIANTS
    TypeOK
    InOrder
    NothingHeldBack
    CacheIsTheRest
PROPERTIES
    ReceiveReturns
    Reassembles
\* After the end of the stream there is no further read.
CHECK_DEADLOCK FALSE

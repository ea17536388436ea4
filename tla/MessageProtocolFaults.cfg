\* A peer whose headers can be malformed or exceed the limits.
SPECIFICATION FairSpec
CONSTANTS
    Headers <- FaultyHeaders
    MaxArraySize = 8
    MaxMessageSize = 26
    BufferSize = 20
    StreamLength = 56
INVARIANTS
    WholeMessages
    RepeatedStaysCached
PROPERTY RepeatsOnlyFromCache
CHECK_DEADLOCK FALSE

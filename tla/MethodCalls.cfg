\* Two user threads and a callback that makes a call; the counter comes to the end of
\* its range, and the serials of its upper half cannot be read.
SPECIFICATION FairSpec
CONSTANTS
    NoCall = NoCall
    UserCalls = {u1, u2}
    CallbackCalls = {k1}
    SerialRange = 8
    MaxMessages = 7
    MaxAgain = 2
INVARIANTS
    TypeOK
    OwnReply
    AtMostOnce
    NothingLeftBehind
PROPERTIES
    RepliesFindCallbacks
    CallsEnd
\* All calls may have been made and answered.
CHECK_DEADLOCK FALSE

\* A counter of two bits, which wraps.
SPECIFICATION Spec
CONSTANTS
    NoCall = NoCall
    UserCalls = {u1, u2}
    CallbackCalls = {k1}
    SerialRange = 4
    MaxMessages = 4
    MaxAgain = 0
INVARIANTS
    SerialNeverZero
CHECK_DEADLOCK FALSE

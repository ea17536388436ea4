\* The handshake that negotiates the passing of descriptors.
SPECIFICATION FairSpec
CONSTANTS
    MaxInFlight = 3
    MaxMessages = 1
PROPERTIES
    BeginAfterAgree
CHECK_DEADLOCK FALSE

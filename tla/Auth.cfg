\* Both kinds of handshake, lines cut anywhere, and messages afterwards.
SPECIFICATION FairSpec
CONSTANTS
    MaxInFlight = 4
    MaxMessages = 3
INVARIANTS
    TypeOK
    NeverRefused
    MessagesReachProtocol
PROPERTIES
    BasicHandshakeCompletes
\* The handshake may be rejected, or over with all messages sent.
CHECK_DEADLOCK FALSE

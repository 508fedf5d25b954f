CONSTANTS
    ByteBits = 3
    WordBytes = 2
    MaxInt = 31
    MaxMessageSize = 7
    MaxProtocol = 3
    ProtocolString <- MCProtocolString
    NumPieces = 4
    InfoHash = 6
    Hellos <- MCHellos
    Messages <- MCMessages
    MaxMessages = 2
SPECIFICATION Spec
INVARIANTS
    TypeOK
    StrangersUnheard
    BelievesPeer
    HonestPeerKept
PROPERTIES
    ImplementsMessageStream
CHECK_DEADLOCK FALSE

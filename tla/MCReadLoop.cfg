CONSTANT
    MaxMessages = 3
SPECIFICATION FairSpec
INVARIANTS
    EOFAfterMessages
    NoSilentEnd
PROPERTIES
    GoroutinesEnd
    ImplementsMessageStream
CHECK_DEADLOCK FALSE

CONSTANTS
    MaxFiles = 3
    MaxLength = 2
SPECIFICATION SpansSpec
INVARIANTS
    BytesInPlace
    RoundTrip
    RangeServed
CHECK_DEADLOCK FALSE

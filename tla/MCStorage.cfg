CONSTANTS
    Pieces = {p, q, r}
    Processes = {one}
    MaxPartials = 2
SPECIFICATION Spec
INVARIANTS
    CompletedIsWhole
    KnownIsStored
PROPERTIES
    NeverOverwritten
    PartialKept
CHECK_DEADLOCK FALSE

CONSTANTS
    Pieces = {p}
    Processes = {one, two}
    MaxPartials = 2
SPECIFICATION Spec
PROPERTY
    NeverOverwritten
CHECK_DEADLOCK FALSE

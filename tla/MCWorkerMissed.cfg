CONSTANTS
    NumPieces = 1
    TotalLength = 3
    PieceLength = 3
    BlockSize = 2
    Workers = {w1, w2}
    Waiters = {w1, w2}
    Nil = Nil
SPECIFICATION Spec
SYMMETRY Symmetry
INVARIANT
    ReleasedPieceNoticed
CHECK_DEADLOCK FALSE

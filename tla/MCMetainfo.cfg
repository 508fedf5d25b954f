CONSTANTS
    Components <- MCComponents
    FileLengths <- MCFileLengths
    MaxDepth = 2
    MaxFiles = 3
    MaxHashes = 7
    MaxPieceLength = 4
    MaxInt64 = 7
    Devices <- MCDevices
SPECIFICATION Spec
INVARIANTS
    StaysInside
    FilesCoexist
    ConflictReal
    PiecesTile
CHECK_DEADLOCK FALSE

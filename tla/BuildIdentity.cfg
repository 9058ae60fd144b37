SPECIFICATION IdentitySpec
CONSTANTS
    FirstBuffer = 2
    LastBuffer = 8
    PathLengths = {1, 2, 3, 6, 7, 8, 9}
    FileLengths = {0, 1, 3}
    Chunk = 2
INVARIANTS HandlesInOrder RecognisedIsRunning RecognisedFits
CHECK_DEADLOCK FALSE

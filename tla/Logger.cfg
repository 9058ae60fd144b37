SPECIFICATION Spec
CONSTANTS
    Paths = {log, other}
    NoPath = none
    Lengths = {1, 3}
    Limits = {0, 4}
    Intervals = {0, 1}
    Word = 16
    Edits = {0, 3}
    Long = 1
    FileBound = 6
CONSTRAINT FilesBounded
INVARIANTS CountIsRight
PROPERTIES GrowsWithinLimit NoStaleLines

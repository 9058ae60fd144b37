SPECIFICATION CallsSpec
CONSTANTS
    BucketCount = 3
    Capacity = 8
    MinuteModulus = 8
    Alignment = 4
INVARIANTS
    NarrowedAsDealt
    StaysInList

SPECIFICATION Spec
CONSTANTS
    Images <- MCImages
    Signature <- MCSignature
    Place = 3
    Required = 4
    DosSize = 1
    NtSize = 1
    SectionSize = 1
    SectionLimit = 2
    Word = 16
INVARIANTS ReadsInside VerdictIsRight
CHECK_DEADLOCK FALSE

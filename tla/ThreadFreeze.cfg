CONSTANTS
    Threads = {t1, t2, t3, t4}
    Capacity = 3
    MaxPasses = 3
SPECIFICATION Spec
INVARIANTS NoneLeftSuspended
PROPERTIES IsAtomicFreeze AcquireAnswers

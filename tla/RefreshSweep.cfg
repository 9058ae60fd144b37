SPECIFICATION Spec
CONSTANTS
    BucketCount = 3
    Capacity = 8
    MinuteModulus = 8
    MaxCompanies = 7
INVARIANTS BalancedLoad
PROPERTIES
    ExactlyOncePerCycle
    RefreshedForever

SPECIFICATION CallsSpec
CONSTANTS
    Threads = {t1, t2}
    Resources = {"unwind", "allocation"}
    Periods = {60, 120}
    MaxLeaks = 1
INVARIANTS
    TypeOK
    RouteServed
    NoTornWindow
    LeaseRetainsResources
    AnswersTrue
    CallsInOrder
PROPERTIES
    PeriodImmutable
    KeepsLifetime
    KeepsOwnerContract
    CallReturns

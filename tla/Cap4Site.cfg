SPECIFICATION Cap4Spec
INVARIANTS
    PageAccounted
    NeverTorn
PROPERTIES
    HonouredContract
    ForeignBytesKept
    UnauthorizedChangesNothing
    IsPatchTransaction

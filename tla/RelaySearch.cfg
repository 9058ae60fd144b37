SPECIFICATION Spec
CONSTANTS
    Top = 31
    Granule = 4
    Page = 2
    SearchLimit = 12
    Rel32 = 13
    CallSize = 2
    Span = 3
    Targets <- MCTargets
    Game <- MCGame
INVARIANTS NoPageLost RelayInReach ExhaustedMeansNone

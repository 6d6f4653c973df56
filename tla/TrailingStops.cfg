CONSTANTS
    Prices = {2, 3, 5, 6, 8, 9}
    Atrs = {1, 2}
    InitialAtrMult = 1
    TrailAtrMult = 2
    Tick = 2
    MayMiss = TRUE
SPECIFICATION Spec
INVARIANTS
    PaperFollowsBacktest
PROPERTIES
    StopsRatchet

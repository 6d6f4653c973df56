SPECIFICATION Spec
CONSTANTS
    s1 = s1
    s2 = s2
    s3 = s3
    NotFinite = NotFinite
    Unit = 20
    Den = 20
    FrozenRisk = 5
    FrozenPortfolioRisk = 12
    FrozenLeverage = 2
    FrozenPositions = 3
    RiskQuestions <- MCQuestions
    SymbolOrder <- MCOrder
    Days = 3
    Candles <- MCCandles
    Signals <- MCSignals
    Constraints <- MCConstraints
    Params <- MCParams
    InitialCash = 8000
    FeeRate = 1
    FundingRates <- MCFunding
    Slip = 1
    SlipDen = 10
    InitialMult = 2
    TrailMult = 2
    InitialProcessed <- MCProcessed
    DailyShapes <- MCShapes
    Closes = {2, 5}
    MaxDays = 5
    WeekDays = 2
    MonthDays = 2
    Periods <- MCPeriods
    DefaultPeriods <- MCDefaultPeriods
INVARIANTS
    BooksAreRight
    ApprovedIsBestFit
    EntriesAreGrounded
PROPERTIES
    FillsAreFair
CHECK_DEADLOCK FALSE

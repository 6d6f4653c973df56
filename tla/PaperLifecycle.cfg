CONSTANTS
    Symbols = {"BTC", "ETH"}
    SignalTypes = {"BREAKOUT"}
    LastDay = 1
    Levels = {1, 2}
    EntryFee = 1
    ExitDeltas <- MCExitDeltas
    InitialCash = 1
    MaxOpenPositions = 1
    Restored <- MCRestored
    MaxDamage = 2
    MaxRuns = 1
SPECIFICATION MCSpec
INVARIANTS
    ExposureInv
    ChainInv
    RowsLegal
    WalletReconciles
    RestartNeverWedged
    RecoveryIsSafe
PROPERTIES
    NewRiskOnlyWhenAuthorized
    SettledNeverUndone

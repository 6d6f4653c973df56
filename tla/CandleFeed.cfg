SPECIFICATION Spec
CONSTANTS
    NDays = 4
    WeekDays = 2
    StartTick = 2
    MinDaily = 1
    MinWeekly = 0
    BufferSize = 2
    NetSize = 2
    MaxTrades = 3
    MaxFaults = 2
INVARIANTS
    ReadyIsTrue
PROPERTIES
    ClosedNeverRewritten
CHECK_DEADLOCK FALSE

SPECIFICATION Spec
CONSTANTS
    Procs = {p1, p2}
    Jobs = {j1}
    Payloads <- MCPayloads
    LastDay = 3
    MaxCalls = 3
    MaxCrashes = 1
    Exporters = {e1, e2}
    Aliases = {a1, a2}
    Fetches <- MCFetches
    ExportDays = 4
    WeekDays = 2
    MonthDays = 2
    Lengths = {0, 2}
    AsOfs = {3, 4, 6, 7}
    Ranges <- MCRanges
    Commits = {"c1"}
    MaxExports = 2
    Periods <- MCPeriods
    MonthShapes <- MCMonthShapes
    Classifier <- MCClassifier
    MonthStarts <- MCMonthStarts
    PlanRequests <- MCPlanRequests
    ConfidenceInputs <- MCConfidenceInputs
    EvidenceValues <- MCEvidenceValues
    FrozenParameters <- MCFrozenParameters
    Deltas <- MCDeltas
    ChildIds <- MCChildIds
    ChildOutcomes <- MCChildOutcomes
    PnlSeries <- MCPnlSeries
    Simulations = 3
    CostSpecs <- MCCostSpecs
INVARIANTS
    ImportsAreSound
    ExportsAreSound
    RegimesAreSound
    PlansAreSound
    ScoresAreEarned
PROPERTIES
    PastIsKept
    MoreNeverHurts
CHECK_DEADLOCK FALSE

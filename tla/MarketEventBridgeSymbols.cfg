CONSTANTS
    NumSymbols = 2
    LastDay = 0
    MaxLow = 1
    FillDelay = 1
    MaxFaults = 0
    MaxGeneration = 1
SPECIFICATION Spec
INVARIANTS
    CompletedMeansHandled

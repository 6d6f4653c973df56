CONSTANTS
    NumSymbols = 1
    LastDay = 1
    MaxLow = 1
    FillDelay = 1
    MaxFaults = 2
    MaxGeneration = 1
SPECIFICATION LiveSpec
INVARIANTS
    OnceAndInOrder
    PollsAreAtomic
    CompletedMeansHandled
PROPERTIES
    OpenEventuallySettled
    PermanentBlocksFill

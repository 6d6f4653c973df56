SPECIFICATION Spec
CONSTANTS
    Procs = {p1, p2}
    RequestProcs = {p1}
    Kinds = {"experiment", "suite", "bootstrap"}
    NChildren = 2
    MaxThreads = 3
    MaxCrashes = 2
INVARIANTS
    AtMostOneRunner
    ReportsAreBacked
PROPERTIES
    ImplementsContract
CHECK_DEADLOCK FALSE

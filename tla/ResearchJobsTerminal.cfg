SPECIFICATION Spec
CONSTANTS
    Procs = {p1, p2}
    RequestProcs = {p1}
    Kinds = {"experiment"}
    NChildren = 1
    MaxThreads = 1
    MaxCrashes = 0
PROPERTIES
    TerminalUnchanged
CHECK_DEADLOCK FALSE

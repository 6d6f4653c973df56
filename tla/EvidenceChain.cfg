SPECIFICATION Spec
CONSTANTS
    Callers = {q1, q2}
    CardCallers = {q1}
    StudyCallers = {q1}
    NRuns = 2
    NExperiments = 2
    NSuites = 1
    SuiteTypes = {"walk_forward"}
    MaxEvents = 3
    MaxFaults = 1
INVARIANTS
    GatesAreBacked
    StudiesAreSound
    ServedIsSealed
PROPERTIES
    InvalidatedGateStaysSo
CHECK_DEADLOCK FALSE

SPECIFICATION Spec
CONSTANTS
  w1 = w1
  w2 = w2
  Workers = {w1, w2}
  Kinds = {}
  ConnectionsDrop = FALSE
  NoOne = NoOne
INVARIANTS
    OneScheduler
PROPERTIES
    SuccessorNotClobbered

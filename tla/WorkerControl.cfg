SPECIFICATION LiveSpec
CONSTANTS
  w1 = w1
  Workers = {w1}
  Kinds = {"pause", "kill", "recover"}
  ConnectionsDrop = TRUE
  NoOne = NoOne
INVARIANTS
  AcceptedControlsInForce
PROPERTIES
  ReadyAgain
  

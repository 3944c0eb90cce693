SPECIFICATION Spec
CONSTANTS
  Scenarios = {"arc"}
  TouchesUnready = TRUE
INVARIANT TouchKeepsStored

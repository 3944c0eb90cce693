SPECIFICATION MCFairSpec
CONSTANTS
  NumUbatches = 3
  Yields = 4
  UseHooks = TRUE
  MaxRaises = 0
  Scenarios = {"ubatch", "raise", "waves", "faults"}
INVARIANTS ThreadsSound SameCollective
PROPERTIES MainReturns WavesEnd
CHECK_DEADLOCK FALSE

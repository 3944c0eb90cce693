SPECIFICATION FairSpec
CONSTANTS
  Scenarios = {"lru", "arc", "ghosts", "shared", "tight", "reset"}
  TouchesUnready = FALSE
INVARIANTS ManagersSound ReadsOwn CopiesSafe Accounted
PROPERTIES KeepsContract AllFinish

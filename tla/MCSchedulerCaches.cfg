SPECIFICATION MCFairSpec
CONSTANTS
  NumBlocks = 4
  MaxRef = 2
  Scenarios = {"pool", "fcfs", "priority"}
INVARIANTS PoolSound EncoderHit InStep
PROPERTIES IsQueue AllFinish

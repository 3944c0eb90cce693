SPECIFICATION MCFairSpec
CONSTANTS
  Readers = {r1, r2}
  MaxChunks = 2
  MaxLaps = 2
  MaxFaults = 1
  Scenarios = {"ring", "batched", "failures", "returns"}
INVARIANTS OwnReplies
PROPERTIES Broadcasts RingDelivers CallsReturn
CHECK_DEADLOCK FALSE

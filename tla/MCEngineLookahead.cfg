SPECIFICATION FairSpec
CONSTANTS
  a = a
  b = b
  c = c
  NoReq = NoReq
  Scenarios = {"fcfs"}
  FcfsBlocks = 5
INVARIANTS DraftSparesKV

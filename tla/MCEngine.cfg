SPECIFICATION FairSpec
CONSTANTS
  a = a
  b = b
  c = c
  NoReq = NoReq
  Scenarios = {"fcfs", "urgent", "reset"}
  FcfsBlocks = 6
INVARIANTS BooksBalance WorkerAgrees KVIntact CacheHoldsComputed DraftProbsOwn
PROPERTIES AllFinish

SPECIFICATION MCFairSpec
CONSTANTS
  Reqs = {1, 2}
  Prompt <- DepthPrompt
  Vocab = {0, 1}
  Greedy = {1}
  Argmax <- ParityArgmax
  Support <- ParitySupport
  Eos = 0
  NumSpec = 2
  MaxModelLen = 7
  MaxTokens <- DepthMaxTokens
  MaxPreemptions = 1
  Scenarios = {"rows", "depth", "odds"}
  Penalties = FALSE
INVARIANTS ComputedIsExact DrafterAgrees EmitsTarget
PROPERTIES Lossless BatchesServed

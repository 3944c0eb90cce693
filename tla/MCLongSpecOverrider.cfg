\* One row through two rounds: prefill chunk, decode with and without drafts,
\* a row too close to the end to draft; gathered draft KV; no layer skipped.
SPECIFICATION Spec
CONSTANTS
  NumLayers = 2
  MaxBatch = 1
  NumSpec = 2
  BlockSize = 2
  NumBlocks = 5
  MaxModelLen = 9
  RatioNum = 1
  RatioDen = 3
  MinTokens = 1
  Sink = 1
  Recent = 1
  SkipAttn <- NoLayers
  SkipLayers <- NoLayers
  Gather = TRUE
  BlockTable <- MCBlockTable
  Shapes <- OneRowShapes
  MaxRounds = 2
INVARIANT DraftReadsCurrent
CHECK_DEADLOCK FALSE

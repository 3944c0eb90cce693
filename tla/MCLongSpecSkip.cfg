\* Two rows, padding beside them when only one is used; token pages; the first
\* layer skipped whole and the last one's attention skipped.
SPECIFICATION Spec
CONSTANTS
  NumLayers = 3
  MaxBatch = 2
  NumSpec = 2
  BlockSize = 2
  NumBlocks = 8
  MaxModelLen = 7
  RatioNum = 1
  RatioDen = 3
  MinTokens = 1
  Sink = 1
  Recent = 1
  SkipAttn <- LastLayer
  SkipLayers <- FirstLayer
  Gather = FALSE
  BlockTable <- MCBlockTable
  Shapes <- TwoRowShapes
  MaxRounds = 1
INVARIANTS LayerAligned RowExact
CHECK_DEADLOCK FALSE

\* The constants of VegasOverrider are those of the scenario "layers".
SPECIFICATION MCSpec
CONSTANTS
  Scenarios = {"layers", "batch", "stream", "graphs", "mass", "block", "topk"}
  NumLayers = 2
  MaxBatch = 1
  NumSpec = 2
  BlockSize = 2
  MaxModelLen = 7
  RatioNum = 1
  RatioDen = 4
  MinTokens = 2
  BlockTable <- OneRow
  Shapes <- RowShapes
  MaxRounds = 3
  t0 = t0
  t1 = t1
  t2 = t2
  EarlyEnds = FALSE
INVARIANTS VegasRowExact BatchRowsExact GraphsServe
INVARIANTS CountMatchesReference RowIsHeaviest BlockInStep
PROPERTIES SelectsTopK

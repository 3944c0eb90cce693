-------------------------- MODULE MCDraftOverriders --------------------------
(* The Vegas and StreamingLLM overriders and the drafter's graphs, one       *)
(* scenario each, two for Vegas.  "layers": one row, two layers with         *)
(* selections of their own, three rounds, with the constants of the cfg.     *)
(* "batch": two rows, so that batches grow, shrink and are padded between    *)
(* rounds.  "stream": two rows, two layers and two proposes of three drafts. *)
(* "graphs": capture sizes in the shape of the defaults (powers of two, then *)
(* a fixed stride), with maxima below, at and off a multiple of the verify   *)
(* length.                                                                   *)
EXTENDS VegasOverrider

CONSTANT Scenarios

Unused == "unused"

(* Descending physical blocks, interleaved between the n rows, so that no    *)
(* slot is its position.                                                     *)
Scattered(n) == [r \in 0 .. n - 1 |-> [b \in 0 .. 3 |-> 10 - (b * n + r)]]
OneRow == Scattered(1)
TwoRows == [r \in 0 .. 1 |-> [b \in 0 .. 5 |-> IF r = 0 THEN 11 - 2 * b ELSE 2 * b]]

(* A prompt of one token, a decode row with all drafts, one too close to the *)
(* end to draft again, and a prefill chunk.                                  *)
RowShapes == {[k |-> 1, q |-> 1], [k |-> 5, q |-> 3], [k |-> 6, q |-> 3], [k |-> 4, q |-> 4]}
Sizes == {{1, 2, 4, 8}, {1, 2, 4, 8, 10}, {2, 3, 6}, {4}}

VARIABLES
  scenario,
  round2, batch_size2, step2, layer2, seqlens2, table2,    \* "batch" and "stream"
  pc2, nreq2, shape2, curr_layer2, metadata_initialized2, valid2, budget2, chosen2,
  positions,
  phase, mode, capture_sizes, qlen, max_num_seqs, drafter, runner, captured, forward

overrider == <<round2, batch_size2, step2, layer2, seqlens2, table2>>
vegasOnly == <<pc2, nreq2, shape2, curr_layer2, metadata_initialized2, valid2, budget2,
               chosen2>>
graphs == <<phase, mode, capture_sizes, qlen, max_num_seqs, drafter, runner, captured,
            forward>>
drafts == <<vars, overrider, vegasOnly, positions, graphs>>

Batch == INSTANCE VegasOverrider WITH
  NumLayers <- 1, MaxBatch <- 2, NumSpec <- 2, BlockSize <- 2, MaxModelLen <- 7,
  RatioNum <- 1, RatioDen <- 4, MinTokens <- 1,
  BlockTable <- Scattered(2), Shapes <- RowShapes, MaxRounds <- 2,
  round <- round2, batch_size <- batch_size2, step <- step2, layer <- layer2,
  seqlens <- seqlens2, table <- table2, pc <- pc2, nreq <- nreq2, shape <- shape2,
  curr_layer <- curr_layer2, metadata_initialized <- metadata_initialized2,
  valid <- valid2, budget <- budget2, chosen <- chosen2
Stream == INSTANCE StreamingLLMOverrider WITH
  NumLayers <- 2, MaxBatch <- 2, NumSpec <- 3, BlockSize <- 2, MaxModelLen <- 12,
  RatioNum <- 1, RatioDen <- 2, MinTokens <- 3,
  BlockTable <- TwoRows, Starts <- {1, 3, 4, 5, 6, 8, 9}, MaxRounds <- 2,
  round <- round2, batch_size <- batch_size2, step <- step2, layer <- layer2,
  seqlens <- seqlens2, table <- table2
Graphs == INSTANCE CudagraphDispatch WITH
  SizeChoices <- Sizes, SeqChoices <- {2, 5, 10}, LenChoices <- {1, 3, 8},
  MaxNumTokens <- 12

In(s) == scenario = s

(* The Vegas overrider of the cfg's constants before its first round. *)
NoLayers == Init /\ budget = [r \in Rows |-> Junk]
NoOverrider ==
  /\ round2 = Unused /\ batch_size2 = Unused /\ step2 = Unused /\ layer2 = Unused
  /\ seqlens2 = Unused /\ table2 = Unused
NoVegas ==
  /\ pc2 = Unused /\ nreq2 = Unused /\ shape2 = Unused /\ curr_layer2 = Unused
  /\ metadata_initialized2 = Unused /\ valid2 = Unused /\ budget2 = Unused
  /\ chosen2 = Unused
NoGraphs ==
  /\ phase = Unused /\ mode = Unused /\ capture_sizes = Unused /\ qlen = Unused
  /\ max_num_seqs = Unused /\ drafter = Unused /\ runner = Unused
  /\ captured = Unused /\ forward = Unused

DraftsInit ==
  \/ In("layers") /\ Init /\ NoOverrider /\ NoVegas /\ positions = Unused /\ NoGraphs
  \/ In("batch") /\ Batch!Init /\ NoLayers /\ positions = Unused /\ NoGraphs
  \/ In("stream") /\ Stream!Init /\ NoLayers /\ NoVegas /\ NoGraphs
  \/ In("graphs") /\ Graphs!Init /\ NoLayers /\ NoOverrider /\ NoVegas
                  /\ positions = Unused
NoDrafts == NoLayers /\ NoOverrider /\ NoVegas /\ positions = Unused /\ NoGraphs

DraftsNext ==
  \/ In("layers") /\ Next /\ UNCHANGED <<overrider, vegasOnly, positions, graphs>>
  \/ In("batch") /\ Batch!Next /\ UNCHANGED <<vars, positions, graphs>>
  \/ In("stream") /\ Stream!Next /\ UNCHANGED <<vars, vegasOnly, graphs>>
  \/ In("graphs") /\ Graphs!Next /\ UNCHANGED <<vars, overrider, vegasOnly, positions>>

(* The last round is over, or the graph mode was refused. *)
DraftsEnded ==
  \/ In("layers") /\ round = MaxRounds /\ pc = "idle"
  \/ In("batch") /\ round2 = 2 /\ pc2 = "idle"
  \/ In("stream") /\ round2 = 2 /\ step2 = 3
  \/ In("graphs") /\ phase = "raised"

-----------------------------------------------------------------------------
(* In batches of two rows, a Vegas draft attends over its own row's picks    *)
(* and later tokens, as VegasRowExact says of one row; and StreamingLLM      *)
(* attends to the sink block and the last budgeted blocks, each token once,  *)
(* in every layer of every draft step, with the shortened lengths within the *)
(* columns of the block table.                                               *)
BatchRowsExact ==
  /\ In("batch") => Batch!VegasRowExact
  /\ In("stream") => Stream!ReadsSinkAndWindow /\ Stream!FitsBlockTable

(* No forward pass is dispatched to a graph that was never captured, a       *)
(* replayed graph has room for its batch, and a draft batch no larger than   *)
(* the largest capture size replays one.                                     *)
GraphsServe ==
  In("graphs") => Graphs!NoLateCapture /\ Graphs!GraphCoversBatch /\ Graphs!DraftReplays
=============================================================================

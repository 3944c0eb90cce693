----------------------- MODULE StreamingLLMOverrider -----------------------
(***************************************************************************)
(* The StreamingLLM overrider over the draft steps of successive proposes  *)
(* (vllm/v1/spec_decode/sparse_attn/attn_overrider/streamingllm.py).       *)
(*                                                                         *)
(* The first layer of a draft step builds a block table of the sink block  *)
(* and the last blocks of every row, and shortens the sequence lengths of  *)
(* the attention metadata in place; the later layers reuse both, and the   *)
(* proposer rewrites the lengths before the next step.  The verify pass is *)
(* untouched, so a round is known by the lengths its draft starts from.    *)
(***************************************************************************)
EXTENDS Integers, FiniteSets

CONSTANTS
  NumLayers, MaxBatch, NumSpec, BlockSize, MaxModelLen,
  RatioNum, RatioDen,     \* sparse_attn_ratio
  MinTokens,              \* sparse_attn_min_tokens
  BlockTable,             \* BlockTable[r][b]: physical block b of row r
  Starts,                 \* the lengths a row may start a draft from, all of
                          \* them with room for NumSpec drafts
  MaxRounds               \* bound on the proposes explored

Larger(a, b) == IF a >= b THEN a ELSE b
Smaller(a, b) == IF a <= b THEN a ELSE b
CeilDiv(a, b) == (a + b - 1) \div b
Rows == 0 .. MaxBatch - 1
MaxBlocks == CeilDiv(Larger(CeilDiv(MaxModelLen * RatioNum, RatioDen), MinTokens), BlockSize)
Columns == 0 .. MaxBlocks - 1

VARIABLES
  round, batch_size,
  step, layer,     \* the draft step and layer reached; no propose at step NumSpec
  positions,       \* the proposer's positions of the step, per row
  seqlens,         \* attn_metadata.seq_lens, per row
  table            \* _block_table_tensor

vars == <<round, batch_size, step, layer, positions, seqlens, table>>

Stale == -1        \* what torch.empty leaves
Init ==
  /\ round = 0 /\ batch_size = 0 /\ step = NumSpec /\ layer = 0
  /\ positions = [r \in Rows |-> 0] /\ seqlens = [r \in Rows |-> 0]
  /\ table = [r \in Rows |-> [c \in Columns |-> Stale]]

Active == 0 .. batch_size - 1

(* propose, first step: the new token sits at the length of its row. *)
EnterPropose ==
  /\ step = NumSpec /\ round < MaxRounds /\ round' = round + 1
  /\ \E n \in 1 .. MaxBatch : \E start \in [0 .. n - 1 -> Starts] :
       /\ batch_size' = n
       /\ positions' = [r \in Rows |-> IF r < n THEN start[r] ELSE positions[r]]
       /\ seqlens' = [r \in Rows |-> IF r < n THEN start[r] + 1 ELSE 0]
  /\ step' = 0 /\ layer' = 0 /\ UNCHANGED table

-----------------------------------------------------------------------------
(* _may_update_attn_metadata: the window of a row of n tokens. *)
BudgetBlocks(n) ==
  Smaller(Larger(CeilDiv(n * RatioNum, RatioDen * BlockSize), CeilDiv(MinTokens, BlockSize)),
          MaxBlocks - 1)
LastBlock(n) == (n - 1) \div BlockSize
StartBlock(n) == Larger(LastBlock(n) - BudgetBlocks(n) + 1, 1)
NumSliding(n) == Larger(LastBlock(n) - StartBlock(n) + 1, 0)

(* copy_blocks_kernel on one row. *)
CopiedRow(r, n) ==
  [c \in Columns |->
     IF c = 0 THEN BlockTable[r][0]
     ELSE IF c - 1 < NumSliding(n) THEN BlockTable[r][StartBlock(n) + c - 1]
     ELSE table[r][c]]

DraftLayer ==
  /\ step < NumSpec /\ layer < NumLayers /\ layer' = layer + 1
  /\ IF layer > 0 THEN UNCHANGED <<table, seqlens>> ELSE
     /\ table' = [r \in Rows |-> IF r \in Active THEN CopiedRow(r, seqlens[r]) ELSE table[r]]
     /\ seqlens' = [r \in Rows |->
                      IF r \in Active THEN seqlens[r] - (StartBlock(seqlens[r]) - 1) * BlockSize
                      ELSE seqlens[r]]
  /\ UNCHANGED <<round, batch_size, step, positions>>

(* propose, later steps: positions advance and the lengths are rewritten. *)
NextDraftStepMutant ==
  /\ step < NumSpec /\ layer = NumLayers /\ step' = step + 1 /\ layer' = 0
  /\ IF step' = NumSpec THEN UNCHANGED <<positions, seqlens>> ELSE
     /\ positions' = [r \in Rows |-> IF r \in Active THEN positions[r] + 1 ELSE positions[r]]
     /\ seqlens' = [r \in Rows |-> IF r \in Active THEN seqlens[r] + 1 ELSE seqlens[r]]
  /\ UNCHANGED <<round, batch_size, table>>
NextDraftStep ==
  /\ step < NumSpec /\ layer = NumLayers /\ step' = step + 1 /\ layer' = 0
  /\ IF step' = NumSpec THEN UNCHANGED <<positions, seqlens>> ELSE
     /\ positions' = [r \in Rows |-> IF r \in Active THEN positions[r] + 1 ELSE positions[r]]
     /\ seqlens' = [r \in Rows |-> IF r \in Active THEN positions'[r] + 1 ELSE seqlens[r]]
  /\ UNCHANGED <<round, batch_size, table>>

Next == EnterPropose \/ DraftLayer \/ NextDraftStep
Spec == Init /\ [][Next]_vars
-----------------------------------------------------------------------------
(* The physical slots the attention of the layer just run has read. *)
SlotAt(r, k) == table[r][k \div BlockSize] * BlockSize + (k % BlockSize)
Slot(r, p) == BlockTable[r][p \div BlockSize] * BlockSize + (p % BlockSize)

KeysRead(r) == {SlotAt(r, k) : k \in 0 .. seqlens[r] - 1}

(* The tokens of the sink block and of the last budgeted blocks. *)
Window(newest) ==
  {p \in 0 .. newest :
     \/ p < BlockSize
     \/ p \div BlockSize > (newest \div BlockSize) - BudgetBlocks(newest + 1)}
WindowSlots(r) == {Slot(r, p) : p \in Window(positions[r])}

(* Every layer of every draft step attends to the tokens of the sink block and
   of the last budgeted blocks up to the newest token, each exactly once, and
   to no token of another row or of an earlier propose. *)
ReadsSinkAndWindow ==
  step < NumSpec /\ layer > 0 => \A r \in Active :
    KeysRead(r) = WindowSlots(r) /\ Cardinality(Window(positions[r])) = seqlens[r]

(* The shortened length never reaches past the columns of the block table,
   which was sized from the configuration before any request arrived. *)
FitsBlockTable ==
  step < NumSpec /\ layer > 0 =>
    \A r \in Active : seqlens[r] \in 1 .. MaxBlocks * BlockSize
=============================================================================

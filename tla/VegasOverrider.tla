--------------------------- MODULE VegasOverrider ---------------------------
(***************************************************************************)
(* The Vegas attention overrider across verify passes and proposes         *)
(* (vllm/v1/spec_decode/sparse_attn/attn_overrider/vegas.py).              *)
(*                                                                         *)
(* It shares the base class, the index-to-slot kernel and the rounds of    *)
(* LongSpecOverrider.  What is its own: every layer selects its tokens     *)
(* inside its own verify hook, all layers share one budget per row, which  *)
(* the draft reuses as its key count, and the batch size is a Python       *)
(* attribute that a replayed verify graph does not refresh.  Layers draft  *)
(* over the token page table; GatheredDraftKV is in LongSpecOverrider.     *)
(***************************************************************************)
EXTENDS Integers, FiniteSets

CONSTANTS
  NumLayers, MaxBatch, NumSpec, BlockSize, MaxModelLen,
  RatioNum, RatioDen, MinTokens,
  BlockTable,      \* BlockTable[r][b]: physical block b of row r
  Shapes,          \* the [k, q] a row of a verify batch may have
  MaxRounds        \* bound on the rounds explored

Layers == 0 .. NumLayers - 1
Rows == 0 .. MaxBatch - 1
Larger(a, b) == IF a >= b THEN a ELSE b
Smaller(a, b) == IF a <= b THEN a ELSE b
CeilRatio(n) == (n * RatioNum + RatioDen - 1) \div RatioDen
MaxTokens == Larger(CeilRatio(MaxModelLen), MinTokens)
Width == MaxTokens + 2 * NumSpec + 1        \* _topk_width
Columns == 0 .. Width - 1
Slot(r, p) == BlockTable[r][p \div BlockSize] * BlockSize + (p % BlockSize)
Padding == [k |-> 0, q |-> 0]
Junk == 0                                   \* what torch.empty may leave

ASSUME SizeAssumption ==
  /\ NumLayers \in Nat \ {0} /\ MaxBatch \in Nat \ {0}
  /\ NumSpec \in Nat \ {0} /\ MaxModelLen \in Nat
  /\ RatioNum \in Nat /\ RatioDen \in Nat \ {0} /\ MinTokens \in Nat
(* The query tokens of a row are the last of its keys. *)
ASSUME ShapeAssumption ==
  \A s \in Shapes : /\ s.k \in 1 .. MaxModelLen
                    /\ s.q \in 1 .. s.k
(* No two positions share a slot: the KV manager gives a block to one owner. *)
ASSUME BlockAssumption ==
  \A r1, r2 \in Rows, p1, p2 \in 0 .. MaxModelLen - 1 :
    Slot(r1, p1) = Slot(r2, p2) => r1 = r2 /\ p1 = p2

VARIABLES
  pc, round, nreq, shape, layer, step, seqlens,   \* as in LongSpecOverrider
  curr_layer, metadata_initialized,
  batch_size,      \* the attribute the hooks slice every buffer with
  valid, budget,   \* _topk_valid_lens, _topk_budget
  table,           \* _page_table, per layer and row
  chosen           \* history: the positions each layer's top-k picked

model == <<pc, round, nreq, shape, layer, step, seqlens>>
vars == <<model, curr_layer, metadata_initialized, batch_size, valid, budget,
          table, chosen>>

Init ==
  /\ pc = "idle" /\ round = 0 /\ nreq = 0 /\ layer = 0 /\ step = 0
  /\ shape = [r \in Rows |-> Padding] /\ seqlens = [r \in Rows |-> 0]
  /\ curr_layer = 0 /\ metadata_initialized = FALSE /\ batch_size = 0
  /\ valid = [r \in Rows |-> 0] /\ budget \in [Rows -> {Junk, Width + 1}]
  /\ table = [l \in Layers |-> [r \in Rows |-> [i \in Columns |-> Junk]]]
  /\ chosen = [l \in Layers |-> [r \in Rows |-> {}]]

-----------------------------------------------------------------------------
(* Verify *)

StartVerify ==
  /\ pc = "idle" /\ round < MaxRounds
  /\ \E n \in 1 .. MaxBatch : \E sh \in [0 .. n - 1 -> Shapes] :
       /\ nreq' = n
       /\ shape' = [r \in Rows |-> IF r < n THEN sh[r] ELSE Padding]
  /\ pc' = "verify" /\ round' = round + 1 /\ layer' = 0
  /\ UNCHANGED <<step, seqlens, curr_layer, metadata_initialized, batch_size,
                 valid, budget, table, chosen>>

ValidLen(s) ==
  IF s.q = 0 THEN 0 ELSE s.k + 1 - (IF s.q > NumSpec + 1 THEN 1 ELSE s.q)

(* The work of layer 0 on a batch of n rows.  clamp_ runs over the whole     *)
(* buffer, the other assignments over the batch.                             *)
Clamped(b) == Smaller(Larger(b, MinTokens), MaxTokens)
BudgetOf(s) == Smaller(Clamped(CeilRatio(s.k)), ValidLen(s))
BeginVerify(n) ==
  /\ valid' = [r \in Rows |-> IF r < n THEN ValidLen(shape[r]) ELSE valid[r]]
  /\ budget' = [r \in Rows |-> IF r < n THEN BudgetOf(shape[r]) ELSE Clamped(budget[r])]

(* varlen_topk on layer l (module TopKSelect): any budget positions of the   *)
(* scored prefix; attention does not depend on their order.                  *)
Ordered(S) == CHOOSE f \in [0 .. Cardinality(S) - 1 -> S] :
                \A i, j \in DOMAIN f : i < j => f[i] < f[j]
Picks(r) == {S \in SUBSET (0 .. valid'[r] - 1) :
               Cardinality(S) = Smaller(budget'[r], valid'[r])}
PickedRow(old, S) ==
  [i \in Columns |-> IF i < Cardinality(S) THEN Ordered(S)[i] ELSE old[i]]
Selections(n) ==
  {f \in [0 .. n - 1 -> UNION {Picks(r) : r \in 0 .. n - 1}] :
     \A r \in 0 .. n - 1 : f[r] \in Picks(r)}
Selected(l, n, pick) ==
  /\ table' = [k \in Layers |-> [r \in Rows |->
       IF k \in l /\ r < n THEN PickedRow(table[k][r], pick[k][r]) ELSE table[k][r]]]
  /\ chosen' = [k \in Layers |-> [r \in Rows |->
       IF k \in l /\ r < n THEN pick[k][r] ELSE chosen[k][r]]]

(* _verify_attention, called by an eager forward on the unpadded batch. *)
VerifyLayer ==
  /\ pc = "verify" /\ layer < NumLayers
  /\ IF curr_layer = 0
     THEN batch_size' = nreq /\ BeginVerify(nreq) /\ metadata_initialized' = FALSE
     ELSE UNCHANGED <<batch_size, valid, budget, metadata_initialized>>
  /\ \E pick \in [{curr_layer} -> Selections(batch_size')] :
       Selected({curr_layer}, batch_size', pick)
  /\ curr_layer' = (curr_layer + 1) % NumLayers
  /\ layer' = layer + 1
  /\ pc' = IF layer = NumLayers - 1 THEN "sample" ELSE pc
  /\ UNCHANGED <<round, nreq, shape, step, seqlens>>

(* The verify pass replayed as a CUDA graph captured for n padded rows: the  *)
(* kernels of every layer, and none of the Python.                           *)
VerifyReplay ==
  /\ pc = "verify" /\ layer = 0
  /\ \E n \in nreq .. MaxBatch :
       /\ BeginVerify(n)
       /\ \E pick \in [Layers -> Selections(n)] : Selected(Layers, n, pick)
  /\ layer' = NumLayers /\ pc' = "sample"
  /\ UNCHANGED <<round, nreq, shape, step, seqlens, curr_layer,
                 metadata_initialized, batch_size>>

-----------------------------------------------------------------------------
(* Propose *)

InputFitsInDrafter == \A r \in 0 .. nreq - 1 : shape[r].k + NumSpec <= MaxModelLen
Rejections(s) == IF s.q > NumSpec + 1 THEN {0} ELSE 0 .. s.q - 1

EnterProposeMutant ==       \* the flag is left to the verify pass to reset
  /\ pc = "sample" /\ InputFitsInDrafter
  /\ \E rej \in [0 .. nreq - 1 -> 0 .. NumSpec] :
       /\ \A r \in 0 .. nreq - 1 : rej[r] \in Rejections(shape[r])
       /\ seqlens' = [r \in Rows |-> IF r < nreq THEN shape[r].k - rej[r] + 1 ELSE 0]
  /\ pc' = "draft" /\ step' = 0 /\ layer' = 0
  /\ UNCHANGED <<round, nreq, shape, curr_layer, metadata_initialized, batch_size,
                 valid, budget, table, chosen>>
EnterPropose ==
  /\ pc = "sample" /\ InputFitsInDrafter
  /\ \E rej \in [0 .. nreq - 1 -> 0 .. NumSpec] :
       /\ \A r \in 0 .. nreq - 1 : rej[r] \in Rejections(shape[r])
       /\ seqlens' = [r \in Rows |-> IF r < nreq THEN shape[r].k - rej[r] + 1 ELSE 0]
  /\ pc' = "draft" /\ step' = 0 /\ layer' = 0 /\ metadata_initialized' = FALSE
  /\ UNCHANGED <<round, nreq, shape, curr_layer, batch_size, valid, budget, table, chosen>>

NoPropose ==
  /\ pc = "sample" /\ ~InputFitsInDrafter
  /\ pc' = "idle"
  /\ UNCHANGED <<round, nreq, shape, layer, step, seqlens, curr_layer,
                 metadata_initialized, batch_size, valid, budget, table, chosen>>

(* index_to_slots on one row: indices become slots, [valid, final) follows. *)
ConvertedRow(old, r, final) ==
  [i \in Columns |->
     IF i < budget[r] THEN Slot(r, old[i])
     ELSE IF i < budget[r] + final - valid[r] THEN Slot(r, valid[r] + i - budget[r])
     ELSE old[i]]

(* _init_metadata, over the rows of batch_size. *)
InitMetadata ==
  /\ metadata_initialized' = TRUE
  /\ table' = [l \in Layers |-> [r \in Rows |->
       IF r < batch_size' THEN ConvertedRow(table[l][r], r, seqlens[r] - 1 + NumSpec)
       ELSE table[l][r]]]
  /\ budget' = [r \in Rows |->
       IF r < batch_size' THEN budget[r] + seqlens[r] - valid[r] ELSE budget[r]]

(* _draft_attention: the batch size comes from the call's own cu_seqlens_q. *)
DraftBatch == batch_size' = nreq
DraftLayer ==
  /\ pc = "draft" /\ layer < NumLayers
  /\ DraftBatch
  /\ IF curr_layer # 0 THEN UNCHANGED <<metadata_initialized, table, budget>>
     ELSE IF ~metadata_initialized THEN InitMetadata
     ELSE /\ budget' = [r \in Rows |-> IF r < batch_size' THEN budget[r] + 1 ELSE budget[r]]
          /\ UNCHANGED <<metadata_initialized, table>>
  /\ curr_layer' = (curr_layer + 1) % NumLayers
  /\ layer' = layer + 1
  /\ UNCHANGED <<pc, round, nreq, shape, step, seqlens, valid, chosen>>

NextDraftStep ==
  /\ pc = "draft" /\ layer = NumLayers /\ step < NumSpec - 1
  /\ step' = step + 1 /\ layer' = 0
  /\ seqlens' = [r \in Rows |-> IF r < nreq THEN seqlens[r] + 1 ELSE 0]
  /\ UNCHANGED <<pc, round, nreq, shape, curr_layer, metadata_initialized,
                 batch_size, valid, budget, table, chosen>>

ExitPropose ==
  /\ pc = "draft" /\ layer = NumLayers /\ step = NumSpec - 1
  /\ pc' = "idle"
  /\ UNCHANGED <<round, nreq, shape, layer, step, seqlens, curr_layer,
                 metadata_initialized, batch_size, valid, budget, table, chosen>>

Next ==
  \/ StartVerify \/ VerifyLayer \/ VerifyReplay \/ EnterPropose \/ NoPropose
  \/ DraftLayer \/ NextDraftStep \/ ExitPropose
Spec == Init /\ [][Next]_vars

-----------------------------------------------------------------------------
Attended(l) == pc = "draft" /\ l < layer

(* The keys layer l attends over for row r are the tokens this round's       *)
(* verify picked at that same layer and every token after the scored prefix, *)
(* and nothing else: no stale selection, no other layer's, no other row's,   *)
(* whichever passes were replayed and however large the batches before were. *)
VegasReadsSelection ==
  \A l \in Layers, r \in 0 .. nreq - 1 : Attended(l) =>
    {table[l][r][i] : i \in 0 .. budget[r] - 1}
      = {Slot(r, p) : p \in chosen[l][r] \cup valid[r] .. seqlens[r] - 1}

(* One count per row serves all layers; no layer attends over a key twice. *)
VegasReadsOnce ==
  \A l \in Layers, r \in 0 .. nreq - 1 : Attended(l) =>
    \A i, j \in 0 .. budget[r] - 1 : table[l][r][i] = table[l][r][j] => i = j

(* Selection, verified tail and all drafts fit in a row of _page_table:      *)
(* index_to_slots never writes into the next row.                            *)
VegasFitsRow ==
  pc = "draft" => \A l \in Layers, r \in 0 .. nreq - 1 :
    Cardinality(chosen[l][r]) + (seqlens[r] - step - 1 + NumSpec) - valid[r] <= Width

(* What a Vegas draft reads: the selection and the tail, once, from its row. *)
VegasRowExact == VegasReadsSelection /\ VegasReadsOnce /\ VegasFitsRow
=============================================================================

------------------------- MODULE LongSpecOverrider -------------------------
(***************************************************************************)
(* The LongSpec attention overrider across verify passes and proposes      *)
(* (vllm/v1/spec_decode/sparse_attn/longspec/overrider.py), with the base  *)
(* class's layer counter, the index-to-slot kernel, the draft KV provider, *)
(* the whole-layer skip and the sequence lengths propose() hands to them.  *)
(*                                                                         *)
(* A round is one verify forward (eager, one attention hook per layer, or  *)
(* a replayed CUDA graph, which runs the kernels and none of the Python),  *)
(* the rejection of some drafts, and one propose of NumSpec draft forwards *)
(* in which every layer makes one attention call or is skipped.            *)
(*                                                                         *)
(* The content of a KV slot is abstracted to the write that produced it:   *)
(* <<round, 0>> for a verify pass, <<round, i + 1>> for draft step i.      *)
(***************************************************************************)
EXTENDS Integers

CONSTANTS
  NumLayers, MaxBatch, NumSpec, BlockSize, NumBlocks, MaxModelLen,
  RatioNum, RatioDen,     \* sparse_attn_ratio as a fraction
  MinTokens, Sink, Recent,
  SkipAttn, SkipLayers,   \* sparse_attn_skip_attn_layers, _skip_layers
  Gather,                 \* TRUE: GatheredDraftKV, FALSE: TokenPagedDraftKV
  BlockTable,             \* BlockTable[r][b]: physical block b of row r
  Shapes,                 \* the [k, q] a row of a verify batch may have
  MaxRounds               \* bound on the rounds explored

Layers == 0 .. NumLayers - 1
Rows == 0 .. MaxBatch - 1
Slots == 0 .. NumBlocks * BlockSize - 1

Larger(a, b) == IF a >= b THEN a ELSE b
Smaller(a, b) == IF a <= b THEN a ELSE b
CeilRatio(n) == (n * RatioNum + RatioDen - 1) \div RatioDen

(* max_tokens, and the table's row width: the cap, the reserved ranges, the  *)
(* verified tail and the drafted tail.  The mutant forgets the verified one. *)
MaxTokens == Larger(CeilRatio(MaxModelLen), MinTokens)
Width == MaxTokens + Sink + Recent + 2 * NumSpec + 1
Columns == 0 .. Width - 1

(* A verify row has seqlens_k keys, its seqlens_q queries among them.  A row *)
(* of graph padding has neither.                                             *)
RowShape == {s \in [k : 0 .. MaxModelLen, q : 0 .. MaxModelLen] : s.q <= s.k}
Padding == [k |-> 0, q |-> 0]

(* The physical slot of position p of row r (slot_table.py, propose). *)
Slot(r, p) == BlockTable[r][p \div BlockSize] * BlockSize + (p % BlockSize)

ASSUME SizeAssumption ==
  /\ NumLayers \in Nat \ {0} /\ MaxBatch \in Nat \ {0}
  /\ NumSpec \in Nat \ {0} /\ MaxModelLen \in Nat \ {0}
  /\ BlockSize \in Nat \ {0} /\ NumBlocks \in Nat \ {0}
  /\ MinTokens \in Nat /\ Sink \in Nat /\ Recent \in Nat
  /\ RatioNum \in Nat \ {0} /\ RatioDen \in Nat \ {0}
  /\ MaxRounds \in Nat
ASSUME ModeAssumption ==
  /\ SkipAttn \subseteq Layers /\ SkipLayers \subseteq Layers
  /\ SkipAttn \cap SkipLayers = {}
  /\ Gather \in BOOLEAN
  /\ Shapes \subseteq RowShape /\ \A s \in Shapes : s.q >= 1
(* No two positions share a slot: the KV manager gives a block to one owner. *)
ASSUME BlockAssumption ==
  /\ \A r \in Rows, p \in 0 .. MaxModelLen - 1 : Slot(r, p) \in Slots
  /\ \A r1, r2 \in Rows, p1, p2 \in 0 .. MaxModelLen - 1 :
       Slot(r1, p1) = Slot(r2, p2) => r1 = r2 /\ p1 = p2

VARIABLES
  pc,           \* "idle", "verify", "sample" or "draft"
  round,        \* rounds started
  shape,        \* the verify call's [k, q] of every row
  nreq,         \* rows 0 .. nreq - 1 hold a request, the others are padding
  layer,        \* the layer the model's forward loop is at
  step,         \* the draft step of the propose
  start,        \* seq_lens after the rollback: where the draft starts, per row
  seqlens,      \* seqused_k of the draft step, per row
  kv,           \* the cache: the write each slot of each layer holds
  in_propose, curr_layer, metadata_initialized,
  valid, k_min, k_max,    \* _valid_lens, _k_min, _k_max
  table, used,            \* _table, _used, per layer and row
  fresh, scratch          \* GatheredDraftKV: _fresh and the gathered copies

model == <<pc, round, shape, nreq, layer, step, start, seqlens>>
python == <<in_propose, curr_layer, metadata_initialized>>
prefix == <<valid, k_min, k_max>>
selection == <<table, used>>
draftKV == <<fresh, scratch>>
vars == <<model, kv, python, prefix, selection, draftKV>>

Init ==
  /\ pc = "idle" /\ round = 0 /\ nreq = 0 /\ layer = 0 /\ step = 0
  /\ shape = [r \in Rows |-> Padding]
  /\ start = [r \in Rows |-> 0] /\ seqlens = [r \in Rows |-> 0]
  /\ kv = [l \in Layers |-> [s \in Slots |-> <<0, 0>>]]
  /\ in_propose = FALSE /\ curr_layer = 0 /\ metadata_initialized = FALSE
  /\ valid = [r \in Rows |-> 0]
  /\ k_min = [r \in Rows |-> 0] /\ k_max = [r \in Rows |-> 0]
  /\ table = [l \in Layers |-> [r \in Rows |-> [i \in Columns |-> 0]]]
  /\ used = [l \in Layers |-> [r \in Rows |-> 0]]
  /\ fresh = [l \in Layers |-> FALSE]
  /\ scratch = [l \in Layers |-> [r \in Rows |-> [i \in Columns |-> <<0, <<0, 0>>>>]]]

-----------------------------------------------------------------------------
(* Verify *)

(* The model runner starts a step on a batch of n rows. *)
StartVerify ==
  /\ pc = "idle" /\ round < MaxRounds
  /\ \E n \in 1 .. MaxBatch : \E sh \in [0 .. n - 1 -> Shapes] :
       /\ nreq' = n
       /\ shape' = [r \in Rows |-> IF r < n THEN sh[r] ELSE Padding]
  /\ pc' = "verify" /\ round' = round + 1 /\ layer' = 0
  /\ UNCHANGED <<step, start, seqlens, kv, python, prefix, selection, draftKV>>

(* What _begin_verify derives of a row: the scored prefix and its clamps. *)
ValidLen(s) ==
  IF s.q = 0 THEN 0 ELSE s.k + 1 - (IF s.q > NumSpec + 1 THEN 1 ELSE s.q)
KMax(s) ==
  Smaller(Smaller(Larger(CeilRatio(s.k), MinTokens), MaxTokens), ValidLen(s))
KMin(s) == Smaller(ValidLen(s), MinTokens)

BeginVerify ==
  /\ valid' = [r \in Rows |-> ValidLen(shape[r])]
  /\ k_max' = [r \in Rows |-> KMax(shape[r])]
  /\ k_min' = [r \in Rows |-> KMin(shape[r])]

(* What mass_select leaves of a row: k candidates from between the sink and  *)
(* the recent range, then these two.  The count is clamped; which candidates *)
(* rank best depends on their mass.  Attention does not depend on the order  *)
(* they are written in, so they are listed in increasing order.              *)
SinkEff(p) == Smaller(Sink, p)
RecentEff(p) == Smaller(Recent, p - SinkEff(p))
Reserved(p) == SinkEff(p) + RecentEff(p)
Candidates(p) == SinkEff(p) .. p - RecentEff(p) - 1
Counts(p, lo, hi) ==
  LET most == Smaller(Smaller(hi, p - Reserved(p)), Width - Reserved(p))
  IN  {k \in 0 .. MaxTokens : Smaller(lo, most) <= k /\ k <= most}
Picks(p, lo, hi) ==
  IF p <= 0 THEN {[n |-> 0, of |-> [i \in {} |-> 0]]}
  ELSE UNION {{[n |-> k, of |-> f] : f \in {g \in [0 .. k - 1 -> Candidates(p)] :
                \A i, j \in 0 .. k - 1 : i < j => g[i] < g[j]}} :
              k \in Counts(p, lo, hi)}

SelectedRow(old, p, pick) ==
  [i \in Columns |->
     IF p <= 0 THEN old[i]
     ELSE IF i < pick.n THEN pick.of[i]
     ELSE IF i < pick.n + SinkEff(p) THEN i - pick.n
     ELSE IF i < pick.n + Reserved(p)
       THEN p - RecentEff(p) + (i - pick.n - SinkEff(p))
     ELSE old[i]]

(* _select: one selection over all layers and all max_batch rows. *)
Select ==
  \E pick \in {f \in [Layers -> [Rows -> UNION {Picks(valid'[r], k_min'[r], k_max'[r]) : r \in Rows}]] :
                 \A l \in Layers, r \in Rows :
                   f[l][r] \in Picks(valid'[r], k_min'[r], k_max'[r])} :
    /\ table' = [l \in Layers |-> [r \in Rows |->
                   SelectedRow(table[l][r], valid'[r], pick[l][r])]]
    /\ used' = [l \in Layers |-> [r \in Rows |->
                  IF valid'[r] <= 0 THEN 0 ELSE pick[l][r].n + Reserved(valid'[r])]]

(* A forward pass writes the KV of the given positions of each row, then     *)
(* calls attention (reshape_and_cache_flash before flash_attn_varlen_func).  *)
Written(old, positions, by) ==
  [s \in Slots |->
     IF \E r \in 0 .. nreq - 1 : \E p \in positions[r] : s = Slot(r, p)
     THEN by ELSE old[s]]
VerifyPositions == [r \in Rows |-> shape[r].k - shape[r].q .. shape[r].k - 1]

(* BaseAttnOverrider._attention advances the layer counter after each hook. *)
AdvanceLayer == curr_layer' = (curr_layer + 1) % NumLayers

(* _verify_attention, called by an eager forward. *)
VerifyLayer ==
  /\ pc = "verify" /\ layer < NumLayers /\ ~in_propose
  /\ kv' = [kv EXCEPT ![layer] = Written(@, VerifyPositions, <<round, 0>>)]
  /\ IF curr_layer = 0
     THEN BeginVerify /\ metadata_initialized' = FALSE
     ELSE UNCHANGED <<prefix, metadata_initialized>>
  /\ IF curr_layer = NumLayers - 1 THEN Select ELSE UNCHANGED selection
  /\ AdvanceLayer
  /\ layer' = layer + 1
  /\ pc' = IF layer = NumLayers - 1 THEN "sample" ELSE "verify"
  /\ UNCHANGED <<round, shape, nreq, step, start, seqlens, in_propose, draftKV>>

(* The verify pass replayed as a full CUDA graph: the captured kernels of    *)
(* every layer, and no Python.  Layer skip excludes graphs (config.py).      *)
VerifyReplay ==
  /\ pc = "verify" /\ layer = 0 /\ SkipLayers = {}
  /\ kv' = [l \in Layers |-> Written(kv[l], VerifyPositions, <<round, 0>>)]
  /\ BeginVerify /\ Select
  /\ pc' = "sample" /\ layer' = NumLayers
  /\ UNCHANGED <<round, shape, nreq, step, start, seqlens, python, draftKV>>

-----------------------------------------------------------------------------
(* Propose *)

(* The runner drafts only when every row has room for NumSpec more tokens.   *)
InputFitsInDrafter == \A r \in 0 .. nreq - 1 : shape[r].k + NumSpec <= MaxModelLen

(* A position at or past max_model_len is clamped to 0 and its slot masked,  *)
(* so a sequence length of 1 always marks a masked row.                      *)
ClampedLen(p) == (IF p >= MaxModelLen THEN 0 ELSE p) + 1
DraftPositions ==
  [r \in Rows |-> IF seqlens[r] = 1 THEN {} ELSE {seqlens[r] - 1}]

(* Rejections a row may see: at most its drafts, none in a prefill chunk. *)
Rejections(s) == IF s.q > NumSpec + 1 THEN {0} ELSE 0 .. s.q - 1

(* GatheredDraftKV.begin_propose: nothing of an earlier propose is reused. *)
BeginProposeMutant == UNCHANGED fresh
BeginPropose == fresh' = [l \in Layers |-> FALSE]

EnterPropose ==
  /\ pc = "sample" /\ InputFitsInDrafter
  /\ \E rej \in [0 .. nreq - 1 -> 0 .. NumSpec] :
       /\ \A r \in 0 .. nreq - 1 : rej[r] \in Rejections(shape[r])
       /\ start' = [r \in Rows |-> IF r < nreq THEN shape[r].k - rej[r] ELSE 0]
  /\ seqlens' = [r \in Rows |-> IF r < nreq THEN ClampedLen(start'[r]) ELSE 0]
  /\ pc' = "draft" /\ step' = 0 /\ layer' = 0
  /\ in_propose' = TRUE /\ metadata_initialized' = FALSE
  /\ BeginPropose
  /\ UNCHANGED <<round, shape, nreq, kv, curr_layer, prefix, selection, scratch>>

NoPropose ==
  /\ pc = "sample" /\ ~InputFitsInDrafter
  /\ pc' = "idle"
  /\ UNCHANGED <<round, shape, nreq, layer, step, start, seqlens>>
  /\ UNCHANGED <<kv, python, prefix, selection, draftKV>>

(* index_to_slots on one row: the selected indices become slots in place,    *)
(* and the slots of [valid, final) follow them.                              *)
ConvertedRow(old, r, u, v, final) ==
  [i \in Columns |->
     IF i < u THEN Slot(r, old[i])
     ELSE IF i < u + final - v THEN Slot(r, v + (i - u))
     ELSE old[i]]

(* _begin_draft_layer: once per draft step, at the first layer it reaches. *)
BeginDraftLayer ==
  IF curr_layer # 0 THEN UNCHANGED <<selection, metadata_initialized>>
  ELSE IF metadata_initialized
  THEN /\ used' = [l \in Layers |-> [r \in Rows |->
                     IF r < nreq THEN used[l][r] + 1 ELSE used[l][r]]]
       /\ UNCHANGED <<table, metadata_initialized>>
  ELSE /\ metadata_initialized' = TRUE
       /\ table' = [l \in Layers |-> [r \in Rows |->
            IF r < nreq
            THEN ConvertedRow(table[l][r], r, used[l][r], valid[r],
                              seqlens[r] - 1 + NumSpec)
            ELSE table[l][r]]]
       /\ used' = [l \in Layers |-> [r \in Rows |->
            IF r < nreq THEN Larger(used[l][r] + seqlens[r] - valid[r], 0)
            ELSE used[l][r]]]

(* GatheredDraftKV.attention_kwargs: everything at a layer's first call of   *)
(* the propose, only the newest column after it.                             *)
GatherFrom(l, u) == IF fresh[l] THEN Larger(u - 1, 0) ELSE 0
AttentionKwargs(l) ==
  IF ~Gather THEN UNCHANGED draftKV
  ELSE /\ fresh' = [fresh EXCEPT ![l] = TRUE]
       /\ scratch' = [scratch EXCEPT ![l] = [r \in Rows |-> [i \in Columns |->
            IF r < nreq /\ GatherFrom(l, used'[l][r]) <= i /\ i < used'[l][r]
            THEN <<table'[l][r][i], kv'[l][table'[l][r][i]]>>
            ELSE @[r][i]]]]

(* _draft_attention; a layer of skip_attn_layers returns zeros instead. *)
DraftLayer ==
  /\ pc = "draft" /\ layer < NumLayers /\ layer \notin SkipLayers /\ in_propose
  /\ kv' = [kv EXCEPT ![layer] = Written(@, DraftPositions, <<round, step + 1>>)]
  /\ BeginDraftLayer
  /\ IF curr_layer \in SkipAttn THEN UNCHANGED draftKV ELSE AttentionKwargs(curr_layer)
  /\ AdvanceLayer
  /\ layer' = layer + 1
  /\ UNCHANGED <<pc, round, shape, nreq, step, start, seqlens, in_propose, prefix>>

(* A wrapped decoder layer inside a propose: note_skipped_layer only. *)
SkippedLayerMutantCount ==  \* the counter is not advanced
  /\ pc = "draft" /\ layer < NumLayers /\ layer \in SkipLayers /\ in_propose
  /\ BeginDraftLayer
  /\ layer' = layer + 1
  /\ UNCHANGED <<pc, round, shape, nreq, step, start, seqlens, kv, in_propose,
                 curr_layer, prefix, draftKV>>
SkippedLayerMutantStep ==  \* the step boundary is not kept
  /\ pc = "draft" /\ layer < NumLayers /\ layer \in SkipLayers /\ in_propose
  /\ AdvanceLayer
  /\ layer' = layer + 1
  /\ UNCHANGED <<pc, round, shape, nreq, step, start, seqlens, kv, in_propose,
                 metadata_initialized, prefix, selection, draftKV>>
SkippedLayer ==
  /\ pc = "draft" /\ layer < NumLayers /\ layer \in SkipLayers /\ in_propose
  /\ BeginDraftLayer
  /\ AdvanceLayer
  /\ layer' = layer + 1
  /\ UNCHANGED <<pc, round, shape, nreq, step, start, seqlens, kv, in_propose,
                 prefix, draftKV>>

NextDraftStep ==
  /\ pc = "draft" /\ layer = NumLayers /\ step < NumSpec - 1
  /\ step' = step + 1 /\ layer' = 0
  /\ seqlens' = [r \in Rows |-> IF r < nreq THEN ClampedLen(seqlens[r]) ELSE 0]
  /\ UNCHANGED <<pc, round, shape, nreq, start, kv, python, prefix, selection, draftKV>>

ExitPropose ==
  /\ pc = "draft" /\ layer = NumLayers /\ step = NumSpec - 1
  /\ pc' = "idle" /\ in_propose' = FALSE
  /\ UNCHANGED <<round, shape, nreq, layer, step, start, seqlens, kv, curr_layer,
                 metadata_initialized, prefix, selection, draftKV>>

Next ==
  \/ StartVerify \/ VerifyLayer \/ VerifyReplay
  \/ EnterPropose \/ NoPropose
  \/ DraftLayer \/ SkippedLayer \/ NextDraftStep \/ ExitPropose

Spec == Init /\ [][Next]_vars

-----------------------------------------------------------------------------
(* Properties *)

Version == (0 .. MaxRounds) \X (0 .. NumSpec)

(* Every variable keeps the type of its tensor or Python attribute; the      *)
(* indices stored in a selection row stay inside the cache.                  *)
TypeOK ==
  /\ pc \in {"idle", "verify", "sample", "draft"}
  /\ round \in 0 .. MaxRounds /\ nreq \in 0 .. MaxBatch
  /\ shape \in [Rows -> RowShape]
  /\ layer \in 0 .. NumLayers /\ step \in 0 .. NumSpec - 1
  /\ start \in [Rows -> 0 .. MaxModelLen] /\ seqlens \in [Rows -> 0 .. MaxModelLen]
  /\ kv \in [Layers -> [Slots -> Version]]
  /\ in_propose \in BOOLEAN /\ curr_layer \in Layers
  /\ metadata_initialized \in BOOLEAN
  /\ valid \in [Rows -> 0 .. MaxModelLen]
  /\ k_min \in [Rows -> 0 .. MinTokens] /\ k_max \in [Rows -> 0 .. MaxTokens]
  /\ table \in [Layers -> [Rows -> [Columns -> Nat]]]
  /\ used \in [Layers -> [Rows -> Nat]]
  /\ fresh \in [Layers -> BOOLEAN]
  /\ scratch \in [Layers -> [Rows -> [Columns -> Nat \X Version]]]

(* "Layer identity is call order" (notes/DrafterGoesBurrrr.md): the counter  *)
(* the hooks index every per-layer buffer with is the layer the model is     *)
(* running, whichever layers are skipped, and whether the verify pass ran    *)
(* its hooks or replayed a graph; enter_propose's and exit_propose's         *)
(* assertions that it is 0 hold; only a propose is ever seen as one.         *)
LayerAligned ==
  /\ curr_layer = IF pc \in {"verify", "draft"} THEN layer % NumLayers ELSE 0
  /\ in_propose <=> pc = "draft"

(* The table row holds the selection and everything the draft appends: the   *)
(* slots index_to_slots writes after the selection, up to the last draft     *)
(* token, end inside the row, and so does every read of the used columns.    *)
WidthBound ==
  \A l \in Layers, r \in Rows :
    /\ used[l][r] <= Width
    /\ pc = "draft" /\ ~metadata_initialized /\ r < nreq
         => used[l][r] + start[r] + NumSpec - valid[r] <= Width

(* What the attention call of layer l read for row r at column i. *)
View(l, r, i) ==
  IF Gather THEN scratch[l][r][i] ELSE <<table[l][r][i], kv[l][table[l][r][i]]>>
Attended(l) == pc = "draft" /\ l < layer /\ l \notin SkipAttn \cup SkipLayers

(* Every key a draft step attends over is the present content of the slot of *)
(* a position of its own request, no later than the token being drafted;     *)
(* from the rollback point on it is the KV this propose wrote, never that of *)
(* a rejected draft or of an earlier round left in the cache or the scratch. *)
DraftReadsCurrent ==
  \A l \in Layers, r \in 0 .. nreq - 1 : Attended(l) =>
    \A i \in 0 .. used[l][r] - 1 : \E p \in 0 .. start[r] + step :
      /\ View(l, r, i) = <<Slot(r, p), kv[l][Slot(r, p)]>>
      /\ p >= start[r] => kv[l][Slot(r, p)] = <<round, p - start[r] + 1>>

(* No key is attended over twice, which would double its softmax weight. *)
DraftReadsOnce ==
  \A l \in Layers, r \in 0 .. nreq - 1 : Attended(l) =>
    \A i, j \in 0 .. used[l][r] - 1 :
      View(l, r, i)[1] = View(l, r, j)[1] => i = j

(* The draft always attends over the reserved sink and recent ranges of the  *)
(* scored prefix and over every token after it, up to the one being drafted. *)
DraftReadsTail ==
  \A l \in Layers, r \in 0 .. nreq - 1 : Attended(l) =>
    \A p \in (0 .. SinkEff(valid[r]) - 1)
               \cup (valid[r] - RecentEff(valid[r]) .. start[r] + step) :
      \E i \in 0 .. used[l][r] - 1 : View(l, r, i)[1] = Slot(r, p)

(* What a draft step attends over is exact: the sink, the recent range and   *)
(* the tail are all there, no key is there twice, and the row holds it all.  *)
RowExact == WidthBound /\ DraftReadsOnce /\ DraftReadsTail
=============================================================================

---------------------- MODULE LongSpecOverriderProofs -----------------------
(***************************************************************************)
(* Theorems about LongSpecOverrider, for every value of its constants.     *)
(*                                                                         *)
(* First the inductive invariant IInv, facts about the operators it is     *)
(* built from, and that it holds initially and through the verify pass,    *)
(* the rollback, the next draft step and the end of a propose; then        *)
(* through the layers of a draft step: what a layer, run or skipped, does  *)
(* to the selection, the KV one that runs writes and the copies it         *)
(* gathers.                                                                *)
(***************************************************************************)
EXTENDS LongSpecOverrider, TLAPS


-----------------------------------------------------------------------------
(* Layer identity *)

(* The counter wraps where the forward loop ends. *)
LEMMA WrapLayer ==
  /\ NumLayers % NumLayers = 0
  /\ \A c \in Layers :
       /\ c % NumLayers = c
       /\ (c + 1) % NumLayers = IF c + 1 = NumLayers THEN 0 ELSE c + 1
BY SizeAssumption DEF Layers

(* The forward loop is inside the model's layers, and the counter follows it. *)
LayerInv ==
  /\ pc \in {"idle", "verify", "sample", "draft"}
  /\ layer \in 0 .. NumLayers
  /\ pc = "verify" => layer < NumLayers
  /\ LayerAligned

(* Inside a pass the counter is the layer being run. *)
LEMMA CounterIsLayer ==
  ASSUME LayerInv, pc \in {"verify", "draft"}, layer < NumLayers
  PROVE  curr_layer = layer /\ layer \in Layers
<1>1. layer \in Layers
  BY SizeAssumption DEF LayerInv, Layers
<1>2. curr_layer = layer % NumLayers
  BY Zenon DEF LayerInv, LayerAligned
<1>3. layer % NumLayers = layer
  BY <1>1, WrapLayer, Zenon
<1> QED
  BY <1>1, <1>2, <1>3, Zenon

(* Every step keeps the counter on the layer being run. *)
LEMMA LayerStep == LayerInv /\ [Next]_vars => LayerInv'
<1> SUFFICES ASSUME LayerInv, [Next]_vars PROVE LayerInv'
  BY Zenon
<1> USE SizeAssumption DEF LayerInv, LayerAligned, Layers
<1>1. CASE StartVerify
  BY <1>1, WrapLayer DEF StartVerify, python
<1>2. CASE VerifyLayer
  BY <1>2, WrapLayer DEF VerifyLayer, AdvanceLayer
<1>3. CASE VerifyReplay
  BY <1>3, WrapLayer DEF VerifyReplay, python
<1>4. CASE EnterPropose
  BY <1>4, WrapLayer DEF EnterPropose
<1>5. CASE NoPropose
  BY <1>5, Zenon DEF NoPropose, python
<1>6. CASE DraftLayer
  BY <1>6, WrapLayer DEF DraftLayer, AdvanceLayer
<1>7. CASE SkippedLayer
  BY <1>7, WrapLayer DEF SkippedLayer, AdvanceLayer
<1>8. CASE NextDraftStep
  BY <1>8, WrapLayer DEF NextDraftStep, python
<1>9. CASE ExitPropose
  BY <1>9, WrapLayer, Zenon DEF ExitPropose
<1>10. CASE UNCHANGED vars
  BY <1>10, Zenon DEF vars, model, python
<1> QED
  BY <1>1, <1>2, <1>3, <1>4, <1>5, <1>6, <1>7, <1>8, <1>9, <1>10, Zenon DEF Next

-----------------------------------------------------------------------------
(* The inductive invariant *)

(* The rows of the batch that hold a request. *)
Live == 0 .. nreq - 1
(* Draft steps begun: overall, and at layer l. *)
Begun == IF layer > 0 THEN step + 1 ELSE step
StepsOf(l) == IF l < layer THEN step + 1 ELSE step
Kept(l) == l \notin SkipLayers /\ l \notin SkipAttn

(* A started batch has requests with queries, then padding. *)
BatchInv ==
  pc # "idle" =>
    /\ nreq >= 1
    /\ \A r \in Rows : IF r < nreq THEN shape[r].q >= 1 ELSE shape[r] = Padding

(* What _begin_verify leaves in the per-row buffers. *)
PrefixKnown ==
  \A r \in Rows : valid[r] = ValidLen(shape[r]) /\ k_max[r] = KMax(shape[r])
                  /\ k_min[r] = KMin(shape[r])

(* From the first layer of a verify pass on, its prefix lengths are in place. *)
PrefixInv ==
  pc \in {"sample", "draft"} \/ (pc = "verify" /\ layer > 0) => PrefixKnown

(* The positions the reserved ranges of a scored prefix hold. *)
ReservedOf(v) == (0 .. SinkEff(v) - 1) \cup (v - RecentEff(v) .. v - 1)

(* A selected row: distinct positions of the prefix, the reserved among them. *)
GoodRow(row, u, v) ==
  /\ u <= MaxTokens + Reserved(v)
  /\ \A i \in 0 .. u - 1 : row[i] \in 0 .. v - 1
  /\ \A i, j \in 0 .. u - 1 : row[i] = row[j] => i = j
  /\ \A p \in ReservedOf(v) : \E i \in 0 .. u - 1 : row[i] = p
SelectedInv ==
  pc = "sample" \/ (pc = "draft" /\ ~metadata_initialized) =>
    \A l \in Layers, r \in Rows : GoodRow(table[l][r], used[l][r], valid[r])

(* Where the draft of a row is, and that its first step has converted. *)
DraftInv ==
  pc = "draft" =>
    /\ metadata_initialized <=> Begun > 0
    /\ \A r \in Live :
         /\ 1 <= valid[r] /\ valid[r] <= start[r] /\ start[r] <= valid[r] + NumSpec
         /\ start[r] + NumSpec <= MaxModelLen
         /\ seqlens[r] = start[r] + step + 1

(* A converted row: n slots of the prefix, then those of v .. last - 1. *)
SlotRow(row, r, n, v, last) ==
  /\ n \in Nat /\ n + last - v <= Width
  /\ \A i \in 0 .. n - 1 : \E p \in 0 .. v - 1 : row[i] = Slot(r, p)
  /\ \A i \in n .. n + last - v - 1 : row[i] = Slot(r, v + (i - n))
  /\ \A i, j \in 0 .. n - 1 : row[i] = row[j] => i = j
  /\ \A p \in ReservedOf(v) : \E i \in 0 .. n - 1 : row[i] = Slot(r, p)
Picked(l, r) == used[l][r] - (start[r] + Begun - valid[r])
ConvertedInv ==
  pc = "draft" /\ metadata_initialized =>
    \A l \in Layers, r \in Live :
      SlotRow(table[l][r], r, Picked(l, r), valid[r], start[r] + NumSpec)

(* The drafted KV is in the cache of every layer that is not skipped whole. *)
DraftedInv ==
  pc = "draft" =>
    \A l \in Layers \ SkipLayers, r \in Live : \A p \in start[r] .. start[r] + StepsOf(l) - 1 :
      kv[l][Slot(r, p)] = <<round, p - start[r] + 1>>

(* The scratch of a layer mirrors the columns it has attended over so far. *)
ScratchInv ==
  pc = "draft" /\ Gather =>
    \A l \in Layers : Kept(l) =>
      /\ fresh[l] <=> StepsOf(l) > 0
      /\ StepsOf(l) > 0 => \A r \in Live :
           \A i \in 0 .. Picked(l, r) + start[r] - valid[r] + StepsOf(l) - 1 :
             scratch[l][r][i] = <<table[l][r][i], kv[l][table[l][r][i]]>>

(* The conjunction that every step preserves. *)
IInv ==
  /\ TypeOK /\ LayerInv /\ BatchInv /\ PrefixInv /\ SelectedInv
  /\ \A l \in Layers, r \in Rows : used[l][r] <= Width
  /\ DraftInv /\ ConvertedInv /\ DraftedInv /\ ScratchInv

-----------------------------------------------------------------------------
(* Facts about the operators *)

(* Rounding a ratio of a length up gives a length. *)
LEMMA CeilRatioType ==
  ASSUME NEW n \in Nat PROVE CeilRatio(n) \in Nat
<1>1. n * RatioNum \in Nat
  BY SizeAssumption
<1> DEFINE m == n * RatioNum + RatioDen - 1
<1>2. m \in Nat
  BY <1>1, SizeAssumption
<1> HIDE DEF m
<1>3. m \div RatioDen \in Nat
  BY <1>2, SizeAssumption
<1> QED
  BY <1>3, Zenon DEF CeilRatio, m

(* The cap and the row width are sizes. *)
LEMMA Sizes ==
  /\ MaxTokens \in Nat /\ MinTokens <= MaxTokens
  /\ Width \in Nat /\ Width = MaxTokens + Sink + Recent + 2 * NumSpec + 1
<1>1. CeilRatio(MaxModelLen) \in Nat
  BY CeilRatioType, SizeAssumption, Zenon
<1>2. MaxTokens \in Nat /\ MinTokens <= MaxTokens
  BY <1>1, SizeAssumption DEF MaxTokens, Larger
<1> QED
  BY <1>2, SizeAssumption DEF Width

(* What _begin_verify computes of a row stays in range. *)
LEMMA PrefixTypes ==
  ASSUME NEW s \in RowShape
  PROVE  /\ ValidLen(s) \in 0 .. MaxModelLen
         /\ KMax(s) \in 0 .. MaxTokens /\ KMin(s) \in 0 .. MinTokens
         /\ s.q >= 1 => ValidLen(s) >= 1
<1>1. s.k \in 0 .. MaxModelLen /\ s.q \in 0 .. MaxModelLen /\ s.q <= s.k
  BY Zenon DEF RowShape
<1>2. ValidLen(s) \in 0 .. MaxModelLen /\ (s.q >= 1 => ValidLen(s) >= 1)
  BY <1>1, SizeAssumption DEF ValidLen
<1>3. CeilRatio(s.k) \in Nat
  BY <1>1, CeilRatioType, SizeAssumption
<1> QED
  BY <1>2, <1>3, Sizes, SizeAssumption DEF KMax, KMin, Smaller, Larger

(* The sink and the recent range of a prefix do not overlap and lie in it. *)
LEMMA ReservedTypes ==
  ASSUME NEW p \in Nat
  PROVE  /\ SinkEff(p) \in Nat /\ RecentEff(p) \in Nat /\ Reserved(p) \in Nat
         /\ SinkEff(p) + RecentEff(p) <= p
         /\ Reserved(p) = SinkEff(p) + RecentEff(p)
         /\ Reserved(p) <= Sink + Recent
BY SizeAssumption DEF SinkEff, RecentEff, Reserved, Smaller

(* A pick is a strictly increasing choice of candidates, within the clamps. *)
LEMMA PickShape ==
  ASSUME NEW p \in Nat \ {0}, NEW lo \in Nat, NEW hi \in 0 .. MaxTokens,
         NEW pick \in Picks(p, lo, hi)
  PROVE  /\ pick.n \in 0 .. MaxTokens /\ pick.n + Reserved(p) <= Width
         /\ pick.of \in [0 .. pick.n - 1 -> Candidates(p)]
         /\ \A i, j \in 0 .. pick.n - 1 : i < j => pick.of[i] < pick.of[j]
<1>1. PICK k \in Counts(p, lo, hi) :
        pick \in {[n |-> k, of |-> f] : f \in {g \in [0 .. k - 1 -> Candidates(p)] :
                    \A i, j \in 0 .. k - 1 : i < j => g[i] < g[j]}}
  BY DEF Picks
<1>2. PICK f \in [0 .. k - 1 -> Candidates(p)] :
        /\ pick = [n |-> k, of |-> f]
        /\ \A i, j \in 0 .. k - 1 : i < j => f[i] < f[j]
  BY <1>1, Zenon
<1>3. k \in 0 .. MaxTokens /\ k + Reserved(p) <= Width
  <2>1. Reserved(p) \in Nat /\ Width \in Nat /\ p \in Nat /\ MaxTokens \in Nat
    <3>1. p \in Nat
      BY Zenon
    <3>2. Reserved(p) \in Nat
      BY <3>1, ReservedTypes, Zenon
    <3> QED
      BY <3>1, <3>2, Sizes, Zenon
  <2> QED
    BY <2>1 DEF Counts, Smaller
<1> QED
  BY <1>2, <1>3, Zenon

(* mass_select's row: distinct prefix positions, the reserved ranges among   *)
(* them, and as many as the table row has columns for at most.               *)
LEMMA SelectedShape ==
  ASSUME NEW p \in 0 .. MaxModelLen, NEW lo \in Nat, NEW hi \in 0 .. MaxTokens,
         NEW old \in [Columns -> Nat], NEW pick \in Picks(p, lo, hi),
         NEW u, u = IF p <= 0 THEN 0 ELSE pick.n + Reserved(p)
  PROVE  /\ SelectedRow(old, p, pick) \in [Columns -> Nat]
         /\ u \in 0 .. Width
         /\ GoodRow(SelectedRow(old, p, pick), u, p)
<1> DEFINE row == SelectedRow(old, p, pick)
<1>0. p \in Nat
  BY SizeAssumption
<1>1. CASE p = 0
  <2>1. u = 0 /\ SelectedRow(old, p, pick) = [i \in Columns |-> old[i]]
    BY <1>1 DEF SelectedRow
  <2>2. ReservedOf(p) = {}
    BY <1>1, SizeAssumption DEF ReservedOf, SinkEff, RecentEff, Smaller
  <2>3. Reserved(p) \in Nat
    BY <1>0, ReservedTypes, Zenon
  <2> QED
    BY <2>1, <2>2, <2>3, Sizes DEF GoodRow
<1>2. CASE p # 0
  <2>1. PICK n, f :
          /\ n \in Nat /\ pick.n = n /\ pick.of = f
          /\ n <= MaxTokens /\ n + Reserved(p) <= Width
          /\ f \in [0 .. n - 1 -> Candidates(p)]
          /\ \A i, j \in 0 .. n - 1 : i < j => f[i] < f[j]
    <3>1. pick.n \in 0 .. MaxTokens /\ MaxTokens \in Nat
      BY <1>0, <1>2, PickShape, Sizes, Zenon
    <3>2. pick.n \in Nat /\ pick.n <= MaxTokens
      BY <3>1
    <3> QED
      BY <1>0, <1>2, <3>2, PickShape, Zenon
  <2> n \in Nat
    BY <2>1, Zenon
  <2>2. PICK se \in Nat, re \in Nat :
          SinkEff(p) = se /\ RecentEff(p) = re /\ Reserved(p) = se + re /\ se + re <= p
    BY <1>0, ReservedTypes, Zenon
  <2>3. u = n + se + re /\ u \in 0 .. Width /\ u <= MaxTokens + Reserved(p)
    <3>1. u = n + Reserved(p)
      BY <1>0, <1>2, <2>1
    <3>2. n <= MaxTokens /\ n + Reserved(p) <= Width
      BY <2>1, Zenon
    <3>3. Width \in Nat /\ MaxTokens \in Nat
      BY Sizes, Zenon
    <3> QED
      BY <3>1, <3>2, <3>3, <2>2
  <2>4. \A i \in 0 .. u - 1 : i \in Columns
    <3>1. Width \in Nat
      BY Sizes, Zenon
    <3> QED
      BY <3>1, <2>3 DEF Columns
  <2>0. \A i \in Columns :
          row[i] = IF i < n THEN f[i]
                   ELSE IF i < n + se THEN i - n
                   ELSE IF i < n + (se + re) THEN p - re + (i - n - se)
                   ELSE old[i]
    <3>1. ~(p <= 0)
      BY <1>0, <1>2
    <3> QED
      BY <3>1, <2>1, <2>2, Zenon DEF SelectedRow
  <2>12. row = [i \in Columns |-> row[i]]
    BY Zenon DEF SelectedRow
  <2> HIDE DEF row
  <2>5. \A i \in 0 .. n - 1 : row[i] = f[i] /\ row[i] \in se .. p - re - 1
    <3> SUFFICES ASSUME NEW i \in 0 .. n - 1
                 PROVE  row[i] = f[i] /\ row[i] \in se .. p - re - 1
      BY Zenon
    <3>1. f[i] \in Candidates(p)
      BY <2>1, Zenon
    <3>2. f[i] \in se .. p - re - 1
      BY <3>1, <2>2, Zenon DEF Candidates
    <3>3. i \in Columns /\ i < n
      BY <2>2, <2>3, <2>4
    <3> QED
      BY <3>2, <3>3, <2>0, Zenon
  <2>6. \A i \in n .. n + se - 1 : row[i] = i - n
    BY <2>0, <2>2, <2>3, <2>4
  <2>7. \A i \in n + se .. u - 1 : row[i] = p - re + (i - n - se)
    BY <2>0, <2>2, <2>3, <2>4
  <2>13. Columns \subseteq Nat
    BY Sizes DEF Columns
  <2>8. row \in [Columns -> Nat]
    <3>1. ASSUME NEW i \in Columns PROVE row[i] \in Nat
      <4>1. CASE i < u
        BY <1>0, <4>1, <2>2, <2>3, <2>5, <2>6, <2>7, <2>13
      <4>2. CASE ~(i < u)
        <5>1. row[i] = old[i]
          BY <4>2, <2>0, <2>2, <2>3, <2>13
        <5> QED
          BY <5>1, Zenon
      <4> QED
        BY <4>1, <4>2, Zenon
    <3> QED
      BY <3>1, <2>12, Zenon
  <2>9. \A i \in 0 .. u - 1 : row[i] \in 0 .. p - 1
    BY <1>0, <2>2, <2>3, <2>5, <2>6, <2>7
  <2>10. \A i, j \in 0 .. u - 1 : row[i] = row[j] => i = j
    <3> SUFFICES ASSUME NEW i \in 0 .. u - 1, NEW j \in 0 .. u - 1, i < j
                 PROVE  row[i] # row[j]
      BY <2>3, Sizes
    <3>1. CASE j < n
      <4>1. f[i] \in Int /\ f[j] \in Int /\ f[i] < f[j]
        BY <3>1, <2>1, <2>2, <1>0 DEF Candidates
      <4> QED
        BY <4>1, <3>1, <2>1, <2>5
    <3>2. CASE i < n /\ j >= n
      BY <1>0, <3>2, <2>2, <2>3, <2>5, <2>6, <2>7
    <3>3. CASE i >= n
      BY <1>0, <3>3, <2>2, <2>3, <2>6, <2>7
    <3> QED
      BY <3>1, <3>2, <3>3, <2>1, <2>2
  <2>11. ASSUME NEW q \in ReservedOf(p) PROVE \E i \in 0 .. u - 1 : row[i] = q
    <3>1. CASE q \in 0 .. se - 1
      <4>1. n + q \in n .. n + se - 1 /\ n + q \in 0 .. u - 1
        BY <3>1, <2>2, <2>3, <1>0
      <4>2. row[n + q] = q
        BY <4>1, <2>6, <3>1, <2>2, <2>3, <1>0
      <4> QED
        BY <4>1, <4>2, Zenon
    <3>2. CASE q \in p - re .. p - 1
      <4> DEFINE i == n + se + (q - (p - re))
      <4>1. i \in n + se .. u - 1 /\ i \in 0 .. u - 1
        BY <3>2, <2>2, <2>3, <1>0
      <4>2. row[i] = q
        BY <4>1, <2>7, <3>2, <2>2, <2>3, <1>0
      <4> QED
        BY <4>1, <4>2, Zenon
    <3> QED
      BY <3>1, <3>2, <2>2, Zenon DEF ReservedOf
  <2> QED
    BY <2>3, <2>8, <2>9, <2>10, <2>11, Zenon DEF GoodRow, row
<1> QED
  BY <1>1, <1>2, Zenon

(* A position of a row has a slot of the cache, and no two share one. *)
LEMMA SlotFacts ==
  /\ Slots \subseteq Nat
  /\ \A r \in Rows, p \in 0 .. MaxModelLen - 1 :
       Slot(r, p) \in Slots /\ Slot(r, p) \in Nat
  /\ \A r1, r2 \in Rows, p1, p2 \in 0 .. MaxModelLen - 1 :
       Slot(r1, p1) = Slot(r2, p2) => r1 = r2 /\ p1 = p2
<1>1. Slots \subseteq Nat
  <2>1. NumBlocks * BlockSize \in Nat
    BY SizeAssumption
  <2> QED
    BY <2>1 DEF Slots
<1> QED
  BY <1>1, BlockAssumption, Zenon

(* it is one of the selection's or of the m - v that follow it.              *)
LEMMA SlotOfColumn ==
  ASSUME NEW r, NEW n, NEW v \in Nat, NEW last \in Nat, NEW m \in Nat, NEW row,
         SlotRow(row, r, n, v, last), v <= m, m <= last,
         NEW i \in 0 .. n + m - v - 1
  PROVE  \E p \in 0 .. m - 1 : row[i] = Slot(r, p) /\ (i >= n => p = v + (i - n))
                                                   /\ (i < n => p < v)
<1>1. n \in Nat
  BY Zenon DEF SlotRow
<1>2. CASE i < n
  <2>1. i \in 0 .. n - 1
    BY <1>1, <1>2
  <2>2. PICK p \in 0 .. v - 1 : row[i] = Slot(r, p)
    BY <2>1, Zenon DEF SlotRow
  <2> QED
    BY <1>1, <1>2, <2>2
<1>3. CASE ~(i < n)
  <2>1. i \in n .. n + last - v - 1
    BY <1>1, <1>3
  <2>2. row[i] = Slot(r, v + (i - n))
    BY <2>1, Zenon DEF SlotRow
  <2>3. v + (i - n) \in 0 .. m - 1
    BY <1>1, <1>3
  <2> QED
    BY <1>1, <1>3, <2>2, <2>3, Zenon
<1> QED
  BY <1>2, <1>3, Zenon

(* The u columns of row that a draft step attends over hold the slots of r:  *)
(* n selected ones, then those of v .. m - 1.                                *)
ReadRow(r, row, u, n, v, m) ==
  /\ r \in Rows /\ n \in Nat /\ v \in Nat /\ m \in Nat /\ v <= m
  /\ u \in Nat /\ u - 1 = n + m - v - 1
  /\ \E last \in Nat : m <= last /\ last <= MaxModelLen /\ SlotRow(row, r, n, v, last)

(* Each of them is the slot of a position of r. *)
LEMMA ColumnIsSlot ==
  ASSUME NEW r, NEW row, NEW u, NEW n, NEW v, NEW m, ReadRow(r, row, u, n, v, m), NEW i \in 0 .. u - 1
  PROVE  \E p \in 0 .. m - 1 : /\ row[i] = Slot(r, p)
                               /\ (i >= n => p = v + (i - n)) /\ (i < n => p < v)
<1>1. PICK last \in Nat : m <= last /\ SlotRow(row, r, n, v, last)
  BY Zenon DEF ReadRow
<1>2. i \in 0 .. n + m - v - 1 /\ v \in Nat /\ m \in Nat /\ v <= m
  BY Zenon DEF ReadRow
<1> QED
  BY <1>1, <1>2, SlotOfColumn, SMT

(* No two of them are the same. *)
LEMMA ColumnsDiffer ==
  ASSUME NEW r, NEW row, NEW u, NEW n, NEW v, NEW m, ReadRow(r, row, u, n, v, m),
         NEW i \in 0 .. u - 1, NEW j \in 0 .. u - 1, row[i] = row[j]
  PROVE  i = j
<1>1. PICK last \in Nat : m <= last /\ last <= MaxModelLen /\ SlotRow(row, r, n, v, last)
  BY Zenon DEF ReadRow
<1>2. r \in Rows /\ n \in Nat /\ v \in Nat /\ m \in Nat /\ u \in Nat
  BY Zenon DEF ReadRow
<1>3. PICK p \in 0 .. m - 1 : /\ row[i] = Slot(r, p)
                              /\ (i >= n => p = v + (i - n)) /\ (i < n => p < v)
  BY ColumnIsSlot, SMT
<1>4. PICK q \in 0 .. m - 1 : /\ row[j] = Slot(r, q)
                              /\ (j >= n => q = v + (j - n)) /\ (j < n => q < v)
  BY ColumnIsSlot, SMT
<1>5. p \in 0 .. MaxModelLen - 1 /\ q \in 0 .. MaxModelLen - 1
  BY <1>1, <1>2, SizeAssumption, SMT
<1>6. p = q
  <2>1. Slot(r, p) = Slot(r, q)
    BY <1>3, <1>4, Zenon
  <2> QED
    BY <1>2, <1>5, <2>1, SlotFacts, ZenonT(30)
<1>7. CASE i < n /\ j < n
  <2>1. i \in 0 .. n - 1 /\ j \in 0 .. n - 1
    BY <1>2, <1>7, SMT
  <2> QED
    BY <1>1, <2>1, Zenon DEF SlotRow
<1>8. CASE ~(i < n /\ j < n)
  BY <1>2, <1>3, <1>4, <1>6, <1>8, SMT
<1> QED
  BY <1>7, <1>8, Zenon

(* They cover the reserved positions and all from v on. *)
LEMMA ColumnsCover ==
  ASSUME NEW r, NEW row, NEW u, NEW n, NEW v, NEW m, ReadRow(r, row, u, n, v, m),
         NEW p \in (0 .. SinkEff(v) - 1) \cup (v - RecentEff(v) .. m - 1)
  PROVE  \E i \in 0 .. u - 1 : row[i] = Slot(r, p)
<1>1. PICK last \in Nat : m <= last /\ SlotRow(row, r, n, v, last)
  BY Zenon DEF ReadRow
<1>2. n \in Nat /\ v \in Nat /\ m \in Nat /\ v <= m /\ u \in Nat /\ u - 1 = n + m - v - 1
  BY Zenon DEF ReadRow
<1>3. SinkEff(v) \in Nat /\ RecentEff(v) \in Nat
  BY <1>2, ReservedTypes, Zenon
<1>4. CASE p \in ReservedOf(v)
  <2>1. PICK i \in 0 .. n - 1 : row[i] = Slot(r, p)
    BY <1>1, <1>4, Zenon DEF SlotRow
  <2>2. i \in 0 .. u - 1
    BY <1>2, SMT
  <2> QED
    BY <2>1, <2>2, Zenon
<1>5. CASE p \notin ReservedOf(v)
  <2>1. p \in v .. m - 1
    BY <1>2, <1>3, <1>5, SMT DEF ReservedOf
  <2> DEFINE i == n + (p - v)
  <2>2. i \in n .. n + last - v - 1 /\ i \in 0 .. u - 1 /\ v + (i - n) = p
    BY <1>1, <1>2, <2>1, SMT
  <2>3. row[i] = Slot(r, v + (i - n))
    BY <1>1, <2>2, Zenon DEF SlotRow
  <2> QED
    BY <2>2, <2>3, Zenon
<1> QED
  BY <1>4, <1>5, Zenon

(* What a draft step reads through such a row. *)
RowReads(r, row, u, v, m) ==
  /\ \A i \in 0 .. u - 1 : \E p \in 0 .. m - 1 : row[i] = Slot(r, p)
  /\ \A i, j \in 0 .. u - 1 : row[i] = row[j] => i = j
  /\ \A p \in (0 .. SinkEff(v) - 1) \cup (v - RecentEff(v) .. m - 1) :
       \E i \in 0 .. u - 1 : row[i] = Slot(r, p)

(* It reads slots of r, each once, and none of the required ones is missing. *)
LEMMA ReadRowReads ==
  ASSUME NEW r, NEW row, NEW u, NEW n, NEW v, NEW m, ReadRow(r, row, u, n, v, m)
  PROVE  RowReads(r, row, u, v, m)
<1>1. ASSUME NEW i \in 0 .. u - 1 PROVE \E p \in 0 .. m - 1 : row[i] = Slot(r, p)
  BY ColumnIsSlot, SMT
<1>2. ASSUME NEW i \in 0 .. u - 1, NEW j \in 0 .. u - 1, row[i] = row[j] PROVE i = j
  BY <1>2, ColumnsDiffer, SMT
<1>3. ASSUME NEW p \in (0 .. SinkEff(v) - 1) \cup (v - RecentEff(v) .. m - 1)
      PROVE  \E i \in 0 .. u - 1 : row[i] = Slot(r, p)
  BY ColumnsCover, SMT
<1> QED
  BY <1>1, <1>2, <1>3, Zenon DEF RowReads

(* index_to_slots on a selected row: the selection's slots, then the slots   *)
(* of every position from the prefix's end to the last one of the draft.     *)
LEMMA ConvertedShape ==
  ASSUME NEW r \in Rows, NEW u \in Nat, NEW v \in Nat, NEW last \in Nat,
         v <= last, last <= MaxModelLen, u + last - v <= Width,
         NEW old \in [Columns -> Nat], GoodRow(old, u, v)
  PROVE  /\ ConvertedRow(old, r, u, v, last) \in [Columns -> Nat]
         /\ SlotRow(ConvertedRow(old, r, u, v, last), r, u, v, last)
<1> DEFINE row == ConvertedRow(old, r, u, v, last)
<1>1. MaxModelLen \in Nat /\ Width \in Nat
  BY SizeAssumption, Sizes, Zenon
<1>2. Columns = 0 .. Width - 1
  BY Zenon DEF Columns
<1>3. \A i \in Columns : row[i] = IF i < u THEN Slot(r, old[i])
                                  ELSE IF i < u + last - v THEN Slot(r, v + (i - u))
                                  ELSE old[i]
  BY Zenon DEF ConvertedRow
<1>4. row = [i \in Columns |-> row[i]]
  BY Zenon DEF ConvertedRow
<1> HIDE DEF row
<1>5. /\ \A i \in 0 .. u - 1 : old[i] \in 0 .. v - 1
      /\ \A i, j \in 0 .. u - 1 : old[i] = old[j] => i = j
      /\ \A p \in ReservedOf(v) : \E i \in 0 .. u - 1 : old[i] = p
  BY Zenon DEF GoodRow
<1>6. ASSUME NEW i \in 0 .. u - 1
      PROVE  row[i] = Slot(r, old[i]) /\ old[i] \in 0 .. MaxModelLen - 1
  <2>1. i \in Columns /\ i < u
    BY <1>1, <1>2
  <2>2. old[i] \in 0 .. MaxModelLen - 1
    BY <1>5, <1>1
  <2> QED
    BY <2>1, <2>2, <1>3, Zenon
<1>7. ASSUME NEW i \in u .. u + last - v - 1
      PROVE  row[i] = Slot(r, v + (i - u)) /\ v + (i - u) \in 0 .. MaxModelLen - 1
  <2>1. i \in Columns /\ ~(i < u) /\ i < u + last - v
    BY <1>1, <1>2
  <2>2. v + (i - u) \in 0 .. MaxModelLen - 1
    BY <1>1
  <2> QED
    BY <2>1, <2>2, <1>3, Zenon
<1>8. row \in [Columns -> Nat]
  <2>1. ASSUME NEW i \in Columns PROVE row[i] \in Nat
    <3>1. CASE i < u
      <4>1. i \in 0 .. u - 1
        BY <3>1, <1>1, <1>2
      <4> QED
        BY <4>1, <1>6, SlotFacts
    <3>2. CASE ~(i < u) /\ i < u + last - v
      <4>1. i \in u .. u + last - v - 1
        BY <3>2, <1>1, <1>2
      <4> QED
        BY <4>1, <1>7, SlotFacts
    <3>3. CASE ~(i < u) /\ ~(i < u + last - v)
      BY <3>3, <1>3, Zenon
    <3> QED
      BY <3>1, <3>2, <3>3, Zenon
  <2> QED
    BY <2>1, <1>4, Zenon
<1>9. \A i \in 0 .. u - 1 : \E p \in 0 .. v - 1 : row[i] = Slot(r, p)
  BY <1>5, <1>6, Zenon
<1>10. \A i, j \in 0 .. u - 1 : row[i] = row[j] => i = j
  <2> SUFFICES ASSUME NEW i \in 0 .. u - 1, NEW j \in 0 .. u - 1, row[i] = row[j]
               PROVE  i = j
    BY Zenon
  <2>1. old[i] = old[j]
    BY <1>6, SlotFacts
  <2> QED
    BY <2>1, <1>5, Zenon
<1>11. ASSUME NEW p \in ReservedOf(v) PROVE \E i \in 0 .. u - 1 : row[i] = Slot(r, p)
  BY <1>5, <1>6, Zenon
<1> QED
  BY <1>7, <1>8, <1>9, <1>10, <1>11, Zenon DEF SlotRow, row

(* A forward pass leaves a cache of writes. *)
LEMMA WrittenType ==
  ASSUME NEW old \in [Slots -> Version], NEW positions, NEW by \in Version
  PROVE  Written(old, positions, by) \in [Slots -> Version]
BY Zenon DEF Written

-----------------------------------------------------------------------------
(* Initially *)

(* The program starts with it. *)
LEMMA InitInv == Init => IInv
<1> SUFFICES ASSUME Init PROVE IInv
  BY Zenon
<1>1. TypeOK
  <2>1. /\ Padding \in RowShape /\ <<0, 0>> \in Version /\ 0 \in Layers
        /\ 0 \in 0 .. MinTokens /\ 0 \in 0 .. MaxTokens
    BY SizeAssumption, Sizes DEF Padding, RowShape, Version, Layers
  <2>2. kv \in [Layers -> [Slots -> Version]]
    BY <2>1, Zenon DEF Init
  <2>3. <<0, <<0, 0>>>> \in Nat \X Version
    BY <2>1, Zenon
  <2>4. scratch \in [Layers -> [Rows -> [Columns -> Nat \X Version]]]
    <3> DEFINE z == <<0, <<0, 0>>>>
    <3> HIDE DEF z
    <3>1. scratch = [l \in Layers |-> [r \in Rows |-> [i \in Columns |-> z]]]
      BY Zenon DEF z, Init
    <3>2. z \in Nat \X Version
      BY <2>3, Zenon DEF z
    <3> QED
      BY <3>1, <3>2, Zenon
  <2>5. /\ shape \in [Rows -> RowShape]
        /\ start \in [Rows -> 0 .. MaxModelLen] /\ seqlens \in [Rows -> 0 .. MaxModelLen]
        /\ valid \in [Rows -> 0 .. MaxModelLen]
        /\ k_min \in [Rows -> 0 .. MinTokens] /\ k_max \in [Rows -> 0 .. MaxTokens]
    BY <2>1, SizeAssumption DEF Init
  <2>6. /\ table \in [Layers -> [Rows -> [Columns -> Nat]]]
        /\ used \in [Layers -> [Rows -> Nat]] /\ fresh \in [Layers -> BOOLEAN]
    BY Zenon DEF Init
  <2>7. /\ pc = "idle" /\ round = 0 /\ nreq = 0 /\ layer = 0 /\ step = 0
        /\ in_propose = FALSE /\ curr_layer = 0 /\ metadata_initialized = FALSE
    BY Zenon DEF Init
  <2>8. /\ round \in 0 .. MaxRounds /\ nreq \in 0 .. MaxBatch
        /\ layer \in 0 .. NumLayers /\ step \in 0 .. NumSpec - 1 /\ curr_layer \in Layers
        /\ pc \in {"idle", "verify", "sample", "draft"}
    BY <2>1, <2>7, SizeAssumption
  <2>9. in_propose \in BOOLEAN /\ metadata_initialized \in BOOLEAN
    BY <2>7, Zenon
  <2> QED
    BY <2>2, <2>4, <2>5, <2>6, <2>8, <2>9, Zenon DEF TypeOK
<1>2. LayerInv
  BY SizeAssumption DEF Init, LayerInv, LayerAligned
<1>3. BatchInv /\ PrefixInv /\ SelectedInv /\ DraftInv /\ ConvertedInv /\ DraftedInv /\ ScratchInv
  BY Zenon DEF Init, BatchInv, PrefixInv, SelectedInv, DraftInv, ConvertedInv, DraftedInv, ScratchInv
<1>4. \A l \in Layers, r \in Rows : used[l][r] <= Width
  BY Sizes DEF Init
<1> QED
  BY <1>1, <1>2, <1>3, <1>4, Zenon DEF IInv

(* A new batch: outside a propose and a selection most of IInv is void. *)
LEMMA StartVerifyInv == ASSUME IInv, StartVerify PROVE IInv'
<1>0. /\ pc' = "verify" /\ layer' = 0 /\ round < MaxRounds /\ round' = round + 1
      /\ UNCHANGED <<step, start, seqlens, kv, in_propose, curr_layer, metadata_initialized,
                     valid, k_min, k_max, table, used, fresh, scratch>>
  BY Zenon DEF StartVerify, python, prefix, selection, draftKV
<1>1. PICK n \in 1 .. MaxBatch : \E sh \in [0 .. n - 1 -> Shapes] :
        nreq' = n /\ shape' = [r \in Rows |-> IF r < n THEN sh[r] ELSE Padding]
  BY Zenon DEF StartVerify
<1>2. PICK sh \in [0 .. n - 1 -> Shapes] :
        nreq' = n /\ shape' = [r \in Rows |-> IF r < n THEN sh[r] ELSE Padding]
  BY <1>1, Zenon
<1>3. ASSUME NEW r \in Rows
      PROVE  /\ shape'[r] \in RowShape
             /\ IF r < nreq' THEN shape'[r].q >= 1 ELSE shape'[r] = Padding
  <2>1. CASE r < n
    <3>1. r \in 0 .. n - 1
      BY <2>1, SizeAssumption DEF Rows
    <3>2. sh[r] \in Shapes
      BY <3>1, Zenon
    <3> QED
      BY <2>1, <3>2, <1>2, ModeAssumption, Zenon
  <2>2. CASE ~(r < n)
    <3>1. Padding \in RowShape
      BY SizeAssumption DEF Padding, RowShape
    <3> QED
      BY <2>2, <3>1, <1>2, Zenon
  <2> QED
    BY <2>1, <2>2, Zenon
<1>4. shape' \in [Rows -> RowShape]
  BY <1>2, <1>3, Zenon
<1>5. nreq' \in 1 .. MaxBatch /\ round' \in 0 .. MaxRounds /\ layer' \in 0 .. NumLayers
  BY <1>0, <1>2, SizeAssumption DEF IInv, TypeOK
<1>6. TypeOK'
  BY <1>0, <1>4, <1>5, SizeAssumption DEF IInv, TypeOK
<1>7. LayerInv'
  BY LayerStep, Zenon DEF IInv, Next
<1>8. BatchInv'
  BY <1>0, <1>3, <1>5, SizeAssumption DEF BatchInv
<1>9. PrefixInv' /\ SelectedInv' /\ DraftInv' /\ ConvertedInv' /\ DraftedInv' /\ ScratchInv'
  <2>1. ~(layer' > 0)
    BY <1>0
  <2> QED
    BY <1>0, <2>1, Zenon DEF PrefixInv, SelectedInv, DraftInv, ConvertedInv, DraftedInv, ScratchInv
<1>10. \A l \in Layers, r \in Rows : used'[l][r] <= Width
  BY <1>0, Zenon DEF IInv
<1> QED
  BY <1>6, <1>7, <1>8, <1>9, <1>10, Zenon DEF IInv

(* The buffers of a verify pass agree with the batch it runs on. *)
LEMMA BeginVerifyStep ==
  ASSUME IInv, BeginVerify, shape' = shape
  PROVE  /\ valid' \in [Rows -> 0 .. MaxModelLen]
         /\ k_min' \in [Rows -> 0 .. MinTokens] /\ k_max' \in [Rows -> 0 .. MaxTokens]
         /\ PrefixKnown'
<1>1. \A r \in Rows : shape[r] \in RowShape
  BY Zenon DEF IInv, TypeOK
<1>2. \A r \in Rows : /\ ValidLen(shape[r]) \in 0 .. MaxModelLen
                      /\ KMax(shape[r]) \in 0 .. MaxTokens
                      /\ KMin(shape[r]) \in 0 .. MinTokens
  BY <1>1, PrefixTypes, Zenon
<1> QED
  BY <1>2, Zenon DEF BeginVerify, PrefixKnown

(* _select fills every row of every layer with a selection of its prefix. *)
LEMMA SelectStep ==
  ASSUME IInv, Select, valid' \in [Rows -> 0 .. MaxModelLen],
         k_min' \in [Rows -> 0 .. MinTokens], k_max' \in [Rows -> 0 .. MaxTokens]
  PROVE  /\ table' \in [Layers -> [Rows -> [Columns -> Nat]]]
         /\ used' \in [Layers -> [Rows -> Nat]]
         /\ \A l \in Layers, r \in Rows :
              used'[l][r] <= Width /\ GoodRow(table'[l][r], used'[l][r], valid'[r])
<1>1. PICK pick :
        /\ \A l \in Layers, r \in Rows :
             pick[l][r] \in Picks(valid'[r], k_min'[r], k_max'[r])
        /\ table' = [l \in Layers |-> [r \in Rows |->
                       SelectedRow(table[l][r], valid'[r], pick[l][r])]]
        /\ used' = [l \in Layers |-> [r \in Rows |->
                      IF valid'[r] <= 0 THEN 0 ELSE pick[l][r].n + Reserved(valid'[r])]]
  BY Zenon DEF Select
<1>2. ASSUME NEW l \in Layers, NEW r \in Rows
      PROVE  /\ table'[l][r] \in [Columns -> Nat] /\ used'[l][r] \in 0 .. Width
             /\ GoodRow(table'[l][r], used'[l][r], valid'[r])
  <2>1. /\ valid'[r] \in 0 .. MaxModelLen /\ k_min'[r] \in Nat
        /\ k_max'[r] \in 0 .. MaxTokens /\ table[l][r] \in [Columns -> Nat]
    BY SizeAssumption DEF IInv, TypeOK
  <2>2. /\ pick[l][r] \in Picks(valid'[r], k_min'[r], k_max'[r])
        /\ table'[l][r] = SelectedRow(table[l][r], valid'[r], pick[l][r])
        /\ used'[l][r] = IF valid'[r] <= 0 THEN 0 ELSE pick[l][r].n + Reserved(valid'[r])
    BY <1>1, Zenon
  <2> QED
    BY <2>1, <2>2, SelectedShape, SMTT(30)
<1>3. \A l \in Layers, r \in Rows : used'[l][r] \in Nat /\ used'[l][r] <= Width
  BY <1>2, Sizes
<1>4. table' \in [Layers -> [Rows -> [Columns -> Nat]]]
  <2>1. table' = [l \in Layers |-> [r \in Rows |-> table'[l][r]]]
    BY <1>1, Zenon
  <2> QED
    BY <2>1, <1>2, Zenon
<1>5. used' \in [Layers -> [Rows -> Nat]]
  <2>1. used' = [l \in Layers |-> [r \in Rows |-> used'[l][r]]]
    BY <1>1, Zenon
  <2> QED
    BY <2>1, <1>3, Zenon
<1> QED
  BY <1>2, <1>3, <1>4, <1>5, Zenon

(* After the last layer of a verify pass every selection is in place. *)
LEMMA VerifiedInv ==
  ASSUME IInv, [Next]_vars, PrefixKnown',
         valid' \in [Rows -> 0 .. MaxModelLen],
         k_min' \in [Rows -> 0 .. MinTokens], k_max' \in [Rows -> 0 .. MaxTokens],
         kv' \in [Layers -> [Slots -> Version]],
         pc' \in {"verify", "sample"}, pc' = "sample" => Select,
         pc' = "verify" => UNCHANGED selection,
         layer' \in 0 .. NumLayers, curr_layer' \in Layers,
         metadata_initialized' \in BOOLEAN, pc # "idle",
         UNCHANGED <<round, shape, nreq, step, start, seqlens, in_propose, draftKV>>
  PROVE  IInv'
<1>1. LayerInv'
  BY LayerStep, Zenon DEF IInv
<1>2. BatchInv'
  BY Zenon DEF IInv, BatchInv
<1>3. PrefixInv'
  BY Zenon DEF PrefixInv
<1>4. DraftInv' /\ ConvertedInv' /\ DraftedInv' /\ ScratchInv'
  BY Zenon DEF DraftInv, ConvertedInv, DraftedInv, ScratchInv
<1>5. /\ table' \in [Layers -> [Rows -> [Columns -> Nat]]]
      /\ used' \in [Layers -> [Rows -> Nat]]
      /\ \A l \in Layers, r \in Rows : used'[l][r] <= Width
      /\ SelectedInv'
  <2>1. CASE pc' = "sample"
    BY <2>1, SelectStep, Zenon DEF SelectedInv
  <2>2. CASE pc' = "verify"
    BY <2>2, Zenon DEF SelectedInv, IInv, TypeOK, selection
  <2> QED
    BY <2>1, <2>2, Zenon
<1>6. TypeOK'
  BY <1>5, Zenon DEF IInv, TypeOK, draftKV
<1> QED
  BY <1>1, <1>2, <1>3, <1>4, <1>5, <1>6, Zenon DEF IInv

(* An eager verify hook: the first one finds the prefixes, the last selects. *)
LEMMA VerifyLayerInv == ASSUME IInv, VerifyLayer PROVE IInv'
<1>1. layer \in Layers /\ curr_layer = layer /\ pc = "verify" /\ layer \in Int
  BY CounterIsLayer DEF IInv, LayerInv, VerifyLayer
<1>2. /\ valid' \in [Rows -> 0 .. MaxModelLen]
      /\ k_min' \in [Rows -> 0 .. MinTokens] /\ k_max' \in [Rows -> 0 .. MaxTokens]
      /\ PrefixKnown' /\ metadata_initialized' \in BOOLEAN
  <2>1. CASE layer = 0
    BY <1>1, <2>1, BeginVerifyStep, Zenon DEF VerifyLayer
  <2>2. CASE layer # 0
    <3>1. layer > 0
      BY <1>1, <2>2, SizeAssumption DEF Layers
    <3>2. PrefixKnown
      BY <1>1, <3>1, Zenon DEF IInv, PrefixInv
    <3>3. UNCHANGED <<valid, k_min, k_max, shape, metadata_initialized>>
      BY <1>1, <2>2, Zenon DEF VerifyLayer, prefix
    <3> QED
      BY <3>2, <3>3, Zenon DEF PrefixKnown, IInv, TypeOK
  <2> QED
    BY <2>1, <2>2, Zenon
<1>3. kv' \in [Layers -> [Slots -> Version]]
  <2>1. kv \in [Layers -> [Slots -> Version]] /\ <<round, 0>> \in Version
    BY SizeAssumption DEF IInv, TypeOK, Version
  <2>2. Written(kv[layer], VerifyPositions, <<round, 0>>) \in [Slots -> Version]
    BY <2>1, <1>1, WrittenType, Zenon
  <2> QED
    BY <2>1, <2>2, <1>1, Zenon DEF VerifyLayer
<1>4. /\ pc' \in {"verify", "sample"} /\ (pc' = "sample" => Select)
      /\ (pc' = "verify" => UNCHANGED selection)
  BY <1>1, Zenon DEF VerifyLayer
<1>5. layer' \in 0 .. NumLayers /\ curr_layer' \in Layers
  BY <1>1, WrapLayer, SizeAssumption DEF VerifyLayer, AdvanceLayer, Layers
<1>6. UNCHANGED <<round, shape, nreq, step, start, seqlens, in_propose, draftKV>>
  BY Zenon DEF VerifyLayer
<1>7. [Next]_vars
  BY Zenon DEF Next
<1> QED
  BY <1>1, <1>2, <1>3, <1>4, <1>5, <1>6, <1>7, VerifiedInv, Zenon

(* The whole verify pass replayed does the work of every hook at once. *)
LEMMA VerifyReplayInv == ASSUME IInv, VerifyReplay PROVE IInv'
<1>1. /\ valid' \in [Rows -> 0 .. MaxModelLen]
      /\ k_min' \in [Rows -> 0 .. MinTokens] /\ k_max' \in [Rows -> 0 .. MaxTokens]
      /\ PrefixKnown'
  BY BeginVerifyStep, Zenon DEF VerifyReplay
<1>2. kv' \in [Layers -> [Slots -> Version]]
  <2>1. kv \in [Layers -> [Slots -> Version]] /\ <<round, 0>> \in Version
    BY SizeAssumption DEF IInv, TypeOK, Version
  <2>2. \A l \in Layers :
          Written(kv[l], VerifyPositions, <<round, 0>>) \in [Slots -> Version]
    BY <2>1, WrittenType, Zenon
  <2> QED
    BY <2>2, Zenon DEF VerifyReplay
<1>3. /\ pc' = "sample" /\ Select /\ layer' \in 0 .. NumLayers /\ pc # "idle"
      /\ curr_layer' \in Layers /\ metadata_initialized' \in BOOLEAN
  BY SizeAssumption DEF VerifyReplay, python, IInv, TypeOK
<1>4. UNCHANGED <<round, shape, nreq, step, start, seqlens, in_propose, draftKV>>
  BY Zenon DEF VerifyReplay, python
<1>5. [Next]_vars
  BY Zenon DEF Next
<1> QED
  BY <1>1, <1>2, <1>3, <1>4, <1>5, VerifiedInv, Zenon

(* The rollback leaves a row between its scored prefix and NumSpec later. *)
LEMMA EnterProposeInv == ASSUME IInv, EnterPropose PROVE IInv'
<1>1. PICK rej \in [0 .. nreq - 1 -> 0 .. NumSpec] :
        /\ \A r \in 0 .. nreq - 1 : rej[r] \in Rejections(shape[r])
        /\ start' = [r \in Rows |-> IF r < nreq THEN shape[r].k - rej[r] ELSE 0]
  BY Zenon DEF EnterPropose
<1>2. /\ pc = "sample" /\ pc' = "draft" /\ step' = 0 /\ layer' = 0
      /\ in_propose' = TRUE /\ metadata_initialized' = FALSE
      /\ fresh' = [l \in Layers |-> FALSE]
      /\ seqlens' = [r \in Rows |-> IF r < nreq THEN ClampedLen(start'[r]) ELSE 0]
      /\ UNCHANGED <<round, shape, nreq, kv, curr_layer, valid, k_min, k_max,
                     table, used, scratch>>
  BY Zenon DEF EnterPropose, BeginPropose, prefix, selection
<1>3. nreq \in 0 .. MaxBatch /\ Live' = Live /\ Live \subseteq Rows
  BY <1>2, SizeAssumption DEF Live, IInv, TypeOK, Rows
<1>4. ASSUME NEW r \in Live
      PROVE  /\ 1 <= valid[r] /\ valid[r] <= start'[r] /\ start'[r] <= valid[r] + NumSpec
             /\ start'[r] \in Nat /\ start'[r] + NumSpec <= MaxModelLen
             /\ seqlens'[r] = start'[r] + 1
  <2>1. r \in Rows /\ r < nreq /\ r \in 0 .. nreq - 1
    BY <1>3, SizeAssumption DEF Live, Rows
  <2>2. PICK k \in Nat, q \in Nat : shape[r].k = k /\ shape[r].q = q /\ q <= k /\ q >= 1
    <3>1. shape[r] \in RowShape /\ shape[r].q >= 1
      BY <1>2, <2>1, Zenon DEF IInv, TypeOK, BatchInv
    <3>2. shape[r].k \in Nat /\ shape[r].q \in Nat /\ shape[r].q <= shape[r].k
      BY <3>1, SizeAssumption DEF RowShape
    <3> QED
      BY <3>1, <3>2, Zenon
  <2>3. valid[r] = IF q > NumSpec + 1 THEN k ELSE k + 1 - q
    <3>1. valid[r] = ValidLen(shape[r])
      BY <1>2, <2>1, Zenon DEF IInv, PrefixInv, PrefixKnown
    <3> QED
      BY <3>1, <2>2, SizeAssumption DEF ValidLen
  <2>4. k + NumSpec <= MaxModelLen
    BY <2>1, <2>2, Zenon DEF EnterPropose, InputFitsInDrafter
  <2>5. PICK x \in Nat : rej[r] = x /\ x <= q - 1 /\ (q > NumSpec + 1 => x = 0)
    BY <1>1, <2>1, <2>2, SizeAssumption DEF Rejections
  <2>6. start'[r] = k - x
    BY <1>1, <2>1, <2>2, <2>5, Zenon
  <2>7. seqlens'[r] = ClampedLen(k - x)
    BY <1>2, <2>1, <2>6, Zenon
  <2>8. ~(k - x >= MaxModelLen)
    BY <2>2, <2>4, <2>5, SizeAssumption
  <2>9. seqlens'[r] = k - x + 1
    BY <2>7, <2>8, Zenon DEF ClampedLen
  <2> QED
    BY <2>2, <2>3, <2>4, <2>5, <2>6, <2>9, SizeAssumption
<1>5. ASSUME NEW r \in Rows
      PROVE  start'[r] \in 0 .. MaxModelLen /\ seqlens'[r] \in 0 .. MaxModelLen
  <2>1. CASE r < nreq
    <3>1. r \in Live
      BY <2>1, <1>3, SizeAssumption DEF Live, Rows
    <3> QED
      BY <3>1, <1>4, SizeAssumption
  <2>2. CASE ~(r < nreq)
    <3>1. start'[r] = 0 /\ seqlens'[r] = 0
      BY <2>2, <1>1, <1>2, Zenon
    <3> QED
      BY <3>1, SizeAssumption
  <2> QED
    BY <2>1, <2>2, Zenon
<1>6. start' \in [Rows -> 0 .. MaxModelLen] /\ seqlens' \in [Rows -> 0 .. MaxModelLen]
  BY <1>1, <1>2, <1>5, Zenon
<1>7. TypeOK'
  <2>1. layer' \in 0 .. NumLayers /\ step' \in 0 .. NumSpec - 1
    BY <1>2, SizeAssumption
  <2> QED
    BY <1>2, <1>6, <2>1, Zenon DEF IInv, TypeOK
<1>8. LayerInv'
  BY LayerStep, Zenon DEF Next, IInv
<1>9. BatchInv' /\ PrefixInv' /\ SelectedInv'
  BY <1>2, Zenon DEF IInv, BatchInv, PrefixInv, PrefixKnown, SelectedInv
<1>10. Begun' = 0
  BY <1>2 DEF Begun
<1>11. \A l \in Layers : StepsOf(l)' = 0
  BY <1>2, SizeAssumption DEF StepsOf, Layers
<1>12. DraftInv'
  <2>1. \A r \in Live' :
          /\ 1 <= valid'[r] /\ valid'[r] <= start'[r] /\ start'[r] <= valid'[r] + NumSpec
          /\ start'[r] + NumSpec <= MaxModelLen /\ seqlens'[r] = start'[r] + step' + 1
    BY <1>2, <1>3, <1>4
  <2>2. metadata_initialized' <=> Begun' > 0
    BY <1>2, <1>10
  <2> QED
    BY <2>1, <2>2, Zenon DEF DraftInv
<1>13. ConvertedInv'
  BY <1>2, Zenon DEF ConvertedInv
<1>14. DraftedInv'
  <2>1. ASSUME NEW l \in Layers, NEW r \in Live
        PROVE  start'[r] .. start'[r] + StepsOf(l)' - 1 = {}
    BY <1>4, <1>11
  <2> QED
    BY <1>3, <2>1, Zenon DEF DraftedInv
<1>15. ScratchInv'
  BY <1>2, <1>11 DEF ScratchInv
<1>16. \A l \in Layers, r \in Rows : used'[l][r] <= Width
  BY <1>2, Zenon DEF IInv
<1> QED
  BY <1>7, <1>8, <1>9, <1>12, <1>13, <1>14, <1>15, <1>16, Zenon DEF IInv

(* Leaving a propose, or skipping one, keeps the types and the batch. *)
LEMMA IdleInv == ASSUME IInv, NoPropose \/ ExitPropose PROVE IInv'
<1>1. pc' = "idle"
  BY Zenon DEF NoPropose, ExitPropose
<1>2. UNCHANGED <<round, shape, nreq, layer, step, start, seqlens, kv, curr_layer,
                  metadata_initialized, valid, k_min, k_max, table, used, fresh, scratch>>
  BY Zenon DEF NoPropose, ExitPropose, python, prefix, selection, draftKV
<1>3. in_propose' \in BOOLEAN
  BY ZenonT(30) DEF NoPropose, ExitPropose, python, IInv, TypeOK
<1>4. TypeOK'
  BY <1>1, <1>2, <1>3, Zenon DEF IInv, TypeOK
<1>5. LayerInv'
  BY LayerStep, Zenon DEF Next, IInv
<1>6. /\ BatchInv' /\ PrefixInv' /\ SelectedInv' /\ DraftInv' /\ ConvertedInv'
      /\ DraftedInv' /\ ScratchInv'
  BY <1>1, Zenon DEF BatchInv, PrefixInv, SelectedInv, DraftInv, ConvertedInv, DraftedInv, ScratchInv
<1> QED
  BY <1>2, <1>4, <1>5, <1>6, Zenon DEF IInv

(* What the invariant says of a row of a propose. *)
LEMMA DraftFacts ==
  ASSUME IInv, pc = "draft"
  PROVE  /\ Live \subseteq Rows /\ nreq \in Nat /\ step \in Nat /\ step < NumSpec
         /\ layer \in Nat /\ layer <= NumLayers
         /\ metadata_initialized <=> (step > 0 \/ layer > 0)
         /\ \A r \in Rows : r \in Live <=> r < nreq
         /\ \A r \in Live :
              /\ valid[r] \in Nat /\ start[r] \in Nat
              /\ 1 <= valid[r] /\ valid[r] <= start[r] /\ start[r] <= valid[r] + NumSpec
              /\ start[r] + NumSpec <= MaxModelLen
              /\ seqlens[r] = start[r] + step + 1
<1>1. /\ nreq \in 0 .. MaxBatch /\ step \in 0 .. NumSpec - 1 /\ layer \in 0 .. NumLayers
      /\ \A r \in Rows : valid[r] \in 0 .. MaxModelLen /\ start[r] \in 0 .. MaxModelLen
  BY Zenon DEF IInv, TypeOK
<1>2. /\ nreq \in Nat /\ nreq <= MaxBatch /\ step \in Nat /\ step < NumSpec
      /\ layer \in Nat /\ layer <= NumLayers
      /\ \A r \in Rows : valid[r] \in Nat /\ start[r] \in Nat
  BY <1>1, SizeAssumption
<1>3. Live \subseteq Rows /\ \A r \in Rows : r \in Live <=> r < nreq
  BY <1>2, SizeAssumption DEF Live, Rows
<1>4. Begun > 0 <=> (step > 0 \/ layer > 0)
  BY <1>2 DEF Begun
<1>5. metadata_initialized <=> (step > 0 \/ layer > 0)
  BY <1>4, Zenon DEF IInv, DraftInv
<1> QED
  BY <1>2, <1>3, <1>5, Zenon DEF IInv, DraftInv

(* The next draft step: as many steps begun as before, one token further. *)
LEMMA NextDraftStepInv == ASSUME IInv, NextDraftStep PROVE IInv'
<1>1. /\ pc = "draft" /\ pc' = "draft" /\ layer = NumLayers /\ step < NumSpec - 1
      /\ step' = step + 1 /\ layer' = 0
      /\ seqlens' = [r \in Rows |-> IF r < nreq THEN ClampedLen(seqlens[r]) ELSE 0]
      /\ UNCHANGED <<round, shape, nreq, start, kv, in_propose, curr_layer,
                     metadata_initialized, valid, k_min, k_max, table, used, fresh, scratch>>
  BY Zenon DEF NextDraftStep, python, prefix, selection, draftKV
<1>2. /\ Live \subseteq Rows /\ step \in Nat /\ nreq \in Nat
      /\ metadata_initialized <=> (step > 0 \/ layer > 0)
      /\ \A r \in Rows : r \in Live <=> r < nreq
      /\ \A r \in Live :
           /\ start[r] \in Nat /\ start[r] + NumSpec <= MaxModelLen
           /\ seqlens[r] = start[r] + step + 1
  BY <1>1, DraftFacts, Zenon
<1>3. metadata_initialized
  BY <1>1, <1>2, SizeAssumption
<1>4. /\ Begun' = Begun /\ Begun' > 0 /\ Live' = Live
      /\ \A l \in Layers : StepsOf(l)' = StepsOf(l)
  BY <1>1, <1>2, SizeAssumption DEF Begun, StepsOf, Layers, Live
<1>5. \A l \in Layers, r \in Live : Picked(l, r)' = Picked(l, r)
  BY <1>1, <1>4, Zenon DEF Picked
<1>6. ASSUME NEW r \in Live
      PROVE  seqlens'[r] = start[r] + step' + 1 /\ seqlens'[r] \in 0 .. MaxModelLen
  <2>1. ~(seqlens[r] >= MaxModelLen) /\ seqlens[r] \in Nat
    BY <1>1, <1>2, SizeAssumption
  <2>2. seqlens'[r] = ClampedLen(seqlens[r])
    BY <1>1, <1>2, Zenon
  <2>3. seqlens'[r] = seqlens[r] + 1
    BY <2>1, <2>2, Zenon DEF ClampedLen
  <2> QED
    BY <1>1, <1>2, <2>1, <2>3, SizeAssumption
<1>7. seqlens' \in [Rows -> 0 .. MaxModelLen]
  <2>1. ASSUME NEW r \in Rows PROVE seqlens'[r] \in 0 .. MaxModelLen
    <3>1. CASE r \in Live
      BY <3>1, <1>6, Zenon
    <3>2. CASE r \notin Live
      BY <3>2, <1>1, <1>2, SizeAssumption
    <3> QED
      BY <3>1, <3>2, Zenon
  <2> QED
    BY <1>1, <2>1, Zenon
<1>8. TypeOK'
  <2>1. layer' \in 0 .. NumLayers /\ step' \in 0 .. NumSpec - 1
    BY <1>1, <1>2, SizeAssumption
  <2> QED
    BY <1>1, <1>7, <2>1, Zenon DEF IInv, TypeOK
<1>9. LayerInv'
  BY LayerStep, Zenon DEF Next, IInv
<1>10. BatchInv' /\ PrefixInv' /\ SelectedInv'
  BY <1>1, <1>3, Zenon DEF IInv, BatchInv, PrefixInv, PrefixKnown, SelectedInv
<1>11. DraftInv'
  <2>1. \A r \in Live :
          /\ 1 <= valid[r] /\ valid[r] <= start[r] /\ start[r] <= valid[r] + NumSpec
          /\ start[r] + NumSpec <= MaxModelLen
    BY <1>1, DraftFacts, Zenon
  <2>2. metadata_initialized' <=> Begun' > 0
    BY <1>1, <1>3, <1>4, Zenon
  <2> QED
    BY <1>1, <1>4, <1>6, <2>1, <2>2, Zenon DEF DraftInv
<1>12. ConvertedInv'
  BY <1>1, <1>3, <1>4, <1>5, Zenon DEF IInv, ConvertedInv
<1>13. DraftedInv'
  <2>1. \A l \in Layers \ SkipLayers, r \in Live : \A p \in start[r] .. start[r] + StepsOf(l) - 1 :
          kv[l][Slot(r, p)] = <<round, p - start[r] + 1>>
    BY <1>1, Zenon DEF IInv, DraftedInv
  <2>2. ASSUME NEW l \in Layers \ SkipLayers, NEW r \in Live',
               NEW p \in (start[r] .. start[r] + StepsOf(l) - 1)'
        PROVE  (kv[l][Slot(r, p)] = <<round, p - start[r] + 1>>)'
    <3>1. r \in Live /\ StepsOf(l)' = StepsOf(l)
      BY <1>4, Zenon
    <3>2. p \in start[r] .. start[r] + StepsOf(l) - 1
      BY <3>1, <1>1, Zenon
    <3> QED
      BY <2>1, <3>1, <3>2, <1>1, Zenon
  <2> QED
    BY <2>2, Zenon DEF DraftedInv
<1>14. ScratchInv'
  BY <1>1, <1>4, <1>5 DEF IInv, ScratchInv, Kept
<1>15. \A l \in Layers, r \in Rows : used'[l][r] <= Width
  BY <1>1, Zenon DEF IInv
<1> QED
  BY <1>8, <1>9, <1>10, <1>11, <1>12, <1>13, <1>14, <1>15, Zenon DEF IInv

-----------------------------------------------------------------------------
(* The layers of a draft step *)


(* _begin_draft_layer, wherever the draft step meets it first: afterwards    *)
(* the rows are converted, and used counts the token of this step.           *)
LEMMA BeginDraftStep ==
  ASSUME IInv, pc = "draft", layer < NumLayers, BeginDraftLayer,
         layer' = layer + 1, UNCHANGED <<nreq, step, start, valid>>
  PROVE  /\ metadata_initialized' = TRUE
         /\ table' \in [Layers -> [Rows -> [Columns -> Nat]]]
         /\ used' \in [Layers -> [Rows -> Nat]]
         /\ \A l \in Layers, r \in Rows : used'[l][r] <= Width
         /\ \A l \in Layers, r \in Live :
              /\ SlotRow(table'[l][r], r, Picked(l, r)', valid[r], start[r] + NumSpec)
              /\ Picked(l, r)' = used'[l][r] - (start[r] + (step + 1) - valid[r])
         /\ metadata_initialized =>
              table' = table /\ \A l \in Layers, r \in Live : Picked(l, r)' = Picked(l, r)
<1>1. curr_layer = layer
  BY CounterIsLayer, Zenon DEF IInv
<1>2. /\ Live \subseteq Rows /\ nreq \in Nat /\ step \in Nat /\ step < NumSpec
      /\ layer \in Nat
      /\ metadata_initialized <=> (step > 0 \/ layer > 0)
      /\ \A r \in Rows : r \in Live <=> r < nreq
  BY DraftFacts, Zenon
<1>3. \A l \in Layers, r \in Live :
        Picked(l, r)' = used'[l][r] - (start[r] + (step + 1) - valid[r])
  BY <1>2 DEF Picked, Begun
<1>4. /\ table \in [Layers -> [Rows -> [Columns -> Nat]]]
      /\ used \in [Layers -> [Rows -> Nat]]
      /\ \A l \in Layers, r \in Rows : used[l][r] <= Width
  BY Zenon DEF IInv, TypeOK
<1>5. CASE layer # 0
  <2>1. metadata_initialized = TRUE /\ UNCHANGED <<table, used, metadata_initialized>>
    BY <1>1, <1>2, <1>5 DEF BeginDraftLayer, selection, IInv, TypeOK
  <2>2. \A l \in Layers, r \in Live : Picked(l, r)' = Picked(l, r)
    BY <1>2, <1>3, <1>5, <2>1 DEF Picked, Begun
  <2>3. \A l \in Layers, r \in Live :
          SlotRow(table[l][r], r, Picked(l, r), valid[r], start[r] + NumSpec)
    BY <2>1, Zenon DEF IInv, ConvertedInv
  <2> QED
    BY <1>3, <1>4, <2>1, <2>2, <2>3, Zenon

<1>6. CASE layer = 0 /\ metadata_initialized
  <2>1. /\ UNCHANGED <<table, metadata_initialized>>
        /\ used' = [l \in Layers |-> [r \in Rows |->
                      IF r < nreq THEN used[l][r] + 1 ELSE used[l][r]]]
    BY <1>1, <1>6, Zenon DEF BeginDraftLayer
  <2>2. ASSUME NEW l \in Layers, NEW r \in Live
        PROVE  /\ Picked(l, r)' = Picked(l, r) /\ used'[l][r] <= Width
               /\ SlotRow(table[l][r], r, Picked(l, r), valid[r], start[r] + NumSpec)
    <3>1. used'[l][r] = used[l][r] + 1 /\ used[l][r] \in Nat
      BY <2>1, <1>2, <1>4, Zenon
    <3>2. Picked(l, r) = used[l][r] - (start[r] + step - valid[r])
      BY <1>6 DEF Picked, Begun
    <3>3. valid[r] \in Nat /\ start[r] \in Nat
      BY DraftFacts, Zenon
    <3>4. SlotRow(table[l][r], r, Picked(l, r), valid[r], start[r] + NumSpec)
      BY <1>6, Zenon DEF IInv, ConvertedInv
    <3>5. Picked(l, r) + (start[r] + NumSpec) - valid[r] <= Width
      BY <3>4, Zenon DEF SlotRow
    <3>6. Picked(l, r)' = Picked(l, r)
      <4>1. used[l][r] \in Nat /\ start[r] \in Nat /\ step \in Nat /\ valid[r] \in Nat
        BY <1>2, <3>1, <3>3, Zenon
      <4>2. (used[l][r] + 1) - (start[r] + (step + 1) - valid[r])
              = used[l][r] - (start[r] + step - valid[r])
        BY <4>1, SMT
      <4>3. Picked(l, r)' = (used[l][r] + 1) - (start[r] + (step + 1) - valid[r])
        BY <1>3, <3>1, Zenon
      <4> QED
        BY <3>2, <4>2, <4>3, Zenon
    <3>7. used'[l][r] <= Width
      BY <1>2, <3>1, <3>2, <3>3, <3>5, Sizes, SizeAssumption
    <3> QED
      BY <3>4, <3>6, <3>7, Zenon
  <2>3. used' \in [Layers -> [Rows -> Nat]]
    BY <2>1, <1>4
  <2>4. \A l \in Layers, r \in Rows : used'[l][r] <= Width
    BY <2>1, <2>2, <1>2, <1>4, Zenon
  <2>5. metadata_initialized' = TRUE
    BY <1>6, <2>1, Zenon DEF IInv, TypeOK
  <2> QED
    BY <1>3, <1>4, <2>1, <2>2, <2>3, <2>4, <2>5, Zenon
<1>7. CASE layer = 0 /\ ~metadata_initialized
  <2>1. /\ metadata_initialized' = TRUE
        /\ table' = [l \in Layers |-> [r \in Rows |->
             IF r < nreq
             THEN ConvertedRow(table[l][r], r, used[l][r], valid[r],
                               seqlens[r] - 1 + NumSpec)
             ELSE table[l][r]]]
        /\ used' = [l \in Layers |-> [r \in Rows |->
             IF r < nreq THEN Larger(used[l][r] + seqlens[r] - valid[r], 0)
             ELSE used[l][r]]]
    BY <1>1, <1>7, Zenon DEF BeginDraftLayer
  <2>2. ASSUME NEW l \in Layers, NEW r \in Live
        PROVE  /\ table'[l][r] \in [Columns -> Nat]
               /\ used'[l][r] \in Nat /\ used'[l][r] <= Width
               /\ SlotRow(table'[l][r], r, Picked(l, r)', valid[r], start[r] + NumSpec)
    <3> DEFINE u == used[l][r]  v == valid[r]  last == start[r] + NumSpec
    <3>1. r \in Rows /\ r < nreq
      BY <1>2, Zenon
    <3>2. u \in Nat /\ table[l][r] \in [Columns -> Nat]
      BY <1>4, <3>1, Zenon
    <3>3. /\ v \in Nat /\ start[r] \in Nat /\ 1 <= v /\ v <= start[r]
          /\ start[r] <= v + NumSpec /\ last <= MaxModelLen /\ seqlens[r] = start[r] + 1
      <4>1. /\ v \in Nat /\ start[r] \in Nat /\ 1 <= v /\ v <= start[r]
            /\ start[r] <= v + NumSpec /\ last <= MaxModelLen
            /\ seqlens[r] = start[r] + step + 1
        BY DraftFacts, Zenon
      <4>2. step = 0
        BY <1>2, <1>7
      <4> QED
        BY <4>1, <4>2
    <3>4. GoodRow(table[l][r], u, v)
      BY <1>7, <3>1, Zenon DEF IInv, SelectedInv
    <3>5. u <= MaxTokens + Sink + Recent
      <4>1. u <= MaxTokens + Reserved(v)
        BY <3>4, Zenon DEF GoodRow
      <4>2. Reserved(v) \in Nat /\ Reserved(v) <= Sink + Recent
        BY <3>3, ReservedTypes, Zenon
      <4> QED
        BY <4>1, <4>2, <3>2, Sizes, SizeAssumption
    <3>6. last \in Nat /\ v <= last /\ u + last - v <= Width
      BY <3>2, <3>3, <3>5, Sizes, SizeAssumption
    <3>7. used'[l][r] = u + start[r] + 1 - v
      <4>1. used'[l][r] = Larger(u + seqlens[r] - v, 0)
        BY <2>1, <3>1, Zenon
      <4>2. u + seqlens[r] - v >= 0 /\ u + seqlens[r] - v = u + start[r] + 1 - v
        BY <3>2, <3>3
      <4> QED
        BY <4>1, <4>2, Zenon DEF Larger
    <3>8. used'[l][r] \in Nat /\ used'[l][r] <= Width
      BY <3>2, <3>3, <3>5, <3>7, Sizes, SizeAssumption
    <3>9. Picked(l, r)' = u
      <4>1. Picked(l, r)' = used'[l][r] - (start[r] + (0 + 1) - v)
        BY <1>2, <1>3, <1>7
      <4> QED
        BY <4>1, <3>2, <3>3, <3>7
    <3>10. table'[l][r] = ConvertedRow(table[l][r], r, u, v, last)
      <4>1. seqlens[r] - 1 + NumSpec = last
        BY <3>3, SizeAssumption
      <4> QED
        BY <4>1, <2>1, <3>1, Zenon
    <3>11. /\ ConvertedRow(table[l][r], r, u, v, last) \in [Columns -> Nat]
           /\ SlotRow(ConvertedRow(table[l][r], r, u, v, last), r, u, v, last)
      BY <3>1, <3>2, <3>3, <3>4, <3>6, ConvertedShape, Zenon
    <3> QED
      BY <3>8, <3>9, <3>10, <3>11, Zenon
  <2>3. table' \in [Layers -> [Rows -> [Columns -> Nat]]]
    <3>1. ASSUME NEW l \in Layers, NEW r \in Rows PROVE table'[l][r] \in [Columns -> Nat]
      <4>1. CASE r \in Live
        BY <4>1, <2>2, Zenon
      <4>2. CASE r \notin Live
        BY <4>2, <1>2, <1>4, <2>1
      <4> QED
        BY <4>1, <4>2, Zenon
    <3>2. table' = [l \in Layers |-> [r \in Rows |-> table'[l][r]]]
      BY <2>1, Zenon
    <3> QED
      BY <3>1, <3>2, Zenon
  <2>4. ASSUME NEW l \in Layers, NEW r \in Rows
        PROVE  used'[l][r] \in Nat /\ used'[l][r] <= Width
    <3>1. CASE r \in Live
      BY <3>1, <2>2, Zenon
    <3>2. CASE r \notin Live
      BY <3>2, <1>2, <1>4, <2>1, Zenon
    <3> QED
      BY <3>1, <3>2, Zenon
  <2>5. used' \in [Layers -> [Rows -> Nat]]
    <3>1. used' = [l \in Layers |-> [r \in Rows |-> used'[l][r]]]
      BY <2>1, Zenon
    <3> QED
      BY <3>1, <2>4, Zenon
  <2> QED
    BY <1>3, <1>7, <2>1, <2>2, <2>3, <2>4, <2>5, Zenon
<1> QED
  BY <1>5, <1>6, <1>7, Zenon

(* What every layer of a draft step, run or skipped, leaves in place. *)
LEMMA DraftStepInv ==
  ASSUME IInv, DraftLayer \/ SkippedLayer,
         kv' \in [Layers -> [Slots -> Version]],
         fresh' \in [Layers -> BOOLEAN],
         scratch' \in [Layers -> [Rows -> [Columns -> Nat \X Version]]],
         DraftedInv', ScratchInv'
  PROVE  IInv'
<1>1. /\ pc = "draft" /\ pc' = "draft" /\ layer < NumLayers /\ layer' = layer + 1
      /\ BeginDraftLayer /\ AdvanceLayer
      /\ UNCHANGED <<round, shape, nreq, step, start, seqlens, in_propose,
                     valid, k_min, k_max>>
  BY Zenon DEF DraftLayer, SkippedLayer, prefix
<1>2. /\ metadata_initialized' = TRUE
      /\ table' \in [Layers -> [Rows -> [Columns -> Nat]]]
      /\ used' \in [Layers -> [Rows -> Nat]]
      /\ \A l \in Layers, r \in Rows : used'[l][r] <= Width
      /\ \A l \in Layers, r \in Live :
           SlotRow(table'[l][r], r, Picked(l, r)', valid[r], start[r] + NumSpec)
  BY <1>1, BeginDraftStep, Zenon
<1>3. layer \in Nat /\ step \in Nat
  BY <1>1, DraftFacts, Zenon
<1>4. layer' \in 0 .. NumLayers /\ curr_layer' \in Layers
  <2>1. curr_layer \in Layers
    BY Zenon DEF IInv, TypeOK
  <2> QED
    BY <1>1, <1>3, <2>1, WrapLayer, SizeAssumption DEF AdvanceLayer, Layers
<1>5. TypeOK'
  <2>1. metadata_initialized' \in BOOLEAN
    BY <1>2, Zenon
  <2> QED
    BY <1>1, <1>2, <1>4, <2>1, Zenon DEF IInv, TypeOK
<1>6. LayerInv'
  BY LayerStep, Zenon DEF Next, IInv
<1>7. BatchInv' /\ PrefixInv'
  BY <1>1, Zenon DEF IInv, BatchInv, PrefixInv, PrefixKnown
<1>8. SelectedInv'
  BY <1>1, <1>2, Zenon DEF SelectedInv
<1>9. Live' = Live /\ Begun' > 0
  BY <1>1, <1>3 DEF Live, Begun
<1>10. DraftInv'
  BY <1>1, <1>2, <1>9, Zenon DEF IInv, DraftInv
<1>11. ConvertedInv'
  BY <1>1, <1>2, <1>9, Zenon DEF ConvertedInv
<1> QED
  BY <1>2, <1>5, <1>6, <1>7, <1>8, <1>10, <1>11, Zenon DEF IInv

(* A layer the step does not touch keeps its steps and its scratch. *)
LEMMA OtherLayers ==
  ASSUME IInv, pc = "draft", layer < NumLayers, BeginDraftLayer,
         layer' = layer + 1, UNCHANGED <<pc, round, nreq, step, start, valid>>,
         NEW l \in Layers, l # layer, kv'[l] = kv[l]
  PROVE  /\ l \notin SkipLayers => \A r \in Live' :
              \A p \in start'[r] .. start'[r] + StepsOf(l)' - 1 :
                kv'[l][Slot(r, p)] = <<round', p - start'[r] + 1>>
         /\ Gather /\ Kept(l) /\ fresh'[l] = fresh[l] /\ scratch'[l] = scratch[l] =>
              /\ fresh'[l] <=> StepsOf(l)' > 0
              /\ StepsOf(l)' > 0 => \A r \in Live' :
                   \A i \in 0 .. Picked(l, r)' + start'[r] - valid'[r] + StepsOf(l)' - 1 :
                     scratch'[l][r][i] = <<table'[l][r][i], kv'[l][table'[l][r][i]]>>
<1>1. layer \in Nat /\ l \in Nat /\ step \in Nat
  BY DraftFacts, SizeAssumption DEF Layers
<1>2. StepsOf(l)' = StepsOf(l) /\ Live' = Live
  BY <1>1 DEF StepsOf, Live
<1>3. l \notin SkipLayers => \A r \in Live : \A p \in start[r] .. start[r] + StepsOf(l) - 1 :
        kv[l][Slot(r, p)] = <<round, p - start[r] + 1>>
  BY Zenon DEF IInv, DraftedInv
<1>4. ASSUME Gather, Kept(l), fresh'[l] = fresh[l], scratch'[l] = scratch[l]
      PROVE  /\ fresh'[l] <=> StepsOf(l)' > 0
             /\ StepsOf(l)' > 0 => \A r \in Live' :
                  \A i \in 0 .. Picked(l, r)' + start'[r] - valid'[r] + StepsOf(l)' - 1 :
                    scratch'[l][r][i] = <<table'[l][r][i], kv'[l][table'[l][r][i]]>>
  <2>1. /\ fresh[l] <=> StepsOf(l) > 0
        /\ StepsOf(l) > 0 => \A r \in Live :
             \A i \in 0 .. Picked(l, r) + start[r] - valid[r] + StepsOf(l) - 1 :
               scratch[l][r][i] = <<table[l][r][i], kv[l][table[l][r][i]]>>
    BY <1>4, Zenon DEF IInv, ScratchInv
  <2>2. ASSUME StepsOf(l) > 0
        PROVE  table' = table /\ \A r \in Live : Picked(l, r)' = Picked(l, r)
    <3>1. step > 0 \/ layer > 0
      BY <1>1, <2>2 DEF StepsOf
    <3>2. metadata_initialized
      BY <3>1, DraftFacts, Zenon
    <3> QED
      BY <3>2, BeginDraftStep, Zenon
  <2> QED
    BY <1>2, <1>4, <2>1, <2>2
<1> QED
  BY <1>2, <1>3, <1>4

(* A column of a converted row holds the slot of a position before m, when   *)
(* A whole layer that is skipped writes no KV and gathers nothing. *)
LEMMA SkippedLayerInv == ASSUME IInv, SkippedLayer PROVE IInv'
<1>1. /\ pc = "draft" /\ layer < NumLayers /\ BeginDraftLayer /\ layer' = layer + 1
      /\ layer \in SkipLayers
      /\ UNCHANGED <<pc, round, nreq, step, start, valid, kv, fresh, scratch>>
  BY Zenon DEF SkippedLayer, prefix, draftKV
<1>2. DraftedInv'
  <2>1. \A l \in Layers \ SkipLayers : l # layer /\ kv'[l] = kv[l]
    BY <1>1, Zenon
  <2> QED
    BY <1>1, <2>1, OtherLayers, Zenon DEF DraftedInv
<1>3. ScratchInv'
  <2>1. \A l \in Layers : Kept(l) => l # layer
    BY <1>1, Zenon DEF Kept
  <2> QED
    BY <1>1, <2>1, OtherLayers, Zenon DEF ScratchInv
<1>4. /\ kv' \in [Layers -> [Slots -> Version]] /\ fresh' \in [Layers -> BOOLEAN]
      /\ scratch' \in [Layers -> [Rows -> [Columns -> Nat \X Version]]]
  BY <1>1, Zenon DEF IInv, TypeOK
<1> QED
  BY <1>2, <1>3, <1>4, DraftStepInv, Zenon

-----------------------------------------------------------------------------
(* A draft layer that runs *)

(* The KV a draft layer writes: one token per row, over no earlier position. *)
LEMMA DraftWrite ==
  ASSUME IInv, DraftLayer
  PROVE  /\ layer \in Layers
         /\ kv' \in [Layers -> [Slots -> Version]]
         /\ \A l \in Layers : l # layer => kv'[l] = kv[l]
         /\ \A r \in Live :
              /\ kv'[layer][Slot(r, start[r] + step)] = <<round, step + 1>>
              /\ \A p \in 0 .. start[r] + step - 1 :
                   kv'[layer][Slot(r, p)] = kv[layer][Slot(r, p)]
<1>1. /\ pc = "draft" /\ layer < NumLayers
      /\ kv' = [kv EXCEPT ![layer] = Written(@, DraftPositions, <<round, step + 1>>)]
  BY Zenon DEF DraftLayer
<1>2. /\ Live \subseteq Rows /\ step \in Nat /\ step < NumSpec /\ layer \in Nat
      /\ \A r \in Live :
           /\ start[r] \in Nat /\ start[r] >= 1 /\ start[r] + NumSpec <= MaxModelLen
           /\ seqlens[r] = start[r] + step + 1
  BY <1>1, DraftFacts
<1>3. layer \in Layers
  BY <1>1, <1>2, SizeAssumption DEF Layers
<1>4. kv \in [Layers -> [Slots -> Version]] /\ <<round, step + 1>> \in Version
  BY <1>2, SizeAssumption DEF IInv, TypeOK, Version
<1>5. Written(kv[layer], DraftPositions, <<round, step + 1>>) \in [Slots -> Version]
  BY <1>3, <1>4, WrittenType, Zenon
<1>6. kv' \in [Layers -> [Slots -> Version]] /\ \A l \in Layers : l # layer => kv'[l] = kv[l]
  BY <1>1, <1>3, <1>4, <1>5, Zenon
<1>7. ASSUME NEW r \in Live
      PROVE  /\ DraftPositions[r] = {start[r] + step}
             /\ start[r] + step \in 0 .. MaxModelLen - 1
  <2>1. seqlens[r] # 1 /\ seqlens[r] - 1 = start[r] + step
    BY <1>2
  <2> QED
    BY <1>2, <2>1, SizeAssumption DEF DraftPositions
<1>8. \A s \in Slots : kv'[layer][s] =
        IF \E r \in Live : s = Slot(r, start[r] + step)
        THEN <<round, step + 1>> ELSE kv[layer][s]
  <2>1. kv'[layer] = Written(kv[layer], DraftPositions, <<round, step + 1>>)
    BY <1>1, <1>3, <1>4, Zenon
  <2>2. \A s \in Slots : (\E r \in 0 .. nreq - 1 : \E p \in DraftPositions[r] : s = Slot(r, p))
                           <=> \E r \in Live : s = Slot(r, start[r] + step)
    BY <1>7, Zenon DEF Live
  <2> QED
    BY <2>1, <2>2, Zenon DEF Written
<1>9. ASSUME NEW r \in Live
      PROVE  kv'[layer][Slot(r, start[r] + step)] = <<round, step + 1>>
  BY <1>2, <1>7, <1>8, SlotFacts, Zenon
<1>10. ASSUME NEW r \in Live, NEW p \in 0 .. start[r] + step - 1
       PROVE  kv'[layer][Slot(r, p)] = kv[layer][Slot(r, p)]
  <2>1. p \in 0 .. MaxModelLen - 1 /\ p # start[r] + step
    BY <1>2, SizeAssumption
  <2>2. Slot(r, p) \in Slots
    BY <1>2, <2>1, SlotFacts, Zenon
  <2>3. ASSUME NEW s \in Live PROVE Slot(r, p) # Slot(s, start[s] + step)
    BY <1>2, <1>7, <2>1, SlotFacts
  <2> QED
    BY <1>8, <2>2, <2>3, Zenon
<1> QED
  BY <1>3, <1>6, <1>9, <1>10, Zenon

(* The columns a draft layer attends over, and where they point. *)
LEMMA DraftColumns ==
  ASSUME IInv, DraftLayer, NEW l \in Layers, NEW r \in Live
  PROVE  /\ used'[l][r] \in Nat /\ used'[l][r] <= Width /\ Picked(l, r)' \in Nat
         /\ used'[l][r] = Picked(l, r)' + start[r] - valid[r] + (step + 1)
         /\ \A i \in 0 .. used'[l][r] - 1 :
              /\ i \in Columns /\ table'[l][r][i] \in Slots /\ table'[l][r][i] \in Nat
              /\ i < used'[l][r] - 1 =>
                   \E p \in 0 .. start[r] + step - 1 : table'[l][r][i] = Slot(r, p)
<1>1. /\ pc = "draft" /\ layer < NumLayers /\ BeginDraftLayer /\ layer' = layer + 1
      /\ UNCHANGED <<nreq, step, start, valid>>
  BY Zenon DEF DraftLayer, prefix
<1>2. /\ Live \subseteq Rows /\ step \in Nat /\ step < NumSpec
      /\ start[r] \in Nat /\ valid[r] \in Nat /\ valid[r] <= start[r]
      /\ start[r] + NumSpec <= MaxModelLen
  BY <1>1, DraftFacts, Zenon
<1>3. /\ used' \in [Layers -> [Rows -> Nat]] /\ used'[l][r] <= Width
      /\ SlotRow(table'[l][r], r, Picked(l, r)', valid[r], start[r] + NumSpec)
      /\ Picked(l, r)' = used'[l][r] - (start[r] + (step + 1) - valid[r])
  BY <1>1, <1>2, BeginDraftStep, Zenon
<1> DEFINE n == Picked(l, r)'  u == used'[l][r]  m == start[r] + step + 1
<1>4. u \in Nat /\ n \in Nat
  BY <1>2, <1>3, Zenon DEF SlotRow
<1> HIDE DEF n, u
<1>5. u = n + start[r] - valid[r] + (step + 1) /\ u = n + m - valid[r]
  <2>1. n = u - (start[r] + (step + 1) - valid[r])
    BY <1>3, Zenon DEF n, u
  <2> QED
    BY <1>2, <1>4, <2>1
<1>6. ASSUME NEW i \in 0 .. u - 1
      PROVE  \E p \in 0 .. m - 1 : table'[l][r][i] = Slot(r, p) /\ (i < u - 1 => p < m - 1)
  <2>1. /\ m \in Nat /\ valid[r] <= m /\ start[r] + NumSpec \in Nat
        /\ m <= start[r] + NumSpec /\ i \in 0 .. n + m - valid[r] - 1
    BY <1>2, <1>4, <1>5, SizeAssumption
  <2>2. PICK p \in 0 .. m - 1 :
          /\ table'[l][r][i] = Slot(r, p)
          /\ i >= n => p = valid[r] + (i - n)
          /\ i < n => p < valid[r]
    BY <1>2, <1>3, <2>1, SlotOfColumn DEF n
  <2>3. i < u - 1 => p < m - 1
    BY <1>2, <1>4, <1>5, <2>2
  <2> QED
    BY <2>2, <2>3, Zenon
<1>7. ASSUME NEW i \in 0 .. u - 1
      PROVE  /\ i \in Columns /\ table'[l][r][i] \in Slots /\ table'[l][r][i] \in Nat
             /\ i < u - 1 => \E p \in 0 .. start[r] + step - 1 : table'[l][r][i] = Slot(r, p)
  <2>1. PICK p \in 0 .. m - 1 : table'[l][r][i] = Slot(r, p) /\ (i < u - 1 => p < m - 1)
    BY <1>6, Zenon
  <2>2. p \in 0 .. MaxModelLen - 1
    BY <1>2, <2>1, SizeAssumption
  <2>3. Slot(r, p) \in Slots /\ Slot(r, p) \in Nat
    BY <1>2, <2>2, SlotFacts, Zenon
  <2>4. i < u - 1 => p \in 0 .. start[r] + step - 1
    BY <1>2, <2>1
  <2>5. i \in Columns
    BY <1>3, <1>4, Sizes DEF Columns, u
  <2> QED
    BY <2>1, <2>3, <2>4, <2>5, Zenon
<1> QED
  BY <1>3, <1>4, <1>5, <1>7, Zenon DEF n, u

(* GatheredDraftKV at a layer that attends: the scratch mirrors the row. *)
LEMMA GatherStep ==
  ASSUME IInv, DraftLayer, Gather, NEW L \in Layers, L = layer, L \notin SkipAttn
  PROVE  /\ fresh' = [fresh EXCEPT ![L] = TRUE]
         /\ scratch' \in [Layers -> [Rows -> [Columns -> Nat \X Version]]]
         /\ \A l \in Layers : l # L => scratch'[l] = scratch[l]
         /\ \A r \in Live : \A i \in 0 .. used'[L][r] - 1 :
              scratch'[L][r][i] =
                <<table'[L][r][i], kv'[L][table'[L][r][i]]>>
<1> DEFINE Copy(r, i) == <<table'[L][r][i], kv'[L][table'[L][r][i]]>>
           From(r) == GatherFrom(L, used'[L][r])
<1>1. /\ pc = "draft" /\ layer < NumLayers /\ BeginDraftLayer /\ layer' = layer + 1
      /\ layer \notin SkipLayers /\ UNCHANGED <<nreq, step, start, valid>>
  BY Zenon DEF DraftLayer, prefix
<1>2. curr_layer = L
  BY <1>1, CounterIsLayer, Zenon DEF IInv
<1>3. L \in Layers /\ L = layer
  BY Zenon
<1>4. /\ fresh' = [fresh EXCEPT ![L] = TRUE]
      /\ scratch' = [scratch EXCEPT ![L] = [r \in Rows |-> [i \in Columns |->
           IF r < nreq /\ From(r) <= i /\ i < used'[L][r]
           THEN Copy(r, i) ELSE scratch[L][r][i]]]]
  <2>1. AttentionKwargs(L)
    BY <1>2, Zenon DEF DraftLayer
  <2> QED
    BY <2>1, Zenon DEF AttentionKwargs
<1>5. scratch \in [Layers -> [Rows -> [Columns -> Nat \X Version]]]
  BY Zenon DEF IInv, TypeOK
<1>6. /\ \A l \in Layers : l # L => scratch'[l] = scratch[l]
      /\ \A r \in Rows, i \in Columns : scratch'[L][r][i] =
           IF r < nreq /\ From(r) <= i /\ i < used'[L][r]
           THEN Copy(r, i) ELSE scratch[L][r][i]
  BY <1>3, <1>4, <1>5, Zenon
<1>7. /\ Live \subseteq Rows /\ step \in Nat /\ nreq \in Nat /\ layer \in Nat
      /\ \A r \in Rows : r \in Live <=> r < nreq
      /\ \A r \in Live : start[r] \in Nat /\ valid[r] \in Nat
      /\ metadata_initialized <=> (step > 0 \/ layer > 0)
  BY <1>1, DraftFacts, Zenon
<1>8. \A r \in Live : used'[L][r] \in Nat /\ From(r) \in Nat
  <2>1. \A r \in Live : used'[L][r] \in Nat
    BY <1>3, DraftColumns, Zenon
  <2> QED
    BY <2>1 DEF GatherFrom, Larger
<1>9. ASSUME NEW r \in Rows, NEW i \in Columns,
             r < nreq /\ From(r) <= i /\ i < used'[L][r]
      PROVE  Copy(r, i) \in Nat \X Version
  <2>1. r \in Live
    BY <1>7, <1>9, Zenon
  <2>2. i \in 0 .. used'[L][r] - 1
    BY <1>8, <1>9, <2>1, Sizes DEF Columns
  <2>3. table'[L][r][i] \in Slots /\ table'[L][r][i] \in Nat
    BY <1>3, <2>1, <2>2, DraftColumns, Zenon
  <2>4. kv' \in [Layers -> [Slots -> Version]]
    BY DraftWrite, Zenon
  <2> QED
    BY <1>3, <2>3, <2>4, Zenon
<1>10. scratch' \in [Layers -> [Rows -> [Columns -> Nat \X Version]]]
  <2> HIDE DEF Copy, From
  <2> DEFINE new == [r \in Rows |-> [i \in Columns |->
                       IF r < nreq /\ From(r) <= i /\ i < used'[L][r]
                       THEN Copy(r, i) ELSE scratch[L][r][i]]]
  <2>1. new \in [Rows -> [Columns -> Nat \X Version]]
    <3>1. ASSUME NEW r \in Rows, NEW i \in Columns
          PROVE  (IF r < nreq /\ From(r) <= i /\ i < used'[L][r]
                  THEN Copy(r, i) ELSE scratch[L][r][i]) \in Nat \X Version
      <4> DEFINE T == Nat \X Version
      <4> HIDE DEF T
      <4>1. scratch[L][r][i] \in T
        BY <1>3, <1>5 DEF T
      <4>2. r < nreq /\ From(r) <= i /\ i < used'[L][r] => Copy(r, i) \in T
        BY <1>9, Zenon DEF T
      <4> QED
        BY <4>1, <4>2, Zenon DEF T
    <3> QED
      BY <3>1, Zenon
  <2>2. scratch' = [scratch EXCEPT ![L] = new]
    BY <1>4, Zenon
  <2> HIDE DEF new
  <2> QED
    BY <1>3, <1>5, <2>1, <2>2, Zenon
<1>11. ASSUME NEW r \in Live, NEW i \in 0 .. used'[L][r] - 1
       PROVE  scratch'[L][r][i] = Copy(r, i)
  <2>1. r \in Rows /\ r < nreq /\ i \in Columns /\ i < used'[L][r] /\ i \in Nat
    BY <1>3, <1>7, <1>8, DraftColumns
  <2>2. CASE From(r) <= i
    BY <1>6, <2>1, <2>2, ZenonT(30)
  <2>3. CASE ~(From(r) <= i)
    <3>1. fresh[L] /\ i < used'[L][r] - 1
      BY <1>8, <2>1, <2>3 DEF GatherFrom, Larger
    <3>2. scratch'[L][r][i] = scratch[L][r][i]
      BY <1>6, <2>1, <2>3, ZenonT(30)
    <3>3. StepsOf(L) = step
      BY <1>7 DEF StepsOf
    <3>4. Kept(L)
      BY <1>1, Zenon DEF Kept
    <3>5. /\ step > 0
          /\ \A j \in 0 .. Picked(L, r) + start[r] - valid[r] + step - 1 :
               scratch[L][r][j] = <<table[L][r][j], kv[L][table[L][r][j]]>>
      BY <1>1, <1>3, <3>1, <3>3, <3>4, Zenon DEF IInv, ScratchInv
    <3>6. table' = table /\ Picked(L, r)' = Picked(L, r)
      BY <1>1, <1>3, <1>7, <3>5, BeginDraftStep, Zenon
    <3>7. i \in 0 .. Picked(L, r) + start[r] - valid[r] + step - 1
      <4>1. used'[L][r] = Picked(L, r)' + start[r] - valid[r] + (step + 1)
        BY <1>3, DraftColumns, Zenon
      <4>2. Picked(L, r)' \in Int
        BY <1>1, <1>3, BeginDraftStep DEF SlotRow
      <4> QED
        BY <1>7, <1>8, <2>1, <3>1, <3>6, <4>1, <4>2
    <3>8. PICK p \in 0 .. start[r] + step - 1 : table'[L][r][i] = Slot(r, p)
      BY <1>3, <3>1, DraftColumns, Zenon
    <3>9. kv'[L][Slot(r, p)] = kv[L][Slot(r, p)]
      BY DraftWrite, Zenon
    <3> QED
      <4>1. scratch[L][r][i] = <<table[L][r][i], kv[L][table[L][r][i]]>>
        BY <3>5, <3>7, Zenon
      <4>2. table'[L][r][i] = table[L][r][i]
        BY <3>6, Zenon
      <4>3. kv'[L][table[L][r][i]] = kv[L][table[L][r][i]]
        BY <3>8, <3>9, <4>2, Zenon
      <4> QED
        BY <3>2, <4>1, <4>2, <4>3, Zenon
  <2> QED
    BY <2>2, <2>3, Zenon
<1> QED
  BY <1>4, <1>6, <1>10, <1>11, Zenon

(* A draft layer that runs: the newest token is written and gathered. *)
LEMMA DraftLayerInv == ASSUME IInv, DraftLayer PROVE IInv'
<1>1. PICK L \in Layers : L = layer
  BY DraftWrite, Zenon
<1>2. /\ pc = "draft" /\ layer < NumLayers /\ BeginDraftLayer /\ layer' = layer + 1
      /\ layer \notin SkipLayers /\ UNCHANGED <<pc, round, nreq, step, start, valid>>
  BY Zenon DEF DraftLayer, prefix
<1>3. curr_layer = L
  BY <1>1, <1>2, CounterIsLayer, Zenon DEF IInv
<1>4. /\ kv' \in [Layers -> [Slots -> Version]]
      /\ \A l \in Layers : l # L => kv'[l] = kv[l]
      /\ \A r \in Live :
           /\ kv'[L][Slot(r, start[r] + step)] = <<round, step + 1>>
           /\ \A p \in 0 .. start[r] + step - 1 : kv'[L][Slot(r, p)] = kv[L][Slot(r, p)]
  BY <1>1, DraftWrite, Zenon
<1>5. /\ layer \in Nat /\ step \in Nat /\ \A r \in Live : start[r] \in Nat
  BY <1>2, DraftFacts, Zenon
<1>6. Live' = Live /\ StepsOf(L)' = step + 1 /\ StepsOf(L) = step
  BY <1>1, <1>2, <1>5 DEF StepsOf, Live
<1>7. DraftedInv'
  <2>1. ASSUME NEW r \in Live, NEW p \in start[r] .. start[r] + (step + 1) - 1
        PROVE  kv'[L][Slot(r, p)] = <<round, p - start[r] + 1>>
    <3>1. CASE p = start[r] + step
      <4>1. p - start[r] + 1 = step + 1
        BY <1>5, <3>1
      <4> QED
        BY <1>4, <3>1, <4>1, ZenonT(30)
    <3>2. CASE p # start[r] + step
      <4>1. p \in 0 .. start[r] + step - 1 /\ p \in start[r] .. start[r] + step - 1
        BY <1>5, <3>2
      <4>2. kv[L][Slot(r, p)] = <<round, p - start[r] + 1>>
        BY <1>1, <1>2, <1>6, <4>1, Zenon DEF IInv, DraftedInv
      <4> QED
        BY <1>4, <4>1, <4>2, Zenon
    <3> QED
      BY <3>1, <3>2, Zenon
  <2>2. ASSUME NEW l \in Layers \ SkipLayers, l # L
        PROVE  \A r \in Live' : \A p \in start'[r] .. start'[r] + StepsOf(l)' - 1 :
                 kv'[l][Slot(r, p)] = <<round', p - start'[r] + 1>>
    BY <1>1, <1>2, <1>4, <2>2, OtherLayers, Zenon
  <2>3. \A r \in Live' : \A p \in start'[r] .. start'[r] + StepsOf(L)' - 1 :
          kv'[L][Slot(r, p)] = <<round', p - start'[r] + 1>>
    BY <1>2, <1>6, <2>1, Zenon
  <2> QED
    BY <2>2, <2>3, Zenon DEF DraftedInv
<1>8. CASE ~Gather \/ L \in SkipAttn
  <2>1. UNCHANGED <<fresh, scratch>>
    BY <1>3, <1>8, Zenon DEF DraftLayer, AttentionKwargs, draftKV
  <2>2. ScratchInv'
    <3>1. CASE ~Gather
      BY <3>1, Zenon DEF ScratchInv
    <3>2. CASE Gather
      <4>1. \A l \in Layers : Kept(l) => l # L
        BY <1>8, <3>2, Zenon DEF Kept
      <4> QED
        BY <1>1, <1>2, <1>4, <2>1, <4>1, OtherLayers, Zenon DEF ScratchInv
    <3> QED
      BY <3>1, <3>2, Zenon
  <2>3. /\ fresh' \in [Layers -> BOOLEAN]
        /\ scratch' \in [Layers -> [Rows -> [Columns -> Nat \X Version]]]
    BY <2>1, Zenon DEF IInv, TypeOK
  <2> QED
    BY <1>4, <1>7, <2>2, <2>3, DraftStepInv, Zenon
<1>9. CASE Gather /\ L \notin SkipAttn
  <2>1. /\ fresh' = [fresh EXCEPT ![L] = TRUE]
        /\ scratch' \in [Layers -> [Rows -> [Columns -> Nat \X Version]]]
        /\ \A l \in Layers : l # L => scratch'[l] = scratch[l]
        /\ \A r \in Live : \A i \in 0 .. used'[L][r] - 1 :
             scratch'[L][r][i] = <<table'[L][r][i], kv'[L][table'[L][r][i]]>>
    BY <1>1, <1>9, GatherStep, Zenon
  <2>2. fresh \in [Layers -> BOOLEAN]
    BY Zenon DEF IInv, TypeOK
  <2>3. /\ fresh' \in [Layers -> BOOLEAN] /\ fresh'[L] = TRUE
        /\ \A l \in Layers : l # L => fresh'[l] = fresh[l]
    BY <2>1, <2>2, Zenon
  <2>4. ASSUME NEW l \in Layers, Kept(l), l # L
        PROVE  /\ fresh'[l] <=> StepsOf(l)' > 0
               /\ StepsOf(l)' > 0 => \A r \in Live' :
                    \A i \in 0 .. Picked(l, r)' + start'[r] - valid'[r] + StepsOf(l)' - 1 :
                      scratch'[l][r][i] = <<table'[l][r][i], kv'[l][table'[l][r][i]]>>
    BY <1>1, <1>2, <1>4, <1>9, <2>1, <2>3, <2>4, OtherLayers, ZenonT(30)
  <2>5. \A r \in Live' :
          \A i \in 0 .. Picked(L, r)' + start'[r] - valid'[r] + StepsOf(L)' - 1 :
            scratch'[L][r][i] = <<table'[L][r][i], kv'[L][table'[L][r][i]]>>
    <3>1. ASSUME NEW r \in Live
          PROVE  Picked(L, r)' + start'[r] - valid'[r] + StepsOf(L)' - 1 = used'[L][r] - 1
      <4>1. start'[r] = start[r] /\ valid'[r] = valid[r] /\ StepsOf(L)' = step + 1
        BY <1>2, <1>6, Zenon
      <4>2. /\ used'[L][r] = Picked(L, r)' + start[r] - valid[r] + (step + 1)
            /\ used'[L][r] \in Nat /\ Picked(L, r)' \in Nat
        BY DraftColumns, Zenon
      <4>3. step \in Nat /\ start[r] \in Nat /\ valid[r] \in Nat
        BY <1>2, DraftFacts, Zenon
      <4> QED
        BY <4>1, <4>2, <4>3
    <3> QED
      BY <1>6, <2>1, <3>1, ZenonT(30)
  <2>6. fresh'[L] <=> StepsOf(L)' > 0
    <3>1. StepsOf(L)' > 0
      BY <1>5, <1>6
    <3> QED
      BY <2>3, <3>1, Zenon
  <2>7. ScratchInv'
    BY <2>4, <2>5, <2>6 DEF ScratchInv, Kept
  <2> QED
    BY <1>4, <1>7, <2>1, <2>3, <2>7, DraftStepInv, Zenon
<1> QED
  BY <1>8, <1>9, Zenon

-----------------------------------------------------------------------------
(* Layer identity *)

(* Whatever the interleaving of eager and replayed verify passes, attention  *)
(* calls and skipped layers, the hooks' layer counter is the layer the model *)
(* is running, and enter_propose's and exit_propose's assertions hold.       *)
THEOREM LayerIdentity == Spec => []LayerAligned
<1>1. Init => LayerInv
  BY SizeAssumption, WrapLayer DEF Init, LayerInv, LayerAligned, Layers
<1>2. LayerInv /\ [Next]_vars => LayerInv'
  BY LayerStep, Zenon
<1>3. LayerInv => LayerAligned
  BY Zenon DEF LayerInv
<1> QED
  BY <1>1, <1>2, <1>3, PTL DEF Spec

-----------------------------------------------------------------------------
(* The invariant *)

(* IInv holds of every reachable state. *)
LEMMA Inductive == Spec => []IInv
<1>1. Init => IInv
  BY InitInv, Zenon
<1>2. IInv /\ [Next]_vars => IInv'
  <2> SUFFICES ASSUME IInv, [Next]_vars PROVE IInv'
    BY Zenon
  <2>1. CASE Next
    BY <2>1, StartVerifyInv, VerifyLayerInv, VerifyReplayInv, EnterProposeInv, IdleInv,
       DraftLayerInv, SkippedLayerInv, NextDraftStepInv, Zenon DEF Next
  <2>2. CASE UNCHANGED vars
    <3>1. UNCHANGED <<pc, round, shape, nreq, layer, step, start, seqlens, kv, in_propose,
                      curr_layer, metadata_initialized, valid, k_min, k_max, table, used,
                      fresh, scratch>>
      BY <2>2, Zenon DEF vars, model, python, prefix, selection, draftKV
    <3>2. TypeOK' /\ LayerInv' /\ BatchInv' /\ PrefixInv' /\ SelectedInv'
      BY <3>1, Zenon DEF IInv, TypeOK, LayerInv, LayerAligned, BatchInv, PrefixInv, PrefixKnown,
                  SelectedInv
    <3>3. /\ Live' = Live /\ Begun' = Begun /\ \A l \in Layers : StepsOf(l)' = StepsOf(l)
          /\ \A l \in Layers, r \in Live : Picked(l, r)' = Picked(l, r)
      BY <3>1, Zenon DEF Live, Begun, StepsOf, Picked
    <3>4. DraftInv'
      BY <3>1, <3>3, ZenonT(30) DEF IInv, DraftInv
    <3>5. ConvertedInv'
      <4> SUFFICES ASSUME pc' = "draft", metadata_initialized', NEW l \in Layers, NEW r \in Live'
                   PROVE  SlotRow(table'[l][r], r, Picked(l, r)', valid'[r], start'[r] + NumSpec)
        BY Zenon DEF ConvertedInv
      <4>1. SlotRow(table[l][r], r, Picked(l, r), valid[r], start[r] + NumSpec)
        BY <3>1, <3>3, Zenon DEF IInv, ConvertedInv
      <4>2. Picked(l, r)' = Picked(l, r)
        BY <3>3, Zenon
      <4> QED
        BY <3>1, <4>1, <4>2, Zenon
    <3>6. DraftedInv'
      BY <3>1, <3>3, ZenonT(60) DEF IInv, DraftedInv
    <3>7. ScratchInv'
      <4> SUFFICES ASSUME pc' = "draft", Gather, NEW l \in Layers, Kept(l)'
                   PROVE  /\ fresh'[l] <=> StepsOf(l)' > 0
                          /\ StepsOf(l)' > 0 => \A r \in Live' :
                               \A i \in 0 .. Picked(l, r)' + start'[r] - valid'[r] + StepsOf(l)' - 1 :
                                 scratch'[l][r][i] = <<table'[l][r][i], kv'[l][table'[l][r][i]]>>
        BY Zenon DEF ScratchInv
      <4>1. Kept(l)
        BY <3>1, Zenon DEF Kept
      <4>2. /\ fresh[l] <=> StepsOf(l) > 0
            /\ StepsOf(l) > 0 => \A r \in Live :
                 \A i \in 0 .. Picked(l, r) + start[r] - valid[r] + StepsOf(l) - 1 :
                   scratch[l][r][i] = <<table[l][r][i], kv[l][table[l][r][i]]>>
        BY <3>1, <4>1, Zenon DEF IInv, ScratchInv
      <4>3. StepsOf(l)' = StepsOf(l) /\ \A r \in Live : Picked(l, r)' = Picked(l, r)
        BY <3>3, Zenon
      <4>4. fresh'[l] <=> StepsOf(l)' > 0
        BY <3>1, <4>2, <4>3, Zenon
      <4>5. ASSUME StepsOf(l)' > 0, NEW r \in Live',
                   NEW i \in 0 .. Picked(l, r)' + start'[r] - valid'[r] + StepsOf(l)' - 1
            PROVE  scratch'[l][r][i] = <<table'[l][r][i], kv'[l][table'[l][r][i]]>>
        <5>1. r \in Live /\ StepsOf(l) > 0
          BY <3>3, <4>3, <4>5, Zenon
        <5>2. i \in 0 .. Picked(l, r) + start[r] - valid[r] + StepsOf(l) - 1
          BY <3>1, <4>3, <5>1, Zenon
        <5>3. scratch[l][r][i] = <<table[l][r][i], kv[l][table[l][r][i]]>>
          BY <4>2, <5>1, <5>2, Zenon
        <5> QED
          BY <3>1, <5>3, Zenon
      <4> QED
        BY <4>4, <4>5, Zenon
    <3> QED
      BY <3>1, <3>2, <3>4, <3>5, <3>6, <3>7, Zenon DEF IInv
  <2> QED
    BY <2>1, <2>2, Zenon
<1> QED
  BY <1>1, <1>2, PTL DEF Spec

-----------------------------------------------------------------------------
(* The properties *)

(* Every tensor and attribute of the overrider keeps its type: no index      *)
(* mass_select or index_to_slots stores leaves the cache, and every gathered *)
(* copy is of a write the cache has seen.                                    *)
THEOREM TypeCorrect == Spec => []TypeOK
<1>1. IInv => TypeOK
  BY Zenon DEF IInv
<1> QED
  BY <1>1, Inductive, PTL

(* The row width the constructor computes is enough for the selection, the   *)
(* verified tail and the drafted tail, whatever the sizes of the model.      *)
THEOREM RowWide == Spec => []WidthBound
<1>1. IInv => WidthBound
  <2> SUFFICES ASSUME IInv, NEW l \in Layers, NEW r \in Rows
               PROVE  /\ used[l][r] <= Width
                      /\ pc = "draft" /\ ~metadata_initialized /\ r < nreq
                           => used[l][r] + start[r] + NumSpec - valid[r] <= Width
    BY Zenon DEF WidthBound
  <2>1. used[l][r] <= Width
    BY Zenon DEF IInv
  <2>2. ASSUME pc = "draft", ~metadata_initialized, r < nreq
        PROVE  used[l][r] + start[r] + NumSpec - valid[r] <= Width
    <3>1. /\ valid[r] \in Nat /\ start[r] \in Nat /\ start[r] <= valid[r] + NumSpec
      BY <2>2, DraftFacts, Zenon
    <3>2. used[l][r] <= MaxTokens + Reserved(valid[r])
      BY <2>2, Zenon DEF IInv, SelectedInv, GoodRow
    <3>3. Reserved(valid[r]) \in Nat /\ Reserved(valid[r]) <= Sink + Recent
      BY <3>1, ReservedTypes, Zenon
    <3>4. used[l][r] \in Nat
      BY Zenon DEF IInv, TypeOK
    <3> QED
      BY <3>1, <3>2, <3>3, <3>4, Sizes, SizeAssumption
  <2> QED
    BY <2>1, <2>2, Zenon
<1> QED
  BY <1>1, Inductive, PTL

(* The columns of a layer that has attended in this draft step. *)
LEMMA AttendedRow ==
  ASSUME IInv, NEW l \in Layers, NEW r \in Live, Attended(l)
  PROVE  /\ start[r] \in Nat /\ step \in Nat
         /\ StepsOf(l) = step + 1 /\ l \notin SkipLayers
         /\ (start[r] + step + 1) - 1 = start[r] + step
         /\ RowReads(r, table[l][r], used[l][r], valid[r], start[r] + step + 1)
         /\ \A i \in 0 .. used[l][r] - 1 :
              View(l, r, i) = <<table[l][r][i], kv[l][table[l][r][i]]>>
<1>1. pc = "draft" /\ l < layer /\ Kept(l) /\ l \notin SkipLayers
  BY Zenon DEF Attended, Kept
<1>2. /\ valid[r] \in Nat /\ start[r] \in Nat /\ step \in Nat /\ step < NumSpec
      /\ valid[r] <= start[r] /\ start[r] + NumSpec <= MaxModelLen /\ r \in Rows
      /\ layer \in Nat /\ (metadata_initialized <=> (step > 0 \/ layer > 0))
  BY <1>1, DraftFacts, Zenon
<1>3. layer > 0 /\ metadata_initialized
  BY <1>1, <1>2, SizeAssumption DEF Layers
<1>4. StepsOf(l) = step + 1 /\ Begun = step + 1
  BY <1>1, <1>3, Zenon DEF StepsOf, Begun
<1>5. SlotRow(table[l][r], r, Picked(l, r), valid[r], start[r] + NumSpec)
  BY <1>1, <1>3, ZenonT(30) DEF IInv, ConvertedInv
<1>6. used[l][r] \in Nat
  BY <1>2, Zenon DEF IInv, TypeOK
<1>7. used[l][r] = Picked(l, r) + (start[r] + step + 1) - valid[r]
  BY <1>2, <1>4, <1>6 DEF Picked
<1>8. Picked(l, r) \in Nat
  BY <1>5, ZenonT(30) DEF SlotRow
<1>9. ASSUME NEW i \in 0 .. used[l][r] - 1
      PROVE  View(l, r, i) = <<table[l][r][i], kv[l][table[l][r][i]]>>
  <2>1. CASE Gather
    <3>1. Picked(l, r) \in Nat
      BY <1>8, Zenon
    <3>2. Picked(l, r) + start[r] - valid[r] + StepsOf(l) - 1 = used[l][r] - 1
      BY <1>2, <1>4, <1>7, <3>1
    <3>3. StepsOf(l) > 0
      BY <1>2, <1>4
    <3>4. scratch[l][r][i] = <<table[l][r][i], kv[l][table[l][r][i]]>>
      <4>1. ScratchInv
        BY Zenon DEF IInv
      <4>2. \A j \in 0 .. Picked(l, r) + start[r] - valid[r] + StepsOf(l) - 1 :
              scratch[l][r][j] = <<table[l][r][j], kv[l][table[l][r][j]]>>
        BY <1>1, <2>1, <3>3, <4>1, Zenon DEF ScratchInv
      <4> QED
        BY <3>2, <4>2, Zenon
    <3> QED
      BY <2>1, <3>4, Zenon DEF View
  <2>2. CASE ~Gather
    BY <2>2, Zenon DEF View
  <2> QED
    BY <2>1, <2>2, Zenon
<1>10. ASSUME NEW s \in Nat, NEW k \in Nat, k < NumSpec, NEW v \in Nat, v <= s
       PROVE  /\ s + k + 1 \in Nat /\ v <= s + k + 1 /\ s + k + 1 <= s + NumSpec /\ s + NumSpec \in Nat
              /\ (s + k + 1) - 1 = s + k
  BY <1>10, SizeAssumption, SMT
<1>11. /\ start[r] + step + 1 \in Nat /\ valid[r] <= start[r] + step + 1
       /\ start[r] + step + 1 <= start[r] + NumSpec /\ start[r] + NumSpec \in Nat
       /\ (start[r] + step + 1) - 1 = start[r] + step
  BY <1>2, <1>10, Zenon
<1>12. used[l][r] - 1 = Picked(l, r) + (start[r] + step + 1) - valid[r] - 1
  <2>1. ASSUME NEW n \in Nat, NEW m \in Nat, NEW v \in Nat
        PROVE  (n + m - v) - 1 = n + m - v - 1
    BY SMT
  <2>2. (Picked(l, r) + (start[r] + step + 1) - valid[r]) - 1
          = Picked(l, r) + (start[r] + step + 1) - valid[r] - 1
    BY <1>2, <1>8, <1>11, <2>1, Zenon
  <2> QED
    BY <1>7, <2>2, Zenon
<1>13. ReadRow(r, table[l][r], used[l][r], Picked(l, r), valid[r], start[r] + step + 1)
  BY <1>2, <1>5, <1>6, <1>8, <1>11, <1>12, Zenon DEF ReadRow
<1>14. RowReads(r, table[l][r], used[l][r], valid[r], start[r] + step + 1)
  BY <1>13, ReadRowReads, Zenon
<1> QED
  BY <1>1, <1>2, <1>4, <1>9, <1>11, <1>14, Zenon

(* Every key a draft step attends over is the present KV of a position of    *)
(* its own request, and from the rollback point on the KV this propose       *)
(* wrote, whichever layers are skipped and however the draft KV is provided. *)
THEOREM ReadsCurrent == Spec => []DraftReadsCurrent
<1>1. IInv => DraftReadsCurrent
  <2> SUFFICES ASSUME IInv, NEW l \in Layers, NEW r \in 0 .. nreq - 1, Attended(l),
                      NEW i \in 0 .. used[l][r] - 1
               PROVE  \E p \in 0 .. start[r] + step :
                        /\ View(l, r, i) = <<Slot(r, p), kv[l][Slot(r, p)]>>
                        /\ p >= start[r] => kv[l][Slot(r, p)] = <<round, p - start[r] + 1>>
    BY Zenon DEF DraftReadsCurrent
  <2>1. r \in Live
    BY Zenon DEF Live
  <2>2. /\ start[r] \in Nat /\ step \in Nat /\ StepsOf(l) = step + 1 /\ l \notin SkipLayers
        /\ (start[r] + step + 1) - 1 = start[r] + step
        /\ RowReads(r, table[l][r], used[l][r], valid[r], start[r] + step + 1)
        /\ View(l, r, i) = <<table[l][r][i], kv[l][table[l][r][i]]>>
    BY <2>1, AttendedRow, Zenon
  <2>3. PICK p \in 0 .. (start[r] + step + 1) - 1 : table[l][r][i] = Slot(r, p)
    BY <2>2, Zenon DEF RowReads
  <2>4. p \in 0 .. start[r] + step
    BY <2>2, <2>3, Zenon
  <2>5. p >= start[r] => p \in start[r] .. start[r] + StepsOf(l) - 1
    <3>1. ASSUME NEW s \in Nat, NEW k \in Nat, NEW q \in 0 .. s + k, q >= s
          PROVE  q \in s .. s + (k + 1) - 1
      BY <3>1, SMT
    <3> QED
      BY <2>2, <2>4, <3>1, Zenon
  <2>6. p >= start[r] => kv[l][Slot(r, p)] = <<round, p - start[r] + 1>>
    BY <2>1, <2>2, <2>5, Zenon DEF IInv, DraftedInv, Attended
  <2> QED
    BY <2>2, <2>3, <2>4, <2>6, Zenon
<1> QED
  BY <1>1, Inductive, PTL

(* No draft step gives a key twice the weight it has. *)
THEOREM ReadsOnce == Spec => []DraftReadsOnce
<1>1. IInv => DraftReadsOnce
  <2> SUFFICES ASSUME IInv, NEW l \in Layers, NEW r \in 0 .. nreq - 1, Attended(l),
                      NEW i \in 0 .. used[l][r] - 1, NEW j \in 0 .. used[l][r] - 1,
                      View(l, r, i)[1] = View(l, r, j)[1]
               PROVE  i = j
    BY Zenon DEF DraftReadsOnce
  <2>1. r \in Live
    BY Zenon DEF Live
  <2>2. /\ RowReads(r, table[l][r], used[l][r], valid[r], start[r] + step + 1)
        /\ View(l, r, i) = <<table[l][r][i], kv[l][table[l][r][i]]>>
        /\ View(l, r, j) = <<table[l][r][j], kv[l][table[l][r][j]]>>
    BY <2>1, AttendedRow, Zenon
  <2>3. table[l][r][i] = table[l][r][j]
    <3>1. ASSUME NEW a, NEW b PROVE <<a, b>>[1] = a
      BY SMT
    <3> QED
      BY <2>2, <3>1, Zenon
  <2> QED
    BY <2>2, <2>3, Zenon DEF RowReads
<1> QED
  BY <1>1, Inductive, PTL

(* Every draft step attends over the sink, the recent range and all that     *)
(* follows the scored prefix, the token being drafted included.              *)
THEOREM ReadsTail == Spec => []DraftReadsTail
<1>1. IInv => DraftReadsTail
  <2> SUFFICES ASSUME IInv, NEW l \in Layers, NEW r \in 0 .. nreq - 1, Attended(l),
                      NEW p \in (0 .. SinkEff(valid[r]) - 1)
                                  \cup (valid[r] - RecentEff(valid[r]) .. start[r] + step)
               PROVE  \E i \in 0 .. used[l][r] - 1 : View(l, r, i)[1] = Slot(r, p)
    BY Zenon DEF DraftReadsTail
  <2>1. r \in Live
    BY Zenon DEF Live
  <2>2. /\ (start[r] + step + 1) - 1 = start[r] + step
        /\ RowReads(r, table[l][r], used[l][r], valid[r], start[r] + step + 1)
        /\ \A i \in 0 .. used[l][r] - 1 :
             View(l, r, i) = <<table[l][r][i], kv[l][table[l][r][i]]>>
    BY <2>1, AttendedRow, Zenon
  <2>3. p \in (0 .. SinkEff(valid[r]) - 1) \cup (valid[r] - RecentEff(valid[r]) .. (start[r] + step + 1) - 1)
    BY <2>2, Zenon
  <2>4. PICK i \in 0 .. used[l][r] - 1 : table[l][r][i] = Slot(r, p)
    BY <2>2, <2>3, Zenon DEF RowReads
  <2>5. View(l, r, i) = <<Slot(r, p), kv[l][table[l][r][i]]>>
    BY <2>2, <2>4, Zenon
  <2> QED
    BY <2>5, SMT
<1> QED
  BY <1>1, Inductive, PTL

(* A draft step attends over each key it must, once, inside the table row.   *)
THEOREM RowIsExact == Spec => []RowExact
<1>1. WidthBound /\ DraftReadsOnce /\ DraftReadsTail => RowExact
  BY Zenon DEF RowExact
<1> QED
  BY <1>1, RowWide, ReadsOnce, ReadsTail, PTL
=============================================================================

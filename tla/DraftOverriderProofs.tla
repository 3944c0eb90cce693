------------------------ MODULE DraftOverriderProofs ------------------------
(***************************************************************************)
(* What a draft attends over, for any number of layers, rows, drafts and   *)
(* rounds: of the Vegas overrider, for any budget and any selection, and,  *)
(* at the end, of the StreamingLLM one.                                    *)
(*                                                                         *)
(* A row of Vegas is given by its shape s, the selection S of a layer and  *)
(* the length b its draft starts from.  OrderedRow is its row of the page  *)
(* table after the verify pass, SlotsRow after index_to_slots; the         *)
(* invariant says in which of the two forms every layer is.                *)
(***************************************************************************)
EXTENDS VegasOverrider, FiniteSetTheorems, WellFoundedInduction, TLAPS

OrderedRow(row, S) == \A i \in 0 .. Cardinality(S) - 1 : row[i] = Ordered(S)[i]
PickOK(S, s) == S \subseteq 0 .. ValidLen(s) - 1 /\ Cardinality(S) = BudgetOf(s)
SlotsRow(row, r, S, s, b) ==
  /\ \A i \in 0 .. BudgetOf(s) - 1 : row[i] = Slot(r, Ordered(S)[i])
  /\ \A i \in BudgetOf(s) .. (BudgetOf(s) + b + NumSpec - ValidLen(s)) - 1 :
       row[i] = Slot(r, ValidLen(s) + (i - BudgetOf(s)))
(* Where the draft of a row of shape s may start from. *)
StartOK(b, s) ==
  b \in Nat /\ ValidLen(s) <= b /\ b <= ValidLen(s) + NumSpec /\ b + NumSpec <= MaxModelLen

-----------------------------------------------------------------------------
(* Facts about the operators *)

(* A set of naturals that is not empty has a least element. *)
LEMMA LeastNat ==
  ASSUME NEW T \in SUBSET Nat, T # {}
  PROVE  \E x \in T : \A y \in T : x <= y
<1>1. PICK x \in T : \A y \in T : ~(<<y, x>> \in OpToRel(<, Nat))
  BY WFMin, NatLessThanWellFounded, Zenon
<1>2. \A y \in T : ~(y < x)
  BY <1>1, Zenon DEF OpToRel
<1> QED
  BY <1>2, SMT

(* Induction over the naturals, for a property given as a set. *)
LEMMA NatSetInduction ==
  ASSUME NEW T, 0 \in T, \A k \in Nat : k \in T => k + 1 \in T
  PROVE  \A k \in Nat : k \in T
<1> DEFINE Bad == Nat \ T
<1>1. SUFFICES ASSUME Bad # {} PROVE FALSE
  BY Zenon
<1>2. PICK k \in Bad : \A j \in Bad : k <= j
  <2>1. Bad \in SUBSET Nat
    BY Zenon
  <2> HIDE DEF Bad
  <2> QED
    BY <1>1, <2>1, LeastNat, Zenon
<1>3. k \in Nat /\ k # 0
  BY <1>2, Zenon
<1>4. k - 1 \in Nat /\ k - 1 \notin Bad /\ (k - 1) + 1 = k
  <2> HIDE DEF Bad
  <2> QED
    BY <1>2, <1>3, SMT
<1>5. k \in T
  BY <1>4, Zenon
<1> QED
  BY <1>2, <1>5, Zenon

(* f lists the elements of S in ascending order. *)
Lists(f, S) ==
  /\ f \in [0 .. Cardinality(S) - 1 -> S]
  /\ \A i, j \in DOMAIN f : i < j => f[i] < f[j]

(* A set of positions below v is finite. *)
LEMMA FinitePicks ==
  ASSUME NEW v \in Nat, NEW S \in SUBSET (0 .. v - 1)
  PROVE  IsFiniteSet(S) /\ Cardinality(S) \in Nat
<1>1. IsFiniteSet(0 .. v - 1)
  <2>1. 0 \in Int /\ v - 1 \in Int
    BY SMT
  <2> QED
    BY <2>1, FS_Interval, Zenon
<1>2. IsFiniteSet(S)
  BY <1>1, FS_Subset, Zenon
<1> QED
  BY <1>2, FS_CardinalityType, Zenon

(* Every set of positions below v can be listed: by induction on v. *)
LEMMA ListsExist ==
  \A v \in Nat : \A S \in SUBSET (0 .. v - 1) : \E f : Lists(f, S)
<1> DEFINE T == {v \in Nat : \A S \in SUBSET (0 .. v - 1) : \E f : Lists(f, S)}
<1>1. 0 \in T
  <2>1. SUFFICES ASSUME NEW S \in SUBSET (0 .. 0 - 1) PROVE \E f : Lists(f, S)
    OBVIOUS
  <2>2. S = {}
    BY SMT
  <2>3. Cardinality(S) - 1 = -1
    BY <2>2, FS_EmptySet, SMT
  <2>4. 0 .. Cardinality(S) - 1 = {}
    BY <2>3, SMT
  <2>5. Lists([i \in {} |-> 0], S)
    BY <2>4, Zenon DEF Lists
  <2> QED
    BY <2>5
<1>2. ASSUME NEW v \in Nat, v \in T PROVE v + 1 \in T
  <2>1. SUFFICES ASSUME NEW S \in SUBSET (0 .. (v + 1) - 1) PROVE \E f : Lists(f, S)
    BY SMT
  <2> DEFINE R == S \ {v}
  <2>2. R \in SUBSET (0 .. v - 1)
    BY SMT
  <2>3. PICK g : Lists(g, R)
    BY <1>2, <2>2, Zenon
  <2>4. CASE v \notin S
    <3>1. R = S
      BY <2>4, Zenon
    <3> QED
      BY <2>3, <3>1, Zenon
  <2>5. CASE v \in S
    <3> DEFINE n == Cardinality(R)
    <3>1. IsFiniteSet(R) /\ n \in Nat
      BY <2>2, FinitePicks, Zenon
    <3>2. Cardinality(S) = n + 1
      <4>1. S = R \cup {v} /\ v \notin R
        BY <2>5, Zenon
      <4> HIDE DEF R
      <4> QED
        BY <3>1, <4>1, FS_AddElement, Zenon
    <3>3. R \subseteq S
      BY Zenon
    <3> HIDE DEF n, R
    <3>4. g \in [0 .. n - 1 -> R] /\ \A i, j \in 0 .. n - 1 : i < j => g[i] < g[j]
      BY <2>3, Zenon DEF Lists, n
    <3> DEFINE f == [i \in 0 .. n |-> IF i < n THEN g[i] ELSE v]
    <3>5. 0 .. Cardinality(S) - 1 = 0 .. n
      BY <3>1, <3>2, SMT
    <3>6. \A i \in 0 .. n : i < n => i \in 0 .. n - 1
      BY <3>1, SMT
    <3>7. f \in [0 .. n -> S]
      BY <2>5, <3>3, <3>4, <3>6, Zenon
    <3>8. ASSUME NEW i \in 0 .. n, NEW j \in 0 .. n, i < j PROVE f[i] < f[j]
      <4>1. i \in 0 .. n - 1 /\ i < n
        BY <3>1, <3>8, SMT
      <4>2. f[i] = g[i] /\ g[i] \in 0 .. v - 1
        BY <2>2, <3>4, <4>1, Zenon
      <4>3. CASE j < n
        BY <3>4, <3>6, <3>8, <4>1, <4>2, <4>3, Zenon
      <4>4. CASE ~(j < n)
        <5>1. f[j] = v
          BY <4>4, Zenon
        <5>2. g[i] < v
          BY <4>2, SMT
        <5> QED
          BY <4>2, <5>1, <5>2, Zenon
      <4> QED
        BY <4>3, <4>4, Zenon
    <3>9. Lists(f, S)
      BY <3>5, <3>7, <3>8, Zenon DEF Lists
    <3> QED
      BY <3>9
  <2> QED
    BY <2>4, <2>5, Zenon
<1>3. \A v \in Nat : v \in T
  <2> HIDE DEF T
  <2> QED
    BY <1>1, <1>2, NatSetInduction, Zenon
<1> QED
  BY <1>3, Zenon

(* Ordered(S) takes every element of S, each once. *)
LEMMA OrderedFacts ==
  ASSUME NEW v \in Nat, NEW S \in SUBSET (0 .. v - 1)
  PROVE  /\ Cardinality(S) \in Nat
         /\ Ordered(S) \in [0 .. Cardinality(S) - 1 -> S]
         /\ \A i, j \in 0 .. Cardinality(S) - 1 : Ordered(S)[i] = Ordered(S)[j] => i = j
         /\ \A p \in S : \E i \in 0 .. Cardinality(S) - 1 : Ordered(S)[i] = p
<1> DEFINE n == Cardinality(S)
           g == Ordered(S)
<1>1. IsFiniteSet(S) /\ n \in Nat
  BY FinitePicks, Zenon
<1>2. \E f \in [0 .. n - 1 -> S] : \A i, j \in DOMAIN f : i < j => f[i] < f[j]
  <2>1. PICK f : Lists(f, S)
    BY ListsExist, Zenon
  <2> QED
    BY <2>1, Zenon DEF Lists
<1>3. g \in [0 .. n - 1 -> S] /\ \A i, j \in DOMAIN g : i < j => g[i] < g[j]
  BY <1>2, Zenon DEF Ordered
<1> HIDE DEF n, g
<1>4. ASSUME NEW i \in 0 .. n - 1, NEW j \in 0 .. n - 1, g[i] = g[j] PROVE i = j
  <2>1. g[i] \in 0 .. v - 1 /\ g[j] \in 0 .. v - 1
    BY <1>3, Zenon
  <2>2. ~(i < j) /\ ~(j < i)
    <3>1. (i < j => g[i] < g[j]) /\ (j < i => g[j] < g[i])
      BY <1>3, Zenon
    <3>2. ASSUME NEW x \in 0 .. v - 1, x < x PROVE FALSE
      BY <3>2, SMT
    <3> QED
      BY <1>4, <2>1, <3>1, <3>2, Zenon
  <2> QED
    BY <1>1, <2>2, SMT
<1>5. g \in Injection(0 .. n - 1, S)
  BY <1>3, <1>4, Zenon DEF Injection, IsInjective
<1>6. Cardinality(0 .. n - 1) = Cardinality(S)
  <2>1. 0 \in Int /\ n - 1 \in Int
    BY <1>1, SMT
  <2>2. Cardinality(0 .. n - 1) = IF 0 > n - 1 THEN 0 ELSE (n - 1) - 0 + 1
    BY <2>1, FS_Interval, Zenon
  <2>3. Cardinality(0 .. n - 1) = n
    BY <1>1, <2>2, SMT
  <2> QED
    BY <2>3, Zenon DEF n
<1>7. g \in Surjection(0 .. n - 1, S)
  BY <1>1, <1>5, <1>6, FS_Injection, Zenon
<1>8. \A p \in S : \E i \in 0 .. n - 1 : g[i] = p
  BY <1>7, Zenon DEF Surjection
<1> QED
  BY <1>1, <1>3, <1>4, <1>8, Zenon DEF n, g

-----------------------------------------------------------------------------
(* The rows *)

(* The lengths and counts that a shape gives a row. *)
LEMMA ShapeFacts ==
  ASSUME NEW s \in Shapes
  PROVE  /\ ValidLen(s) \in Nat /\ BudgetOf(s) \in Nat
         /\ BudgetOf(s) <= ValidLen(s) /\ BudgetOf(s) <= MaxTokens /\ MaxTokens \in Nat
         /\ ValidLen(s) <= MaxModelLen
         /\ \A j \in Rejections(s) :
              s.k + NumSpec <= MaxModelLen => StartOK(s.k - j, s)
<1>1. s.k \in 1 .. MaxModelLen /\ s.q \in 1 .. s.k
  BY ShapeAssumption, Zenon
<1>2. s.k \in Nat /\ s.q \in Nat /\ s.q >= 1 /\ s.q <= s.k /\ s.k <= MaxModelLen
  BY <1>1, SizeAssumption, SMT
<1>3. ValidLen(s) = s.k + 1 - (IF s.q > NumSpec + 1 THEN 1 ELSE s.q)
  BY <1>2, SMT DEF ValidLen
<1>4. ValidLen(s) \in Nat /\ ValidLen(s) <= MaxModelLen
  BY <1>2, <1>3, SizeAssumption, SMT
<1>5. ASSUME NEW n \in Nat PROVE CeilRatio(n) \in Nat
  <2>1. n * RatioNum \in Nat
    BY SizeAssumption, SMT
  <2> DEFINE m == n * RatioNum + RatioDen - 1
  <2>2. m \in Nat
    BY <2>1, SizeAssumption, SMT
  <2> HIDE DEF m
  <2>3. m \div RatioDen \in Nat
    BY <2>2, SizeAssumption, SMT
  <2> QED
    BY <2>3, Zenon DEF CeilRatio, m
<1>6. MaxTokens \in Nat
  BY <1>5, SizeAssumption, Zenon DEF MaxTokens, Larger
<1>7. Clamped(CeilRatio(s.k)) \in Nat /\ Clamped(CeilRatio(s.k)) <= MaxTokens
  <2>1. CeilRatio(s.k) \in Nat
    BY <1>2, <1>5, Zenon
  <2> QED
    BY <1>6, <2>1, SizeAssumption, SMT DEF Clamped, Larger, Smaller
<1>8. BudgetOf(s) \in Nat /\ BudgetOf(s) <= ValidLen(s) /\ BudgetOf(s) <= MaxTokens
  BY <1>4, <1>6, <1>7, SMT DEF BudgetOf, Smaller
<1>9. ASSUME NEW j \in Rejections(s), s.k + NumSpec <= MaxModelLen
      PROVE  StartOK(s.k - j, s)
  <2>1. CASE s.q > NumSpec + 1
    BY <1>2, <1>3, <1>9, <2>1, SizeAssumption, SMT DEF StartOK, Rejections
  <2>2. CASE ~(s.q > NumSpec + 1)
    BY <1>2, <1>3, <1>9, <2>2, SizeAssumption, SMT DEF StartOK, Rejections
  <2> QED
    BY <2>1, <2>2, Zenon
<1> QED
  BY <1>4, <1>6, <1>8, <1>9, Zenon

(* A row that was scored and picked is Ordered, whatever it held before. *)
LEMMA PickedRowIs ==
  ASSUME NEW s \in Shapes, NEW S, PickOK(S, s), NEW old
  PROVE  OrderedRow(PickedRow(old, S), S)
<1>1. /\ Cardinality(S) \in Nat /\ Cardinality(S) <= MaxTokens /\ MaxTokens \in Nat
  BY ShapeFacts, Zenon DEF PickOK
<1>2. ASSUME NEW i \in 0 .. Cardinality(S) - 1 PROVE i \in Columns /\ i < Cardinality(S)
  BY <1>1, SizeAssumption, SMT DEF Columns, Width
<1> QED
  BY <1>2, Zenon DEF OrderedRow, PickedRow

(* index_to_slots on an ordered row fits in the table and yields the slots.  *)
LEMMA ConvertedRowIs ==
  ASSUME NEW s \in Shapes, NEW S, PickOK(S, s), NEW b, StartOK(b, s), NEW old, OrderedRow(old, S),
         NEW r, budget[r] = BudgetOf(s), valid[r] = ValidLen(s), NEW final, final = b + NumSpec
  PROVE  SlotsRow(ConvertedRow(old, r, final), r, S, s, b)
<1> DEFINE c == BudgetOf(s)
           v == ValidLen(s)
<1>1. /\ c \in Nat /\ v \in Nat /\ c <= MaxTokens /\ MaxTokens \in Nat
      /\ b \in Nat /\ v <= b /\ b <= v + NumSpec /\ NumSpec \in Nat
  BY ShapeFacts, SizeAssumption, Zenon DEF StartOK
<1>2. budget[r] = c /\ valid[r] = v
  BY Zenon
<1>3. \A i \in 0 .. c - 1 : old[i] = Ordered(S)[i]
  BY Zenon DEF OrderedRow, PickOK
<1> HIDE DEF c, v
<1>4. ASSUME NEW i \in 0 .. c - 1 PROVE i \in Columns /\ i < c
  BY <1>1, SMT DEF Columns, Width
<1>5. ASSUME NEW i \in c .. (c + b + NumSpec - v) - 1
      PROVE  i \in Columns /\ ~(i < c) /\ i < c + final - v
  BY <1>1, SMT DEF Columns, Width
<1>6. \A i \in 0 .. c - 1 : ConvertedRow(old, r, final)[i] = Slot(r, Ordered(S)[i])
  BY <1>2, <1>3, <1>4, Zenon DEF ConvertedRow
<1>7. \A i \in c .. (c + b + NumSpec - v) - 1 :
        ConvertedRow(old, r, final)[i] = Slot(r, v + (i - c))
  BY <1>2, <1>5, Zenon DEF ConvertedRow
<1> QED
  BY <1>6, <1>7, Zenon DEF SlotsRow, c, v

(* What a draft step of m tokens reads through such a row. *)
RowReads(row, r, S, u, v, m) ==
  /\ {row[i] : i \in 0 .. u - 1} = {Slot(r, p) : p \in S \cup v .. m - 1}
  /\ \A i, j \in 0 .. u - 1 : row[i] = row[j] => i = j

(* It reads the selection and all that follows the scored prefix, once.      *)
LEMMA SlotsRowReads ==
  ASSUME NEW s \in Shapes, NEW S, PickOK(S, s), NEW b, StartOK(b, s), NEW r \in Rows,
         NEW row, SlotsRow(row, r, S, s, b), NEW m \in b + 1 .. b + NumSpec,
         NEW u, u = BudgetOf(s) + m - ValidLen(s)
  PROVE  RowReads(row, r, S, u, ValidLen(s), m)
<1> DEFINE c == BudgetOf(s)
           v == ValidLen(s)
           f == Ordered(S)
<1>1. /\ c \in Nat /\ v \in Nat /\ NumSpec \in Nat /\ MaxModelLen \in Nat
      /\ b \in Nat /\ v <= b /\ b + NumSpec <= MaxModelLen
      /\ u = c + m - v
  BY ShapeFacts, SizeAssumption, Zenon DEF StartOK
<1>2. S \in SUBSET (0 .. v - 1) /\ Cardinality(S) = c
  BY Zenon DEF PickOK
<1>3. /\ f \in [0 .. c - 1 -> S]
      /\ \A i, j \in 0 .. c - 1 : f[i] = f[j] => i = j
      /\ \A p \in S : \E i \in 0 .. c - 1 : f[i] = p
  BY <1>1, <1>2, OrderedFacts, Zenon
<1>4. /\ \A i \in 0 .. c - 1 : row[i] = Slot(r, f[i])
      /\ \A i \in c .. (c + b + NumSpec - v) - 1 : row[i] = Slot(r, v + (i - c))
  BY Zenon DEF SlotsRow
<1> HIDE DEF c, v, f
<1>5. m \in Nat /\ v <= m /\ m <= MaxModelLen /\ u \in Nat /\ v <= MaxModelLen
  BY <1>1, SMT
(* The position that column i holds the slot of. *)
<1> DEFINE pos(i) == IF i < c THEN f[i] ELSE v + (i - c)
<1>6. ASSUME NEW i \in 0 .. u - 1
      PROVE  row[i] = Slot(r, pos(i)) /\ pos(i) \in S \cup v .. m - 1
  <2>1. CASE i < c
    <3>1. i \in 0 .. c - 1
      BY <1>1, <1>5, <2>1, SMT
    <3> QED
      BY <1>3, <1>4, <2>1, <3>1, Zenon
  <2>2. CASE ~(i < c)
    <3>1. i \in c .. (c + b + NumSpec - v) - 1 /\ v + (i - c) \in v .. m - 1
      BY <1>1, <1>5, <2>2, SMT
    <3> QED
      BY <1>4, <2>2, <3>1, Zenon
  <2> QED
    BY <2>1, <2>2, Zenon
<1>7. ASSUME NEW p \in S \cup v .. m - 1
      PROVE  \E i \in 0 .. u - 1 : pos(i) = p
  <2>1. CASE p \in S
    <3>1. PICK i \in 0 .. c - 1 : f[i] = p
      BY <1>3, <2>1, Zenon
    <3>2. i \in 0 .. u - 1 /\ i < c
      BY <1>1, <1>5, SMT
    <3> QED
      BY <3>1, <3>2, Zenon
  <2>2. CASE p \in v .. m - 1
    <3>1. c + (p - v) \in 0 .. u - 1 /\ ~(c + (p - v) < c) /\ v + ((c + (p - v)) - c) = p
      BY <1>1, <1>5, <2>2, SMT
    <3> QED
      BY <3>1, Zenon
  <2> QED
    BY <2>1, <2>2, Zenon
<1>8. \A p \in S \cup v .. m - 1 : p \in 0 .. MaxModelLen - 1
  BY <1>1, <1>2, <1>5, SMT
<1>9. ASSUME NEW i \in 0 .. u - 1, NEW j \in 0 .. u - 1, pos(i) = pos(j) PROVE i = j
  <2>1. CASE i < c /\ j < c
    <3>1. i \in 0 .. c - 1 /\ j \in 0 .. c - 1
      BY <1>1, <1>5, <2>1, SMT
    <3> QED
      BY <1>3, <1>9, <2>1, <3>1, Zenon
  <2>2. CASE ~(i < c) /\ ~(j < c)
    <3>1. v + (i - c) = v + (j - c)
      BY <1>9, <2>2, Zenon
    <3> QED
      BY <1>1, <1>5, <3>1, SMT
  <2>3. ASSUME NEW x \in 0 .. u - 1, NEW y \in 0 .. u - 1, x < c, ~(y < c), pos(x) = pos(y)
        PROVE  FALSE
    <3>1. x \in 0 .. c - 1
      BY <1>1, <1>5, <2>3, SMT
    <3>2. f[x] \in 0 .. v - 1 /\ f[x] = v + (y - c)
      BY <1>2, <1>3, <2>3, <3>1, Zenon
    <3> QED
      BY <1>1, <1>5, <2>3, <3>2, SMT
  <2> QED
    BY <1>9, <2>1, <2>2, <2>3, Zenon
<1>10. {row[i] : i \in 0 .. u - 1} = {Slot(r, p) : p \in S \cup v .. m - 1}
  <2> HIDE DEF pos
  <2>1. \A i \in 0 .. u - 1 : row[i] \in {Slot(r, p) : p \in S \cup v .. m - 1}
    BY <1>6, Zenon
  <2>2. \A p \in S \cup v .. m - 1 : Slot(r, p) \in {row[i] : i \in 0 .. u - 1}
    <3> SUFFICES ASSUME NEW p \in S \cup v .. m - 1
                 PROVE  \E i \in 0 .. u - 1 : Slot(r, p) = row[i]
      BY Zenon
    <3>1. PICK i \in 0 .. u - 1 : pos(i) = p
      BY <1>7, Zenon
    <3> QED
      BY <1>6, <3>1, Zenon
  <2> QED
    BY <2>1, <2>2, Zenon
<1>11. ASSUME NEW i \in 0 .. u - 1, NEW j \in 0 .. u - 1, row[i] = row[j] PROVE i = j
  <2> HIDE DEF pos
  <2>1. Slot(r, pos(i)) = Slot(r, pos(j))
    BY <1>6, <1>11, Zenon
  <2>2. pos(i) = pos(j)
    BY <1>6, <1>8, <2>1, BlockAssumption, Zenon
  <2> QED
    BY <1>9, <2>2, Zenon
<1> QED
  BY <1>10, <1>11, Zenon DEF RowReads, v

-----------------------------------------------------------------------------
(* The invariant *)

Live == 0 .. nreq - 1
Base(r) == seqlens[r] - step - 1            \* the length the draft started from
Begun == step + (IF layer > 0 THEN 1 ELSE 0)    \* draft steps that layer 0 has begun

(* The hooks count layers as the model does; a batch keeps its shapes. *)
ControlInv ==
  /\ pc \in {"idle", "verify", "sample", "draft"}
  /\ nreq \in 0 .. MaxBatch /\ layer \in 0 .. NumLayers
  /\ pc = "verify" => layer < NumLayers
  /\ curr_layer = IF pc \in {"verify", "draft"} /\ layer < NumLayers THEN layer ELSE 0
  /\ pc = "verify" /\ layer > 0 => batch_size = nreq
  /\ pc # "idle" => \A r \in Live : shape[r] \in Shapes

(* From layer 0 of the verify pass on, the scored prefix is that of the round. *)
ScoredInv ==
  (pc = "verify" /\ layer > 0) \/ pc = "sample" \/ pc = "draft"
  => \A r \in Live : valid[r] = ValidLen(shape[r])

(* Until the first draft layer, the rows hold the selections of this round.  *)
Waiting == \/ pc = "verify" /\ layer > 0
           \/ pc = "sample"
           \/ pc = "draft" /\ ~metadata_initialized
Selects(l, r) ==
  PickOK(chosen[l][r], shape[r]) /\ OrderedRow(table[l][r], chosen[l][r])
WaitingInv ==
  Waiting => \A r \in Live : /\ budget[r] = BudgetOf(shape[r])
                             /\ \A l \in Layers : (pc = "verify" => l < layer) => Selects(l, r)

DraftInv ==
  pc = "draft" =>
    /\ step \in 0 .. NumSpec - 1
    /\ metadata_initialized <=> (step > 0 \/ layer > 0)
    /\ \A r \in Live : seqlens[r] \in Nat /\ StartOK(Base(r), shape[r])

(* From then on they hold slots, and the count follows the draft steps. *)
Converted(l, r) ==
  /\ PickOK(chosen[l][r], shape[r])
  /\ SlotsRow(table[l][r], r, chosen[l][r], shape[r], Base(r))
SlotsInv ==
  pc = "draft" /\ metadata_initialized =>
    \A r \in Live :
      /\ budget[r] = BudgetOf(shape[r]) + (Base(r) + Begun) - ValidLen(shape[r])
      /\ \A l \in Layers : Converted(l, r)

VegasInv == ControlInv /\ ScoredInv /\ WaitingInv /\ DraftInv /\ SlotsInv

-----------------------------------------------------------------------------
(* Every step preserves it *)

(* The rows of a batch are rows of the buffers. *)
LEMMA LiveRows ==
  ASSUME ControlInv
  PROVE  /\ nreq \in Nat /\ nreq <= MaxBatch
         /\ \A r \in Live : r \in Rows /\ r < nreq
         /\ layer \in Nat /\ layer <= NumLayers
         /\ \A l \in Layers : l \in Nat /\ l < NumLayers
BY SizeAssumption, SMT DEF ControlInv, Live, Rows, Layers

(* A round starts with the shapes of its batch. *)
LEMMA StartVerifyInv ==
  ASSUME VegasInv, StartVerify
  PROVE  VegasInv'
<1>1. PICK n \in 1 .. MaxBatch : \E sh \in [0 .. n - 1 -> Shapes] :
        nreq' = n /\ shape' = [r \in Rows |-> IF r < n THEN sh[r] ELSE Padding]
  BY Zenon DEF StartVerify
<1>2. PICK sh \in [0 .. n - 1 -> Shapes] :
        nreq' = n /\ shape' = [r \in Rows |-> IF r < n THEN sh[r] ELSE Padding]
  BY <1>1, Zenon
<1>3. pc = "idle" /\ pc' = "verify" /\ layer' = 0 /\ curr_layer' = curr_layer
  BY Zenon DEF StartVerify
<1>4. n \in 0 .. MaxBatch /\ 0 \in 0 .. NumLayers /\ 0 < NumLayers /\ ~(0 > 0)
      /\ \A r \in 0 .. n - 1 : r \in Rows /\ r < n
  BY SizeAssumption, SMT DEF Rows
<1>5. curr_layer = 0
  BY <1>3, Zenon DEF VegasInv, ControlInv
<1>6. \A r \in Live' : shape'[r] \in Shapes
  BY <1>2, <1>4, Zenon DEF Live
<1>7. ControlInv'
  BY <1>2, <1>3, <1>4, <1>5, <1>6, Zenon DEF ControlInv
<1> QED
  BY <1>3, <1>4, <1>7, Zenon DEF VegasInv, ScoredInv, WaitingInv, Waiting, DraftInv, SlotsInv

(* varlen_topk on the layers L of a batch of n rows, padding included: every *)
(* live row is picked within its prefix, and the other layers keep theirs.   *)
LEMMA SelectedRows ==
  ASSUME VegasInv, pc = "verify",
         \A r \in Live : valid'[r] = ValidLen(shape[r]) /\ budget'[r] = BudgetOf(shape[r]),
         NEW L \in SUBSET Layers, NEW n \in nreq .. MaxBatch,
         NEW pick \in [L -> Selections(n)], Selected(L, n, pick)
  PROVE  \A r \in Live :
           /\ \A l \in L : /\ PickOK(chosen'[l][r], shape[r])
                           /\ OrderedRow(table'[l][r], chosen'[l][r])
           /\ \A l \in Layers \ L : chosen'[l][r] = chosen[l][r] /\ table'[l][r] = table[l][r]
<1> SUFFICES ASSUME NEW r \in Live
             PROVE  /\ \A l \in L : /\ PickOK(chosen'[l][r], shape[r])
                                    /\ OrderedRow(table'[l][r], chosen'[l][r])
                    /\ \A l \in Layers \ L :
                         chosen'[l][r] = chosen[l][r] /\ table'[l][r] = table[l][r]
  BY Zenon
<1>1. r \in Rows /\ shape[r] \in Shapes
  BY LiveRows, Zenon DEF VegasInv, ControlInv
<1>2. r \in 0 .. n - 1 /\ r < n
  <2>1. nreq \in Nat
    BY LiveRows, Zenon DEF VegasInv
  <2> QED
    BY <2>1, SMT DEF Live
<1>3. ASSUME NEW l \in L
      PROVE  PickOK(chosen'[l][r], shape[r]) /\ OrderedRow(table'[l][r], chosen'[l][r])
  <2>1. l \in Layers /\ pick[l] \in Selections(n)
    BY Zenon
  <2>2. pick[l][r] \in Picks(r)
    BY <1>2, <2>1, Zenon DEF Selections
  <2>3. /\ pick[l][r] \in SUBSET (0 .. ValidLen(shape[r]) - 1)
        /\ Cardinality(pick[l][r]) = Smaller(BudgetOf(shape[r]), ValidLen(shape[r]))
    BY <2>2, Zenon DEF Picks
  <2>4. Smaller(BudgetOf(shape[r]), ValidLen(shape[r])) = BudgetOf(shape[r])
    BY <1>1, ShapeFacts, Zenon DEF Smaller
  <2>5. PickOK(pick[l][r], shape[r])
    BY <2>3, <2>4, Zenon DEF PickOK
  <2>6. chosen'[l][r] = pick[l][r] /\ table'[l][r] = PickedRow(table[l][r], pick[l][r])
    BY <1>1, <1>2, <2>1, Zenon DEF Selected
  <2> QED
    BY <1>1, <2>5, <2>6, PickedRowIs, Zenon
<1>4. ASSUME NEW l \in Layers \ L
      PROVE  chosen'[l][r] = chosen[l][r] /\ table'[l][r] = table[l][r]
  BY <1>1, Zenon DEF Selected
<1> QED
  BY <1>3, <1>4, Zenon

(* The prefix and the budget that layer 0 computes. *)
LEMMA BegunVerify ==
  ASSUME VegasInv, NEW n \in nreq .. MaxBatch, BeginVerify(n)
  PROVE  \A r \in Live : valid'[r] = ValidLen(shape[r]) /\ budget'[r] = BudgetOf(shape[r])
<1>1. \A r \in Live : r \in Rows /\ r < n
  <2>1. nreq \in Nat /\ \A r \in Live : r \in Rows
    BY LiveRows, Zenon DEF VegasInv
  <2> QED
    BY <2>1, SMT DEF Live
<1> QED
  BY <1>1, Zenon DEF BeginVerify

(* The counter of the hooks after a layer. *)
LEMMA LayerCounted ==
  ASSUME NEW n \in 0 .. NumLayers - 1
  PROVE  (n + 1) % NumLayers = (IF n + 1 < NumLayers THEN n + 1 ELSE 0)
<1>1. CASE n + 1 < NumLayers
  BY <1>1, SizeAssumption, SMT
<1>2. CASE ~(n + 1 < NumLayers)
  <2>1. n + 1 = NumLayers
    BY <1>2, SizeAssumption, SMT
  <2>2. NumLayers % NumLayers = 0
    BY SizeAssumption, SMT
  <2> QED
    BY <1>2, <2>1, <2>2, Zenon
<1> QED
  BY <1>1, <1>2, Zenon

(* A verify layer leaves the selection of this round in its own row only. *)
LEMMA VerifyLayerInv ==
  ASSUME VegasInv, VerifyLayer
  PROVE  VegasInv'
<1>1. /\ pc = "verify" /\ layer < NumLayers /\ layer' = layer + 1
      /\ curr_layer' = (curr_layer + 1) % NumLayers
      /\ pc' = (IF layer = NumLayers - 1 THEN "sample" ELSE pc)
      /\ nreq' = nreq /\ shape' = shape
  BY Zenon DEF VerifyLayer
<1>2. /\ layer \in Nat /\ nreq \in Nat /\ nreq <= MaxBatch /\ curr_layer = layer
      /\ layer \in 0 .. NumLayers - 1 /\ layer \in Layers
  <2>1. layer \in Nat /\ nreq \in Nat /\ nreq <= MaxBatch /\ curr_layer = layer
    BY <1>1, LiveRows, Zenon DEF VegasInv, ControlInv
  <2> QED
    BY <1>1, <2>1, SizeAssumption, SMT DEF Layers
<1>3. /\ layer + 1 \in 0 .. NumLayers /\ layer + 1 > 0
      /\ (layer = NumLayers - 1 <=> ~(layer + 1 < NumLayers))
      /\ \A l \in Layers : l < layer + 1 <=> l < layer \/ l = layer
      /\ \A l \in Layers : l < layer => layer > 0
      /\ \A l \in Layers : ~(layer + 1 < NumLayers) => l < layer + 1
  BY <1>2, SizeAssumption, SMT DEF Layers
<1>4. nreq \in nreq .. MaxBatch
  BY <1>2, SizeAssumption, SMT
<1>5. batch_size' = nreq /\ \A r \in Live : valid'[r] = ValidLen(shape[r]) /\ budget'[r] = BudgetOf(shape[r])
  <2>1. CASE layer = 0
    BY <1>2, <1>4, <2>1, BegunVerify, Zenon DEF VerifyLayer
  <2>2. CASE layer # 0
    <3>1. layer > 0
      BY <1>2, <2>2, SMT
    <3>2. batch_size' = batch_size /\ valid' = valid /\ budget' = budget
      BY <1>2, <2>2, Zenon DEF VerifyLayer
    <3> QED
      BY <1>1, <3>1, <3>2, Zenon DEF VegasInv, ControlInv, ScoredInv, WaitingInv, Waiting
  <2> QED
    BY <2>1, <2>2, Zenon
<1>6. \A r \in Live :
        /\ PickOK(chosen'[layer][r], shape[r]) /\ OrderedRow(table'[layer][r], chosen'[layer][r])
        /\ \A l \in Layers : l # layer => chosen'[l][r] = chosen[l][r] /\ table'[l][r] = table[l][r]
  <2>1. PICK pick \in [{layer} -> Selections(nreq)] : Selected({layer}, nreq, pick)
    BY <1>2, <1>5, Zenon DEF VerifyLayer
  <2>2. {layer} \in SUBSET Layers /\ layer \in {layer}
    BY <1>2, Zenon
  <2>3. \A r \in Live :
          /\ \A l \in {layer} : /\ PickOK(chosen'[l][r], shape[r])
                                /\ OrderedRow(table'[l][r], chosen'[l][r])
          /\ \A l \in Layers \ {layer} : chosen'[l][r] = chosen[l][r] /\ table'[l][r] = table[l][r]
    BY <1>1, <1>4, <1>5, <2>1, <2>2, SelectedRows, Zenon
  <2> QED
    BY <2>2, <2>3, Zenon
<1>7. Live' = Live
  BY <1>1, Zenon DEF Live
<1>8. (pc' = "verify" /\ layer + 1 < NumLayers) \/ (pc' = "sample" /\ ~(layer + 1 < NumLayers))
  BY <1>1, <1>3, Zenon
<1>9. ControlInv'
  <2>1. curr_layer' = IF layer + 1 < NumLayers THEN layer + 1 ELSE 0
    BY <1>1, <1>2, LayerCounted, Zenon
  <2>2. curr_layer' = IF pc' \in {"verify", "draft"} /\ layer' < NumLayers THEN layer' ELSE 0
    BY <1>1, <1>8, <2>1, Zenon
  <2>3. \A r \in Live' : shape'[r] \in Shapes
    BY <1>1, <1>7, Zenon DEF VegasInv, ControlInv
  <2>4. nreq' \in 0 .. MaxBatch /\ layer' \in 0 .. NumLayers
    BY <1>1, <1>3, Zenon DEF VegasInv, ControlInv
  <2> QED
    BY <1>1, <1>5, <1>8, <2>2, <2>3, <2>4, Zenon DEF ControlInv
<1>10. ScoredInv'
  BY <1>1, <1>5, <1>7, Zenon DEF ScoredInv
<1>11. WaitingInv'
  <2> SUFFICES ASSUME NEW r \in Live, NEW l \in Layers, pc' = "verify" => l < layer'
               PROVE  Selects(l, r)'
    BY <1>1, <1>5, <1>7, Zenon DEF WaitingInv
  <2>1. l < layer \/ l = layer
    BY <1>1, <1>3, <1>8, Zenon
  <2>2. CASE l = layer
    BY <1>1, <1>6, <2>2, Zenon DEF Selects
  <2>3. CASE l < layer /\ l # layer
    <3>1. Selects(l, r)
      BY <1>1, <1>3, <2>3, Zenon DEF VegasInv, WaitingInv, Waiting
    <3>2. chosen'[l][r] = chosen[l][r] /\ table'[l][r] = table[l][r]
      BY <1>6, <2>3, Zenon
    <3> QED
      BY <1>1, <3>1, <3>2, Zenon DEF Selects
  <2> QED
    BY <2>1, <2>2, <2>3, Zenon
<1> QED
  BY <1>8, <1>9, <1>10, <1>11, Zenon DEF VegasInv, DraftInv, SlotsInv

(* A replayed verify graph does the work of all layers. *)
LEMMA VerifyReplayInv ==
  ASSUME VegasInv, VerifyReplay
  PROVE  VegasInv'
<1>1. /\ pc = "verify" /\ layer = 0 /\ layer' = NumLayers /\ pc' = "sample"
      /\ nreq' = nreq /\ shape' = shape /\ curr_layer' = curr_layer
  BY Zenon DEF VerifyReplay
<1>2. PICK n \in nreq .. MaxBatch :
        /\ BeginVerify(n)
        /\ \E pick \in [Layers -> Selections(n)] : Selected(Layers, n, pick)
  BY Zenon DEF VerifyReplay
<1>3. \A r \in Live : valid'[r] = ValidLen(shape[r]) /\ budget'[r] = BudgetOf(shape[r])
  BY <1>2, BegunVerify, Zenon
<1>4. \A r \in Live : \A l \in Layers :
        PickOK(chosen'[l][r], shape[r]) /\ OrderedRow(table'[l][r], chosen'[l][r])
  <2>1. Layers \in SUBSET Layers
    BY Zenon
  <2>2. PICK pick \in [Layers -> Selections(n)] : Selected(Layers, n, pick)
    BY <1>2, Zenon
  <2> QED
    BY <1>1, <1>3, <2>1, <2>2, SelectedRows, Zenon
<1>5. Live' = Live
  BY <1>1, Zenon DEF Live
<1>6. curr_layer = 0
  BY <1>1, Zenon DEF VegasInv, ControlInv
<1>7. NumLayers \in 0 .. NumLayers
  BY SizeAssumption, SMT
<1>8. ControlInv'
  BY <1>1, <1>5, <1>6, <1>7, Zenon DEF VegasInv, ControlInv
<1>9. WaitingInv'
  BY <1>1, <1>3, <1>4, <1>5, Zenon DEF WaitingInv, Selects
<1> QED
  BY <1>1, <1>3, <1>5, <1>8, <1>9, Zenon DEF VegasInv, ScoredInv, DraftInv, SlotsInv

(* Entering a propose rolls every row back and resets the flag. *)
LEMMA EnterProposeInv ==
  ASSUME VegasInv, EnterPropose
  PROVE  VegasInv'
<1>1. /\ pc = "sample" /\ pc' = "draft" /\ layer' = 0 /\ step' = 0 /\ ~metadata_initialized'
      /\ UNCHANGED <<nreq, shape, curr_layer, valid, budget, table, chosen>>
      /\ \A r \in Live : shape[r].k + NumSpec <= MaxModelLen
  BY Zenon DEF EnterPropose, InputFitsInDrafter, Live
<1>2. PICK rej \in [0 .. nreq - 1 -> 0 .. NumSpec] :
        /\ \A r \in 0 .. nreq - 1 : rej[r] \in Rejections(shape[r])
        /\ seqlens' = [r \in Rows |-> IF r < nreq THEN shape[r].k - rej[r] + 1 ELSE 0]
  BY Zenon DEF EnterPropose
<1>3. nreq' = nreq /\ shape' = shape /\ curr_layer' = curr_layer /\ Live' = Live
  BY <1>1, Zenon DEF Live
<1>4. /\ \A r \in Live : r \in Rows /\ r < nreq /\ shape[r] \in Shapes
      /\ curr_layer = 0 /\ nreq \in 0 .. MaxBatch
  BY <1>1, LiveRows, Zenon DEF VegasInv, ControlInv
<1>5. 0 \in 0 .. NumLayers /\ 0 \in 0 .. NumSpec - 1 /\ 0 < NumLayers /\ ~(0 > 0)
  BY SizeAssumption, SMT
<1>6. ASSUME NEW r \in Live PROVE seqlens'[r] \in Nat /\ StartOK(Base(r)', shape[r])
  <2>1. rej[r] \in Rejections(shape[r]) /\ seqlens'[r] = shape[r].k - rej[r] + 1
    BY <1>2, <1>4, Zenon DEF Live
  <2>2. StartOK(shape[r].k - rej[r], shape[r])
    BY <1>1, <1>4, <2>1, ShapeFacts, Zenon
  <2>3. shape[r].k - rej[r] \in Nat
    BY <2>2, Zenon DEF StartOK
  <2>4. ASSUME NEW x \in Nat PROVE x + 1 \in Nat /\ ((x + 1) - 0) - 1 = x
    BY SMT
  <2>5. seqlens'[r] \in Nat /\ Base(r)' = shape[r].k - rej[r]
    BY <1>1, <2>1, <2>3, <2>4, Zenon DEF Base
  <2> QED
    BY <2>2, <2>5, Zenon
<1>7. ControlInv'
  BY <1>1, <1>3, <1>4, <1>5, Zenon DEF ControlInv
<1>8. WaitingInv' /\ ScoredInv'
  BY <1>1, <1>3, Zenon DEF VegasInv, WaitingInv, Waiting, Selects, ScoredInv
<1>9. DraftInv'
  BY <1>1, <1>3, <1>5, <1>6, Zenon DEF DraftInv
<1> QED
  BY <1>1, <1>7, <1>8, <1>9, Zenon DEF VegasInv, SlotsInv

(* Nothing is claimed of an idle overrider but its counter. *)
LEMMA IdleInv ==
  ASSUME VegasInv, NoPropose \/ ExitPropose
  PROVE  VegasInv'
<1>1. /\ pc' = "idle" /\ UNCHANGED <<nreq, layer, curr_layer>>
      /\ pc = "sample" \/ (pc = "draft" /\ layer = NumLayers)
  BY Zenon DEF NoPropose, ExitPropose
<1>2. ~(NumLayers < NumLayers)
  BY SizeAssumption, SMT
<1>3. ControlInv'
  BY <1>1, <1>2, Zenon DEF VegasInv, ControlInv
<1> QED
  BY <1>1, <1>3, Zenon DEF VegasInv, ScoredInv, WaitingInv, Waiting, DraftInv, SlotsInv

(* What is known of a row in a draft. *)
LEMMA DraftRow ==
  ASSUME VegasInv, pc = "draft", NEW r \in Live
  PROVE  /\ r \in Rows /\ r < nreq /\ shape[r] \in Shapes /\ valid[r] = ValidLen(shape[r])
         /\ step \in Nat /\ seqlens[r] \in Nat /\ StartOK(Base(r), shape[r])
         /\ Base(r) \in Nat /\ seqlens[r] = Base(r) + (step + 1)
         /\ \A l \in Layers : PickOK(chosen[l][r], shape[r])
<1>1. r \in Rows /\ r < nreq /\ shape[r] \in Shapes /\ valid[r] = ValidLen(shape[r])
  BY LiveRows, Zenon DEF VegasInv, ControlInv, ScoredInv
<1>2. /\ step \in 0 .. NumSpec - 1 /\ seqlens[r] \in Nat /\ StartOK(Base(r), shape[r])
  BY Zenon DEF VegasInv, DraftInv
<1>3. step \in Nat /\ Base(r) \in Nat
  <2>1. step \in Nat
    BY <1>2, SizeAssumption, SMT
  <2> QED
    BY <1>2, <2>1, Zenon DEF StartOK
<1>4. seqlens[r] = Base(r) + (step + 1)
  <2>1. Base(r) = (seqlens[r] - step) - 1
    BY Zenon DEF Base
  <2> QED
    BY <1>2, <1>3, <2>1, SMT
<1>5. ASSUME NEW l \in Layers PROVE PickOK(chosen[l][r], shape[r])
  <2>1. CASE metadata_initialized
    BY <2>1, Zenon DEF VegasInv, SlotsInv, Converted
  <2>2. CASE ~metadata_initialized
    BY <2>2, Zenon DEF VegasInv, WaitingInv, Waiting, Selects
  <2> QED
    BY <2>1, <2>2, Zenon
<1> QED
  BY <1>1, <1>2, <1>3, <1>4, <1>5, Zenon

(* The first layer of a draft step converts the rows or counts one more key; *)
(* the later layers find the rows as it left them.                           *)
LEMMA DraftLayerInv ==
  ASSUME VegasInv, DraftLayer
  PROVE  VegasInv'
<1>1. /\ pc = "draft" /\ pc' = "draft" /\ layer < NumLayers /\ layer' = layer + 1
      /\ batch_size' = nreq /\ curr_layer' = (curr_layer + 1) % NumLayers
      /\ nreq' = nreq /\ shape' = shape /\ step' = step /\ seqlens' = seqlens
      /\ valid' = valid /\ chosen' = chosen
  BY Zenon DEF DraftLayer, DraftBatch
<1>2. /\ layer \in Nat /\ layer \in 0 .. NumLayers - 1 /\ curr_layer = layer
      /\ layer + 1 \in 0 .. NumLayers /\ layer + 1 > 0
      /\ (layer # 0 <=> layer > 0)
  <2>1. layer \in Nat /\ curr_layer = layer
    BY <1>1, LiveRows, Zenon DEF VegasInv, ControlInv
  <2> QED
    BY <1>1, <2>1, SizeAssumption, SMT
<1>3. /\ step \in 0 .. NumSpec - 1 /\ step \in Nat
      /\ metadata_initialized <=> (step > 0 \/ layer > 0)
  <2>1. step \in 0 .. NumSpec - 1 /\ (metadata_initialized <=> (step > 0 \/ layer > 0))
    BY <1>1, Zenon DEF VegasInv, DraftInv
  <2>2. step \in Nat
    BY <2>1, SizeAssumption, SMT
  <2> QED
    BY <2>1, <2>2, Zenon
<1>4. Live' = Live /\ \A r : Base(r)' = Base(r)
  BY <1>1, Zenon DEF Live, Base
<1>5. Begun' = step + 1
  BY <1>1, <1>2, Zenon DEF Begun
<1>6. ControlInv'
  <2>1. curr_layer' = IF layer + 1 < NumLayers THEN layer + 1 ELSE 0
    BY <1>1, <1>2, LayerCounted, Zenon
  <2> QED
    BY <1>1, <1>2, <1>4, <2>1, Zenon DEF VegasInv, ControlInv
<1>7. ScoredInv'
  BY <1>1, <1>4, Zenon DEF VegasInv, ScoredInv
<1>8. /\ metadata_initialized'
      /\ \A r \in Live :
           /\ budget'[r] = BudgetOf(shape[r]) + (Base(r) + (step + 1)) - ValidLen(shape[r])
           /\ \A l \in Layers : SlotsRow(table'[l][r], r, chosen[l][r], shape[r], Base(r))
  <2>1. CASE layer # 0
    <3>1. UNCHANGED <<metadata_initialized, table, budget>> /\ metadata_initialized
      BY <1>2, <1>3, <2>1, Zenon DEF DraftLayer
    <3>2. Begun = step + 1
      BY <1>2, <2>1, Zenon DEF Begun
    <3> QED
      BY <1>1, <3>1, <3>2, Zenon DEF VegasInv, SlotsInv, Converted
  <2>2. CASE layer = 0 /\ ~metadata_initialized
    <3>1. InitMetadata
      BY <1>2, <2>2, Zenon DEF DraftLayer
    <3>2. step = 0
      BY <1>3, <2>2, SMT
    <3>3. ASSUME NEW r \in Live
          PROVE  /\ budget'[r] = BudgetOf(shape[r]) + (Base(r) + (step + 1)) - ValidLen(shape[r])
                 /\ \A l \in Layers : SlotsRow(table'[l][r], r, chosen[l][r], shape[r], Base(r))
      <4>1. /\ r \in Rows /\ r < nreq /\ shape[r] \in Shapes /\ valid[r] = ValidLen(shape[r])
            /\ seqlens[r] \in Nat /\ StartOK(Base(r), shape[r])
            /\ Base(r) \in Nat /\ seqlens[r] = Base(r) + (step + 1)
        BY <1>1, DraftRow, Zenon
      <4>2. budget[r] = BudgetOf(shape[r]) /\ \A l \in Layers : Selects(l, r)
        BY <1>1, <2>2, Zenon DEF VegasInv, WaitingInv, Waiting
      <4>3. seqlens[r] - 1 + NumSpec = Base(r) + NumSpec
        BY <3>2, <4>1, SizeAssumption, SMT
      <4>4. budget'[r] = budget[r] + seqlens[r] - valid[r]
        BY <1>1, <3>1, <4>1, Zenon DEF InitMetadata
      <4>5. ASSUME NEW l \in Layers PROVE SlotsRow(table'[l][r], r, chosen[l][r], shape[r], Base(r))
        <5>1. table'[l][r] = ConvertedRow(table[l][r], r, seqlens[r] - 1 + NumSpec)
          BY <1>1, <3>1, <4>1, Zenon DEF InitMetadata
        <5>2. PickOK(chosen[l][r], shape[r]) /\ OrderedRow(table[l][r], chosen[l][r])
          BY <4>2, Zenon DEF Selects
        <5>3. SlotsRow(ConvertedRow(table[l][r], r, seqlens[r] - 1 + NumSpec), r, chosen[l][r],
                       shape[r], Base(r))
          BY <4>1, <4>2, <4>3, <5>2, ConvertedRowIs, Zenon
        <5> QED
          BY <5>1, <5>3, Zenon
      <4> QED
        BY <4>1, <4>2, <4>4, <4>5, Zenon
    <3> QED
      BY <3>1, <3>3, Zenon DEF InitMetadata
  <2>3. CASE layer = 0 /\ metadata_initialized
    <3>1. /\ budget' = [r \in Rows |-> IF r < nreq THEN budget[r] + 1 ELSE budget[r]]
          /\ metadata_initialized' = metadata_initialized /\ table' = table
      BY <1>1, <1>2, <2>3, Zenon DEF DraftLayer
    <3>2. Begun = step + 0
      BY <1>2, <2>3, Zenon DEF Begun
    <3>3. ASSUME NEW r \in Live
          PROVE  budget'[r] = BudgetOf(shape[r]) + (Base(r) + (step + 1)) - ValidLen(shape[r])
      <4>1. /\ r \in Rows /\ r < nreq /\ Base(r) \in Nat
            /\ BudgetOf(shape[r]) \in Nat /\ ValidLen(shape[r]) \in Nat
        BY <1>1, DraftRow, ShapeFacts, Zenon
      <4>2. budget[r] = BudgetOf(shape[r]) + (Base(r) + (step + 0)) - ValidLen(shape[r])
        BY <1>1, <2>3, <3>2, Zenon DEF VegasInv, SlotsInv
      <4>3. budget'[r] = budget[r] + 1
        BY <3>1, <4>1, Zenon
      <4> QED
        BY <1>3, <4>1, <4>2, <4>3, SMT
    <3> QED
      BY <1>1, <2>3, <3>1, <3>3, Zenon DEF VegasInv, SlotsInv, Converted
  <2> QED
    BY <2>1, <2>2, <2>3, Zenon
<1>9. DraftInv'
  BY <1>1, <1>2, <1>3, <1>4, <1>8, Zenon DEF VegasInv, DraftInv
<1>10. WaitingInv'
  BY <1>1, <1>8, Zenon DEF WaitingInv, Waiting
<1>11. SlotsInv'
  <2>1. \A r \in Live, l \in Layers : PickOK(chosen[l][r], shape[r])
    BY <1>1, DraftRow, Zenon
  <2> QED
    BY <1>1, <1>4, <1>5, <1>8, <2>1, Zenon DEF SlotsInv, Converted
<1> QED
  BY <1>6, <1>7, <1>9, <1>10, <1>11, Zenon DEF VegasInv

(* Between two draft steps every row grows by its drafted token. *)
LEMMA NextDraftStepInv ==
  ASSUME VegasInv, NextDraftStep
  PROVE  VegasInv'
<1>1. /\ pc = "draft" /\ pc' = "draft" /\ layer = NumLayers /\ step < NumSpec - 1
      /\ step' = step + 1 /\ layer' = 0
      /\ seqlens' = [r \in Rows |-> IF r < nreq THEN seqlens[r] + 1 ELSE 0]
      /\ UNCHANGED <<nreq, shape, curr_layer, metadata_initialized, valid, budget, table, chosen>>
  BY Zenon DEF NextDraftStep
<1>2. /\ nreq' = nreq /\ shape' = shape /\ curr_layer' = curr_layer /\ valid' = valid
      /\ metadata_initialized' = metadata_initialized /\ budget' = budget /\ table' = table
      /\ chosen' = chosen /\ Live' = Live
  BY <1>1, Zenon DEF Live
<1>3. /\ NumLayers > 0 /\ ~(NumLayers < NumLayers) /\ 0 \in 0 .. NumLayers /\ ~(0 > 0)
      /\ 0 < NumLayers
  BY SizeAssumption, SMT
<1>4. /\ step \in 0 .. NumSpec - 1 /\ metadata_initialized
  BY <1>1, <1>3, Zenon DEF VegasInv, DraftInv
<1>5. metadata_initialized'
  BY <1>2, <1>4, Zenon
<1>6. step \in Nat /\ step + 1 \in 0 .. NumSpec - 1 /\ step + 1 > 0
  BY <1>1, <1>4, SizeAssumption, SMT
<1>7. Begun = step + 1 /\ Begun' = (step + 1) + 0
  BY <1>1, <1>3, Zenon DEF Begun
<1>8. Begun' = Begun
  BY <1>6, <1>7, SMT
<1>9. ASSUME NEW r \in Live PROVE Base(r)' = Base(r) /\ seqlens'[r] \in Nat
  <2>1. r \in Rows /\ r < nreq /\ seqlens[r] \in Nat
    BY <1>1, DraftRow, Zenon
  <2>2. seqlens'[r] = seqlens[r] + 1
    BY <1>1, <2>1, Zenon
  <2>3. seqlens[r] + 1 \in Nat /\ ((seqlens[r] + 1) - (step + 1)) - 1 = (seqlens[r] - step) - 1
    BY <1>6, <2>1, SMT
  <2> QED
    BY <1>1, <2>2, <2>3, Zenon DEF Base
<1>10. ControlInv'
  BY <1>1, <1>2, <1>3, Zenon DEF VegasInv, ControlInv
<1>11. ScoredInv' /\ WaitingInv'
  BY <1>1, <1>2, <1>5, Zenon DEF VegasInv, ScoredInv, WaitingInv, Waiting
<1>12. DraftInv'
  BY <1>1, <1>2, <1>6, <1>9, <1>5, Zenon DEF VegasInv, DraftInv
<1>13. SlotsInv'
  BY <1>1, <1>2, <1>4, <1>8, <1>9, Zenon DEF VegasInv, SlotsInv, Converted
<1> QED
  BY <1>10, <1>11, <1>12, <1>13, Zenon DEF VegasInv

-----------------------------------------------------------------------------
(* The invariant holds in every state. *)
LEMMA VegasInvHolds == Spec => []VegasInv
<1>1. Init => VegasInv
  <2> SUFFICES ASSUME Init PROVE VegasInv
    OBVIOUS
  <2>1. pc = "idle" /\ nreq = 0 /\ layer = 0 /\ curr_layer = 0
    BY Zenon DEF Init
  <2>2. 0 \in 0 .. MaxBatch /\ 0 \in 0 .. NumLayers
    BY SizeAssumption, SMT
  <2> QED
    BY <2>1, <2>2, Zenon DEF VegasInv, ControlInv, ScoredInv, WaitingInv, Waiting, DraftInv, SlotsInv
<1>2. VegasInv /\ [Next]_vars => VegasInv'
  <2> SUFFICES ASSUME VegasInv, [Next]_vars PROVE VegasInv'
    OBVIOUS
  <2>1. CASE Next
    BY <2>1, StartVerifyInv, VerifyLayerInv, VerifyReplayInv, EnterProposeInv, IdleInv,
       DraftLayerInv, NextDraftStepInv, Zenon DEF Next
  <2>2. CASE UNCHANGED vars
    <3>1. UNCHANGED <<pc, nreq, shape, layer, step, seqlens, curr_layer, metadata_initialized,
                      batch_size, valid, budget, table, chosen>>
      BY <2>2, Zenon DEF vars, model
    <3>2. Live' = Live /\ Begun' = Begun /\ \A r : Base(r)' = Base(r)
      BY <3>1, Zenon DEF Live, Begun, Base
    <3>3. ControlInv' /\ ScoredInv'
      BY <3>1, <3>2, Zenon DEF VegasInv, ControlInv, ScoredInv
    <3>4. WaitingInv'
      BY <3>1, <3>2, Zenon DEF VegasInv, WaitingInv, Waiting, Selects
    <3>5. DraftInv'
      BY <3>1, <3>2, Zenon DEF VegasInv, DraftInv
    <3>6. SlotsInv'
      BY <3>1, <3>2, Zenon DEF VegasInv, SlotsInv, Converted
    <3> QED
      BY <3>3, <3>4, <3>5, <3>6, Zenon DEF VegasInv
  <2> QED
    BY <2>1, <2>2, Zenon
<1> QED
  BY <1>1, <1>2, PTL DEF Spec

(* Every layer of every draft step attends over the tokens this round's      *)
(* verify picked at that layer and over all that follow the scored prefix,   *)
(* each once, and index_to_slots stays inside the row of the page table:     *)
(* whatever was picked, rejected, padded or replayed before.                 *)
THEOREM VegasDraftsExactly == Spec => []VegasRowExact
<1>1. VegasInv => VegasRowExact
  <2> SUFFICES ASSUME VegasInv PROVE VegasRowExact
    OBVIOUS
  <2>1. ASSUME NEW l \in Layers, NEW r \in 0 .. nreq - 1, Attended(l)
        PROVE  RowReads(table[l][r], r, chosen[l][r], budget[r], valid[r], seqlens[r])
    <3>1. pc = "draft" /\ l < layer /\ r \in Live
      BY <2>1, Zenon DEF Attended, Live
    <3>2. /\ r \in Rows /\ shape[r] \in Shapes /\ valid[r] = ValidLen(shape[r])
          /\ seqlens[r] \in Nat /\ StartOK(Base(r), shape[r]) /\ step \in Nat
          /\ Base(r) \in Nat /\ seqlens[r] = Base(r) + (step + 1)
      BY <3>1, DraftRow, Zenon
    <3>3. layer > 0
      <4>1. layer \in Nat /\ l \in Nat
        BY LiveRows, Zenon DEF VegasInv
      <4> QED
        BY <3>1, <4>1, SMT
    <3>4. step \in 0 .. NumSpec - 1 /\ metadata_initialized
      BY <3>1, <3>3, Zenon DEF VegasInv, DraftInv
    <3>5. /\ budget[r] = BudgetOf(shape[r]) + (Base(r) + (step + 1)) - ValidLen(shape[r])
          /\ PickOK(chosen[l][r], shape[r])
          /\ SlotsRow(table[l][r], r, chosen[l][r], shape[r], Base(r))
      BY <3>1, <3>3, <3>4, Zenon DEF VegasInv, SlotsInv, Converted, Begun
    <3>6. seqlens[r] \in Base(r) + 1 .. Base(r) + NumSpec
      BY <3>2, <3>4, SizeAssumption, SMT
    <3>7. budget[r] = BudgetOf(shape[r]) + seqlens[r] - ValidLen(shape[r])
      BY <3>2, <3>5, Zenon
    <3> QED
      BY <3>2, <3>5, <3>6, <3>7, SlotsRowReads, Zenon
  <2>2. VegasReadsSelection /\ VegasReadsOnce
    BY <2>1, Zenon DEF VegasReadsSelection, VegasReadsOnce, RowReads
  <2>3. VegasFitsRow
    <3> SUFFICES ASSUME pc = "draft", NEW l \in Layers, NEW r \in 0 .. nreq - 1
                 PROVE  Cardinality(chosen[l][r]) + (seqlens[r] - step - 1 + NumSpec) - valid[r]
                          <= Width
      BY Zenon DEF VegasFitsRow
    <3>1. /\ shape[r] \in Shapes /\ valid[r] = ValidLen(shape[r])
          /\ StartOK(Base(r), shape[r]) /\ PickOK(chosen[l][r], shape[r])
      BY DraftRow, Zenon DEF Live
    <3>2. Cardinality(chosen[l][r]) = BudgetOf(shape[r]) /\ Base(r) = (seqlens[r] - step) - 1
      BY <3>1, Zenon DEF PickOK, Base
    <3>3. ASSUME NEW c \in Nat, NEW b \in Nat, NEW v \in Nat, c <= MaxTokens, MaxTokens \in Nat,
                 b <= v + NumSpec
          PROVE  c + (b + NumSpec) - v <= Width
      BY <3>3, SizeAssumption, SMT DEF Width
    <3>4. BudgetOf(shape[r]) + (Base(r) + NumSpec) - ValidLen(shape[r]) <= Width
      BY <3>1, <3>3, ShapeFacts, Zenon DEF StartOK
    <3> QED
      BY <3>1, <3>2, <3>4, Zenon
  <2> QED
    BY <2>2, <2>3, Zenon DEF VegasRowExact
<1> QED
  BY <1>1, VegasInvHolds, PTL

-----------------------------------------------------------------------------
(* StreamingLLM *)

CONSTANT Starts
VARIABLE positions
Stream == INSTANCE StreamingLLMOverrider

(* The table has room for the sink block and one more.  With one column the  *)
(* window would be empty, and the shortened length no longer that of the     *)
(* sink block.                                                               *)
Windowed ==
  /\ BlockSize \in Nat \ {0} /\ RatioNum # 0 /\ Starts \subseteq Nat
  /\ Stream!MaxBlocks >= 2

(* Quotient and remainder. *)
LEMMA DivMod ==
  ASSUME NEW B \in Nat \ {0}, NEW a \in Nat
  PROVE  /\ a \div B \in Nat /\ a % B \in 0 .. B - 1
         /\ a = (a \div B) * B + (a % B)
BY SMT

(* Multiples are a block apart. *)
LEMMA MulOrder ==
  ASSUME NEW B \in Nat \ {0}, NEW x \in Nat, NEW y \in Nat, x < y
  PROVE  x * B + B <= y * B /\ x * B \in Nat /\ y * B \in Nat
BY SMT

(* A position inside block q. *)
LEMMA DivUnique ==
  ASSUME NEW B \in Nat \ {0}, NEW q \in Nat, NEW m \in 0 .. B - 1
  PROVE  /\ (q * B + m) \div B = q
         /\ (q * B + m) % B = m
<1> DEFINE a == q * B + m
<1>1. a \in Nat /\ q * B \in Nat
  BY SMT
<1>2. a = q * B + m
  OBVIOUS
<1> HIDE DEF a
<1>3. /\ a \div B \in Nat /\ a % B \in 0 .. B - 1
      /\ a = (a \div B) * B + (a % B)
  BY <1>1, DivMod, Zenon
<1> DEFINE d == a \div B
           e == a % B
<1> HIDE DEF d, e
<1>4. d \in Nat /\ e \in 0 .. B - 1 /\ a = d * B + e
  BY <1>3, Zenon DEF d, e
<1>5. ~(d < q)
  <2> SUFFICES ASSUME d < q PROVE FALSE
    OBVIOUS
  <2>1. d * B + B <= q * B /\ d * B \in Nat /\ q * B \in Nat
    BY <1>4, MulOrder, Zenon
  <2> QED
    BY <1>2, <1>4, <2>1, SMT
<1>6. ~(q < d)
  <2> SUFFICES ASSUME q < d PROVE FALSE
    OBVIOUS
  <2>1. q * B + B <= d * B /\ d * B \in Nat /\ q * B \in Nat
    BY <1>4, MulOrder, Zenon
  <2> QED
    BY <1>2, <1>4, <2>1, SMT
<1>7. d = q
  BY <1>4, <1>5, <1>6, SMT
<1>8. e = m
  BY <1>1, <1>2, <1>4, <1>7, SMT
<1> QED
  BY <1>7, <1>8, Zenon DEF d, e, a

(* Moving a position by q blocks. *)
LEMMA DivShift ==
  ASSUME NEW B \in Nat \ {0}, NEW a \in Nat, NEW q \in Nat
  PROVE  /\ (a + q * B) \div B = (a \div B) + q
         /\ (a + q * B) % B = a % B
<1> DEFINE d == a \div B
           e == a % B
<1>1. d \in Nat /\ e \in 0 .. B - 1 /\ a = d * B + e
  BY DivMod, Zenon
<1> HIDE DEF d, e
<1>2. d + q \in Nat
  BY <1>1, SMT
<1>3. (d + q) * B + e = a + q * B
  BY <1>1, SMT
<1>4. ((d + q) * B + e) \div B = d + q /\ ((d + q) * B + e) % B = e
  BY <1>1, <1>2, DivUnique, Zenon
<1> QED
  BY <1>3, <1>4, Zenon DEF d, e

(* A position lies below block q exactly when its block does. *)
LEMMA DivBelow ==
  ASSUME NEW B \in Nat \ {0}, NEW a \in Nat, NEW q \in Nat
  PROVE  a \div B < q <=> a < q * B
<1> DEFINE d == a \div B
           e == a % B
<1>1. d \in Nat /\ e \in 0 .. B - 1 /\ a = d * B + e
  BY DivMod, Zenon
<1> HIDE DEF d, e
<1>2. ASSUME d < q PROVE a < q * B
  <2>1. d * B + B <= q * B /\ d * B \in Nat /\ q * B \in Nat
    BY <1>1, <1>2, MulOrder, Zenon
  <2> QED
    BY <1>1, <2>1, SMT
<1>3. ASSUME ~(d < q) PROVE ~(a < q * B)
  <2>1. CASE q < d
    <3>1. q * B + B <= d * B /\ d * B \in Nat /\ q * B \in Nat
      BY <1>1, <2>1, MulOrder, Zenon
    <3> QED
      BY <1>1, <3>1, SMT
  <2>2. CASE d = q
    <3>1. d * B \in Nat
      BY <1>1, SMT
    <3> QED
      BY <1>1, <2>2, <3>1, SMT
  <2> QED
    BY <1>1, <1>3, <2>1, <2>2, SMT
<1> QED
  BY <1>2, <1>3, Zenon DEF d

(* The parts of the window of a row whose newest token is at x: its last     *)
(* block, the first of its sliding blocks, and how many they are.            *)
LEMMA WindowBlocks ==
  ASSUME Windowed, NEW x \in Nat
  PROVE  /\ Stream!MaxBlocks \in Nat
         /\ Stream!LastBlock(x + 1) = x \div BlockSize /\ x \div BlockSize \in Nat
         /\ Stream!BudgetBlocks(x + 1) \in Nat
         /\ Stream!StartBlock(x + 1) \in Nat /\ Stream!StartBlock(x + 1) >= 1
         /\ \/ Stream!StartBlock(x + 1) <= x \div BlockSize
            \/ Stream!StartBlock(x + 1) = 1 /\ x \div BlockSize = 0
         /\ Stream!NumSliding(x + 1) = x \div BlockSize - Stream!StartBlock(x + 1) + 1
         /\ Stream!NumSliding(x + 1) \in Nat /\ Stream!NumSliding(x + 1) <= Stream!MaxBlocks - 1
         /\ \A b \in Nat \ {0} : b >= Stream!StartBlock(x + 1)
                                   <=> b > (x \div BlockSize) - Stream!BudgetBlocks(x + 1)
<1> DEFINE L == x \div BlockSize
           D == Stream!BudgetBlocks(x + 1)
           M == Stream!MaxBlocks
           S == Stream!StartBlock(x + 1)
<1>1. BlockSize \in Nat \ {0} /\ RatioNum \in Nat \ {0} /\ RatioDen \in Nat \ {0} /\ MinTokens \in Nat
      /\ MaxModelLen \in Nat
  BY SizeAssumption, Zenon DEF Windowed
<1>2. ASSUME NEW a \in Nat, NEW b \in Nat \ {0}
      PROVE  Stream!CeilDiv(a, b) \in Nat /\ (a > 0 => Stream!CeilDiv(a, b) >= 1)
  <2> DEFINE c == a + b - 1
  <2>1. c \in Nat /\ (a > 0 => ~(c < 1 * b)) /\ 1 \in Nat
    BY SMT
  <2> HIDE DEF c
  <2>2. c \div b \in Nat /\ (c \div b < 1 <=> c < 1 * b)
    BY <2>1, DivMod, DivBelow, Zenon
  <2>3. a > 0 => c \div b >= 1
    BY <2>1, <2>2, SMT
  <2> QED
    BY <2>2, <2>3, Zenon DEF Stream!CeilDiv, c
<1>3. M \in Nat /\ M >= 2
  <2>1. MaxModelLen * RatioNum \in Nat
    BY <1>1, SMT
  <2>2. Stream!CeilDiv(MaxModelLen * RatioNum, RatioDen) \in Nat
    BY <1>1, <1>2, <2>1, Zenon
  <2>3. Stream!Larger(Stream!CeilDiv(MaxModelLen * RatioNum, RatioDen), MinTokens) \in Nat
    BY <1>1, <2>2, Zenon DEF Stream!Larger
  <2>4. M \in Nat
    BY <1>1, <1>2, <2>3, Zenon DEF Stream!MaxBlocks
  <2> QED
    BY <2>4, Zenon DEF Windowed
<1>4. D \in Nat /\ D >= 1 /\ D <= M - 1
  <2>1. (x + 1) * RatioNum \in Nat /\ (x + 1) * RatioNum > 0 /\ RatioDen * BlockSize \in Nat \ {0}
    BY <1>1, SMT
  <2>2. /\ Stream!CeilDiv((x + 1) * RatioNum, RatioDen * BlockSize) \in Nat
        /\ Stream!CeilDiv((x + 1) * RatioNum, RatioDen * BlockSize) >= 1
    BY <1>2, <2>1, Zenon
  <2>3. Stream!CeilDiv(MinTokens, BlockSize) \in Nat
    BY <1>1, <1>2, Zenon
  <2>4. ASSUME NEW a \in Nat, a >= 1, NEW b \in Nat
        PROVE  LET d == Stream!Smaller(Stream!Larger(a, b), M - 1)
               IN  d \in Nat /\ d >= 1 /\ d <= M - 1
    <3> HIDE DEF M
    <3> QED
      BY <1>3, <2>4, SMT DEF Stream!Smaller, Stream!Larger
  <2> QED
    BY <2>2, <2>3, <2>4, Zenon DEF Stream!BudgetBlocks
<1>5. L \in Nat /\ Stream!LastBlock(x + 1) = L
  <2>1. (x + 1) - 1 = x
    BY SMT
  <2> QED
    BY <1>1, <2>1, DivMod, Zenon DEF Stream!LastBlock
<1>6. S = Stream!Larger(L - D + 1, 1)
  BY <1>5, Zenon DEF Stream!StartBlock
<1>7. Stream!NumSliding(x + 1) = Stream!Larger(L - S + 1, 0)
  BY <1>5, Zenon DEF Stream!NumSliding
<1> DEFINE N == Stream!NumSliding(x + 1)
<1> HIDE DEF L, D, M, S, N
<1>8. /\ S \in Nat /\ S >= 1 /\ (S <= L \/ (S = 1 /\ L = 0))
      /\ \A b \in Nat \ {0} : b >= S <=> b > L - D
  BY <1>4, <1>5, <1>6, SMT DEF Stream!Larger
<1>9. N = L - S + 1 /\ N \in Nat /\ N <= M - 1
  <2>1. N = Stream!Larger(L - S + 1, 0)
    BY <1>7, Zenon DEF N
  <2> QED
    BY <1>3, <1>4, <1>5, <1>6, <1>8, <2>1, SMT DEF Stream!Larger
<1> QED
  BY <1>3, <1>4, <1>5, <1>8, <1>9, Zenon DEF L, D, M, S, N

(* The row of the table that a draft step with newest token x works with,    *)
(* and the length it is cut to.                                              *)
RowHolds(row, r, x) ==
  /\ row[0] = BlockTable[r][0]
  /\ \A c \in 1 .. Stream!NumSliding(x + 1) :
       row[c] = BlockTable[r][Stream!StartBlock(x + 1) + (c - 1)]
Cut(x) == (x + 1) - (Stream!StartBlock(x + 1) - 1) * BlockSize

(* copy_blocks_kernel fills all the columns that the cut row reaches. *)
LEMMA CopiedRowHolds ==
  ASSUME Windowed, NEW x \in Nat, NEW r
  PROVE  RowHolds(Stream!CopiedRow(r, x + 1), r, x)
<1> DEFINE N == Stream!NumSliding(x + 1)
           M == Stream!MaxBlocks
<1>1. M \in Nat /\ M >= 2 /\ N \in Nat /\ N <= M - 1
  BY WindowBlocks, Zenon DEF Windowed
<1> HIDE DEF N, M
<1>2. 0 \in 0 .. M - 1 /\ \A c \in 1 .. N : c \in 0 .. M - 1 /\ c # 0 /\ c - 1 < N
  BY <1>1, SMT
<1>3. 0 \in Stream!Columns /\ \A c \in 1 .. N : c \in Stream!Columns
  BY <1>2, Zenon DEF Stream!Columns, M
<1>4. Stream!CopiedRow(r, x + 1)[0] = BlockTable[r][0]
  BY <1>3, Zenon DEF Stream!CopiedRow
<1>5. ASSUME NEW c \in 1 .. N
      PROVE  Stream!CopiedRow(r, x + 1)[c] = BlockTable[r][Stream!StartBlock(x + 1) + (c - 1)]
  BY <1>2, <1>3, Zenon DEF Stream!CopiedRow, N
<1> QED
  BY <1>4, <1>5, Zenon DEF RowHolds, N

(* The cut row stays inside the table. *)
LEMMA CutFits ==
  ASSUME Windowed, NEW x \in Nat
  PROVE  Cut(x) \in Nat /\ Cut(x) \in 1 .. Stream!MaxBlocks * BlockSize
<1> DEFINE L == x \div BlockSize
           S == Stream!StartBlock(x + 1)
           M == Stream!MaxBlocks
           N == Stream!NumSliding(x + 1)
           Q == (S - 1) * BlockSize
<1>1. /\ M \in Nat /\ L \in Nat /\ S \in Nat /\ S >= 1 /\ N = L - S + 1 /\ N \in Nat /\ N <= M - 1
  BY WindowBlocks, Zenon
<1>2. BlockSize \in Nat \ {0} /\ x % BlockSize \in 0 .. BlockSize - 1
      /\ x = L * BlockSize + (x % BlockSize)
  BY DivMod, Zenon DEF Windowed
<1> HIDE DEF L, S, M, N
<1>3. Q \in Nat /\ L * BlockSize = (N * BlockSize) + Q /\ N * BlockSize \in Nat
  BY <1>1, <1>2, SMT
<1>4. N * BlockSize + BlockSize <= M * BlockSize /\ M * BlockSize \in Nat
  <2>1. M \in Nat /\ N < M
    BY <1>1, SMT
  <2> QED
    BY <1>1, <1>2, <2>1, MulOrder, Zenon
<1>5. Cut(x) = (x + 1) - Q
  BY Zenon DEF Cut, S
<1> HIDE DEF Q
<1>6. Cut(x) \in Nat /\ Cut(x) \in 1 .. M * BlockSize
  BY <1>2, <1>3, <1>4, <1>5, SMT
<1> QED
  BY <1>6, Zenon DEF M

(* Key k of the cut row is the token at Position(x, k). *)
Position(x, k) == IF k < BlockSize THEN k ELSE k + (Stream!StartBlock(x + 1) - 1) * BlockSize

(* It is read from the block that holds it, and it belongs to the window. *)
LEMMA KeyPosition ==
  ASSUME Windowed, NEW x \in Nat, NEW k \in 0 .. Cut(x) - 1, NEW row, NEW r, RowHolds(row, r, x)
  PROVE  /\ Position(x, k) \in Stream!Window(x)
         /\ row[k \div BlockSize] * BlockSize + (k % BlockSize) = Stream!Slot(r, Position(x, k))
<1> DEFINE B == BlockSize
           L == x \div B
           S == Stream!StartBlock(x + 1)
           N == Stream!NumSliding(x + 1)
           Q == (S - 1) * B
<1>1. /\ L \in Nat /\ S \in Nat /\ S >= 1 /\ N = L - S + 1 /\ N \in Nat /\ S - 1 \in Nat
      /\ \A b \in Nat \ {0} : b >= S <=> b > L - Stream!BudgetBlocks(x + 1)
  <2>1. S \in Nat /\ S >= 1
    BY WindowBlocks, Zenon
  <2>2. S - 1 \in Nat
    <3> HIDE DEF S
    <3> QED
      BY <2>1, SMT
  <2> QED
    BY <2>1, <2>2, WindowBlocks, Zenon
<1>2. B \in Nat \ {0} /\ Q \in Nat /\ Cut(x) \in Nat /\ Cut(x) = (x + 1) - Q
  <2>1. B \in Nat \ {0} /\ Cut(x) \in Nat /\ Cut(x) = (x + 1) - Q
    BY CutFits, Zenon DEF Windowed, Cut
  <2>2. Q \in Nat
    <3> HIDE DEF S, B
    <3> QED
      BY <1>1, <2>1, SMT
  <2> QED
    BY <2>1, <2>2, Zenon
<1>3. k \in Nat /\ k < Cut(x)
  BY <1>2, SMT
<1>4. CASE k < B
  <2>1. k \in 0 .. x /\ k < 1 * B /\ 1 \in Nat
    <3> HIDE DEF Q, B
    <3> QED
      BY <1>2, <1>3, <1>4, SMT
  <2>2. k \div B = 0
    <3>1. k \div B < 1 /\ k \div B \in Nat
      BY <1>2, <1>3, <2>1, DivBelow, DivMod, Zenon
    <3> QED
      BY <3>1, SMT
  <2>3. Position(x, k) = k
    BY <1>4, Zenon DEF Position
  <2>4. row[k \div B] = BlockTable[r][k \div B]
    BY <2>2, Zenon DEF RowHolds
  <2> QED
    BY <1>4, <2>1, <2>3, <2>4, Zenon DEF Stream!Window, Stream!Slot
<1>5. CASE ~(k < B)
  <2> DEFINE c == k \div B
             p == k + Q
  <2>1. Position(x, k) = p
    BY <1>5, Zenon DEF Position
  <2>2. c \in Nat /\ p \div B = c + (S - 1) /\ p % B = k % B
    <3>1. c \in Nat
      BY <1>2, <1>3, DivMod, Zenon
    <3>2. (k + (S - 1) * B) \div B = (k \div B) + (S - 1) /\ (k + (S - 1) * B) % B = k % B
      <4> HIDE DEF S, B
      <4> QED
        BY <1>1, <1>2, <1>3, DivShift, Zenon
    <3> QED
      BY <3>1, <3>2, Zenon
  <2>3. c >= 1
    <3>1. ~(k < 1 * B) /\ 1 \in Nat
      <4> HIDE DEF B
      <4> QED
        BY <1>2, <1>3, <1>5, SMT
    <3>2. ~(c < 1)
      BY <1>2, <1>3, <3>1, DivBelow, Zenon
    <3> HIDE DEF c
    <3> QED
      BY <2>2, <3>2, SMT
  <2>4. p \in 0 .. x /\ p \in Nat
    <3> HIDE DEF Q, B
    <3> QED
      BY <1>2, <1>3, SMT
  <2>5. p \div B < L + 1
    <3>1. x < (L + 1) * B /\ L + 1 \in Nat
      <4>1. x \div B < L + 1 /\ L + 1 \in Nat
        BY <1>1, SMT
      <4> QED
        BY <1>2, <4>1, DivBelow, Zenon
    <3>2. (L + 1) * B \in Nat
      <4> HIDE DEF L, B
      <4> QED
        BY <1>2, <3>1, SMT
    <3>3. p < (L + 1) * B
      <4> HIDE DEF p, L, B
      <4> QED
        BY <2>4, <3>1, <3>2, SMT
    <3> QED
      BY <1>2, <2>4, <3>1, <3>3, DivBelow, Zenon
  <2>6. /\ c \in 1 .. N /\ c + (S - 1) = S + (c - 1) /\ p \div B \in Nat \ {0} /\ p \div B >= S
    <3> HIDE DEF c, S, N, L, p
    <3> QED
      BY <1>1, <2>2, <2>3, <2>5, SMT
  <2>7. row[c] = BlockTable[r][p \div B]
    <3>1. row[c] = BlockTable[r][S + (c - 1)]
      BY <2>6, Zenon DEF RowHolds
    <3> QED
      BY <2>2, <2>6, <3>1, Zenon
  <2>8. p \in Stream!Window(x)
    BY <1>1, <2>4, <2>6, Zenon DEF Stream!Window
  <2>9. Stream!Slot(r, p) = BlockTable[r][p \div B] * B + (p % B)
    BY Zenon DEF Stream!Slot
  <2> QED
    BY <2>1, <2>2, <2>7, <2>8, <2>9, Zenon
<1> QED
  BY <1>4, <1>5, Zenon

(* No two keys are the same token. *)
LEMMA KeysDiffer ==
  ASSUME Windowed, NEW x \in Nat, NEW j \in 0 .. Cut(x) - 1, NEW k \in 0 .. Cut(x) - 1,
         Position(x, j) = Position(x, k)
  PROVE  j = k
<1> DEFINE Q == (Stream!StartBlock(x + 1) - 1) * BlockSize
<1>1. Q \in Nat /\ BlockSize \in Nat \ {0} /\ Cut(x) \in Nat
  <2>1. Stream!StartBlock(x + 1) \in Nat /\ Stream!StartBlock(x + 1) >= 1
    BY WindowBlocks, Zenon
  <2>2. BlockSize \in Nat \ {0} /\ Cut(x) \in Nat
    BY CutFits, Zenon DEF Windowed
  <2> QED
    BY <2>1, <2>2, SMT
<1>2. /\ Position(x, j) = IF j < BlockSize THEN j ELSE j + Q
      /\ Position(x, k) = IF k < BlockSize THEN k ELSE k + Q
  BY Zenon DEF Position
<1> HIDE DEF Q
<1>3. ASSUME NEW a \in Nat, NEW b \in Nat
      PROVE  a + Q = b + Q => a = b
  BY <1>1, SMT
<1>4. ASSUME NEW a \in Nat, NEW b \in Nat, a < BlockSize, ~(b < BlockSize)
      PROVE  a # b + Q
  BY <1>1, <1>4, SMT
<1>5. j \in Nat /\ k \in Nat
  BY <1>1, SMT
<1> QED
  BY <1>2, <1>3, <1>4, <1>5, Zenon

(* Every token of the window is one of them. *)
LEMMA WindowIsRead ==
  ASSUME Windowed, NEW x \in Nat, NEW p \in Stream!Window(x)
  PROVE  \E k \in 0 .. Cut(x) - 1 : Position(x, k) = p
<1> DEFINE B == BlockSize
           L == x \div B
           S == Stream!StartBlock(x + 1)
           Q == (S - 1) * B
<1>1. /\ L \in Nat /\ S \in Nat /\ S >= 1 /\ (S <= L \/ (S = 1 /\ L = 0))
      /\ \A b \in Nat \ {0} : b >= S <=> b > L - Stream!BudgetBlocks(x + 1)
  BY WindowBlocks, Zenon
<1>2. /\ B \in Nat \ {0} /\ Cut(x) \in Nat /\ Cut(x) = (x + 1) - Q
      /\ x = L * B + (x % B) /\ x % B \in 0 .. B - 1
  BY CutFits, DivMod, Zenon DEF Windowed, Cut
<1>3. p \in Nat /\ p <= x /\ (p < B \/ p \div B > L - Stream!BudgetBlocks(x + 1))
  <2>1. p \in 0 .. x
    BY Zenon DEF Stream!Window
  <2>2. p \in Nat /\ p <= x
    BY <2>1, SMT
  <2> QED
    BY <2>2, Zenon DEF Stream!Window
<1>4. Q \in Nat /\ (S <= L => Q + B <= L * B) /\ (S = 1 => Q = 0) /\ L * B \in Nat
  <2>1. ASSUME NEW s \in Nat, s >= 1, NEW l \in Nat, NEW b \in Nat \ {0}
        PROVE  /\ (s - 1) * b \in Nat /\ l * b \in Nat /\ (s = 1 => (s - 1) * b = 0)
               /\ s <= l => (s - 1) * b + b <= l * b
    <3>1. s - 1 \in Nat /\ (s <= l => s - 1 < l) /\ (s = 1 => s - 1 = 0) /\ 0 * b = 0
      BY <2>1, SMT
    <3>2. (s - 1) * b \in Nat /\ l * b \in Nat
      BY <3>1, SMT
    <3> QED
      BY <3>1, <3>2, MulOrder, Zenon
  <2> QED
    BY <1>1, <1>2, <2>1, Zenon
<1>5. CASE p < B
  <2>1. p \in 0 .. Cut(x) - 1
    <3> HIDE DEF Q, S, L, B
    <3> QED
      BY <1>1, <1>2, <1>3, <1>4, <1>5, SMT
  <2> QED
    BY <1>5, <2>1, Zenon DEF Position
<1>6. CASE ~(p < B)
  <2>1. p \div B \in Nat \ {0}
    <3>1. p \div B \in Nat
      BY <1>2, <1>3, DivMod, Zenon
    <3>2. ~(p < 1 * B) /\ 1 \in Nat
      <4> HIDE DEF B
      <4> QED
        BY <1>2, <1>3, <1>6, SMT
    <3>3. ~(p \div B < 1)
      BY <1>2, <1>3, <3>2, DivBelow, Zenon
    <3> QED
      BY <3>1, <3>3, SMT
  <2>2. p \div B >= S
    BY <1>1, <1>3, <1>6, <2>1, Zenon
  <2>3. ~(p < S * B)
    <3>1. ~(p \div B < S)
      <4> HIDE DEF S
      <4> QED
        BY <1>1, <2>1, <2>2, SMT
    <3> QED
      BY <1>1, <1>2, <1>3, <3>1, DivBelow, Zenon
  <2>4. S * B = Q + B
    <3> HIDE DEF S, B
    <3> QED
      BY <1>1, <1>2, SMT
  <2>5. p - Q \in 0 .. Cut(x) - 1 /\ ~(p - Q < B) /\ (p - Q) + Q = p
    <3>1. ~(p < Q + B)
      BY <2>3, <2>4, Zenon
    <3> HIDE DEF Q, B
    <3> QED
      BY <1>2, <1>3, <1>4, <3>1, SMT
  <2>6. Position(x, p - Q) = p
    BY <2>5, Zenon DEF Position
  <2> QED
    BY <2>5, <2>6, Zenon
<1> QED
  BY <1>5, <1>6, Zenon

(* Layer 0 of a draft step cuts the rows; the later layers find them cut. *)
StreamInv ==
  /\ layer \in Nat /\ batch_size \in 0 .. MaxBatch
  /\ step < NumSpec => \A r \in Stream!Active :
       /\ positions[r] \in Nat
       /\ layer = 0 => seqlens[r] = positions[r] + 1
       /\ layer > 0 => seqlens[r] = Cut(positions[r]) /\ RowHolds(table[r], r, positions[r])

(* The rows of a batch are rows of the buffers. *)
LEMMA ActiveRows ==
  ASSUME NEW n \in 0 .. MaxBatch, NEW r \in 0 .. n - 1
  PROVE  r \in Stream!Rows /\ r < n
BY SizeAssumption, SMT DEF Stream!Rows

(* Every step preserves it. *)
LEMMA StreamStep ==
  ASSUME Windowed, StreamInv, [Stream!Next]_(Stream!vars)
  PROVE  StreamInv'
<1>1. CASE Stream!EnterPropose
  <2>1. layer' = 0 /\ step' = 0
    BY <1>1, Zenon DEF Stream!EnterPropose
  <2>2. PICK n \in 1 .. MaxBatch : \E start \in [0 .. n - 1 -> Starts] :
          /\ batch_size' = n
          /\ positions' = [r \in Stream!Rows |-> IF r < n THEN start[r] ELSE positions[r]]
          /\ seqlens' = [r \in Stream!Rows |-> IF r < n THEN start[r] + 1 ELSE 0]
    BY <1>1, Zenon DEF Stream!EnterPropose
  <2>3. PICK start \in [0 .. n - 1 -> Starts] :
          /\ batch_size' = n
          /\ positions' = [r \in Stream!Rows |-> IF r < n THEN start[r] ELSE positions[r]]
          /\ seqlens' = [r \in Stream!Rows |-> IF r < n THEN start[r] + 1 ELSE 0]
    BY <2>2, Zenon
  <2>4. n \in 0 .. MaxBatch /\ 0 \in Nat /\ ~(0 > 0)
    BY SizeAssumption, SMT
  <2>5. ASSUME NEW r \in 0 .. n - 1
        PROVE  positions'[r] \in Nat /\ seqlens'[r] = positions'[r] + 1
    <3>1. r \in Stream!Rows /\ r < n
      BY <2>4, ActiveRows, Zenon
    <3> QED
      BY <2>3, <3>1, Zenon DEF Windowed
  <2> QED
    BY <2>1, <2>3, <2>4, <2>5, Zenon DEF StreamInv, Stream!Active
<1>2. CASE Stream!DraftLayer
  <2>1. /\ step < NumSpec /\ layer' = layer + 1 /\ batch_size' = batch_size
        /\ step' = step /\ positions' = positions
    BY <1>2, Zenon DEF Stream!DraftLayer
  <2>2. layer + 1 \in Nat /\ layer + 1 > 0 /\ layer + 1 # 0 /\ (layer = 0 \/ layer > 0)
        /\ (layer = 0 => ~(layer > 0))
    BY SMT DEF StreamInv
  <2>3. Stream!Active' = Stream!Active
    BY <2>1, Zenon DEF Stream!Active
  <2>4. ASSUME NEW r \in Stream!Active
        PROVE  seqlens'[r] = Cut(positions[r]) /\ RowHolds(table'[r], r, positions[r])
    <3>1. CASE layer > 0
      <4>1. table' = table /\ seqlens' = seqlens
        BY <1>2, <3>1, Zenon DEF Stream!DraftLayer
      <4> QED
        BY <2>1, <3>1, <4>1, Zenon DEF StreamInv
    <3>2. CASE layer = 0
      <4>1. positions[r] \in Nat /\ seqlens[r] = positions[r] + 1 /\ r \in Stream!Rows
        BY <2>1, <3>2, ActiveRows, Zenon DEF StreamInv, Stream!Active
      <4>2. /\ table'[r] = Stream!CopiedRow(r, positions[r] + 1)
            /\ seqlens'[r] = (positions[r] + 1)
                               - (Stream!StartBlock(positions[r] + 1) - 1) * BlockSize
        BY <1>2, <2>2, <3>2, <4>1, Zenon DEF Stream!DraftLayer
      <4> QED
        BY <4>1, <4>2, CopiedRowHolds, Zenon DEF Cut
    <3> QED
      BY <2>2, <3>1, <3>2, Zenon
  <2> QED
    BY <2>1, <2>2, <2>3, <2>4, Zenon DEF StreamInv
<1>3. CASE Stream!NextDraftStep
  <2>1. /\ step < NumSpec /\ layer' = 0 /\ batch_size' = batch_size
    BY <1>3, Zenon DEF Stream!NextDraftStep
  <2>2. 0 \in Nat /\ ~(0 > 0) /\ ~(NumSpec < NumSpec)
    BY SizeAssumption, SMT
  <2>3. Stream!Active' = Stream!Active
    BY <2>1, Zenon DEF Stream!Active
  <2>4. ASSUME NEW r \in Stream!Active, step' < NumSpec
        PROVE  positions'[r] \in Nat /\ seqlens'[r] = positions'[r] + 1
    <3>1. r \in Stream!Rows /\ positions[r] \in Nat
      BY <2>1, ActiveRows, Zenon DEF StreamInv, Stream!Active
    <3>2. positions'[r] = positions[r] + 1 /\ seqlens'[r] = positions'[r] + 1
      BY <1>3, <2>2, <2>4, <3>1, Zenon DEF Stream!NextDraftStep
    <3>3. positions[r] + 1 \in Nat
      BY <3>1, SMT
    <3> QED
      BY <3>2, <3>3, Zenon
  <2> QED
    BY <2>1, <2>2, <2>3, <2>4, Zenon DEF StreamInv
<1>4. CASE UNCHANGED Stream!vars
  <2>1. UNCHANGED <<layer, batch_size, step, positions, seqlens, table>>
    BY <1>4, Zenon DEF Stream!vars
  <2> QED
    BY <2>1, Zenon DEF StreamInv, Stream!Active, RowHolds, Cut
<1> QED
  BY <1>1, <1>2, <1>3, <1>4, Zenon DEF Stream!Next

(* StreamingLLM drafts attend over the sink block and the budgeted window up *)
(* to the newest token, each token once, and never past the columns of the   *)
(* block table, for any batch, block size, ratio and number of layers.       *)
THEOREM StreamReadsWindow ==
  ASSUME Windowed
  PROVE  Stream!Spec => [](Stream!ReadsSinkAndWindow /\ Stream!FitsBlockTable)
<1>1. Stream!Init => StreamInv
  <2> SUFFICES ASSUME Stream!Init PROVE StreamInv
    OBVIOUS
  <2>1. layer = 0 /\ batch_size = 0 /\ step = NumSpec
    BY Zenon DEF Stream!Init
  <2>2. 0 \in Nat /\ 0 \in 0 .. MaxBatch /\ ~(NumSpec < NumSpec)
    BY SizeAssumption, SMT
  <2> QED
    BY <2>1, <2>2, Zenon DEF StreamInv
<1>2. StreamInv /\ [Stream!Next]_(Stream!vars) => StreamInv'
  BY StreamStep, Zenon
<1>3. ASSUME StreamInv, step < NumSpec, layer > 0, NEW r \in Stream!Active
      PROVE  /\ Stream!KeysRead(r) = Stream!WindowSlots(r)
             /\ Cardinality(Stream!Window(positions[r])) = seqlens[r]
             /\ seqlens[r] \in 1 .. Stream!MaxBlocks * BlockSize
  <2> DEFINE x == positions[r]
             u == Cut(x)
             W == Stream!Window(x)
             f == [k \in 0 .. u - 1 |-> Position(x, k)]
  <2>1. x \in Nat /\ seqlens[r] = u /\ RowHolds(table[r], r, x)
    BY <1>3, Zenon DEF StreamInv
  <2>2. u \in Nat /\ u \in 1 .. Stream!MaxBlocks * BlockSize
    BY <2>1, CutFits, Zenon
  <2> HIDE DEF x, u, W
  <2>3. \A k \in 0 .. u - 1 : Position(x, k) \in W /\ Stream!SlotAt(r, k) = Stream!Slot(r, Position(x, k))
    BY <2>1, KeyPosition, Zenon DEF u, W, Stream!SlotAt
  <2>4. \A p \in W : \E k \in 0 .. u - 1 : Position(x, k) = p
    BY <2>1, WindowIsRead, Zenon DEF u, W
  <2>5. \A j, k \in 0 .. u - 1 : Position(x, j) = Position(x, k) => j = k
    BY <2>1, KeysDiffer, Zenon DEF u
  <2>6. {Stream!SlotAt(r, k) : k \in 0 .. u - 1} = {Stream!Slot(r, p) : p \in W}
    <3>1. \A k \in 0 .. u - 1 : Stream!SlotAt(r, k) \in {Stream!Slot(r, p) : p \in W}
      BY <2>3, Zenon
    <3>2. ASSUME NEW p \in W PROVE Stream!Slot(r, p) \in {Stream!SlotAt(r, k) : k \in 0 .. u - 1}
      <4>1. PICK k \in 0 .. u - 1 : Position(x, k) = p
        BY <2>4, Zenon
      <4>2. Stream!Slot(r, p) = Stream!SlotAt(r, k)
        BY <2>3, <4>1, Zenon
      <4> QED
        BY <4>2, Zenon
    <3> QED
      BY <3>1, <3>2, Zenon
  <2>7. Cardinality(W) = u
    <3>1. f \in [0 .. u - 1 -> W] /\ \A k \in 0 .. u - 1 : f[k] = Position(x, k)
      BY <2>3, Zenon
    <3> HIDE DEF f
    <3>2. f \in Injection(0 .. u - 1, W)
      BY <2>5, <3>1, Zenon DEF Injection, IsInjective
    <3>3. ExistsBijection(0 .. u - 1, W)
      <4>1. \A p \in W : \E k \in 0 .. u - 1 : f[k] = p
        BY <2>4, <3>1, Zenon
      <4>2. f \in Surjection(0 .. u - 1, W)
        BY <3>1, <4>1, Zenon DEF Surjection
      <4> QED
        BY <3>2, <4>2, Zenon DEF ExistsBijection, Bijection
    <3>4. 0 \in Int /\ u - 1 \in Int
      BY <2>2, SMT
    <3>5. /\ IsFiniteSet(0 .. u - 1)
          /\ Cardinality(0 .. u - 1) = IF 0 > u - 1 THEN 0 ELSE (u - 1) - 0 + 1
      BY <3>4, FS_Interval, Zenon
    <3>6. Cardinality(0 .. u - 1) = u
      BY <2>2, <3>5, SMT
    <3> QED
      BY <3>3, <3>5, <3>6, FS_Bijection, Zenon
  <2> QED
    BY <2>1, <2>2, <2>6, <2>7, Zenon DEF W, x, Stream!KeysRead, Stream!WindowSlots
<1>4. StreamInv => Stream!ReadsSinkAndWindow
  <2>1. \A S : Stream!Cardinality(S) = Cardinality(S)
    BY Zenon DEF Stream!Cardinality, Cardinality, Stream!IsFiniteSet, IsFiniteSet
  <2> QED
    BY <1>3, <2>1, Zenon DEF Stream!ReadsSinkAndWindow
<1>5. StreamInv => Stream!FitsBlockTable
  BY <1>3, Zenon DEF Stream!FitsBlockTable
<1> QED
  BY <1>1, <1>2, <1>4, <1>5, PTL DEF Stream!Spec
=============================================================================

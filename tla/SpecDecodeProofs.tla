-------------------------- MODULE SpecDecodeProofs --------------------------
(***************************************************************************)
(* SpecDecodeStep keeps what counts as computed exact, keeps the drafter   *)
(* with the scheduler and implements AutoregressiveDecoding, for every     *)
(* number of requests and draft tokens, every target model and any drafts. *)
(*                                                                         *)
(* The invariant is DecodeInv.  A step is taken apart into the rows of its *)
(* batch: RowNext says what the new values of one request must be, and     *)
(* DiscardedRow (a prefill chunk) and SampledRow (a row that emits tokens) *)
(* show it of the two kinds of rows.                                       *)
(***************************************************************************)
EXTENDS SpecDecodeLemmas

-----------------------------------------------------------------------------
(* The invariant and the batches. *)

(* What the steps keep true of a request that goes on: it has a token without
   KV, what counts as computed is exact, the runner's count is the
   scheduler's, and the drafter is where the scheduler is. *)
Sound(r) ==
  /\ computed[r] < Len(text[r]) /\ num_tokens_no_spec[r] = Len(text[r])
  /\ \A p \in 1 .. computed[r] : kv[r][p] = text[r][p]
  /\ drafter[r] # Nowhere => /\ drafter[r].pos = computed[r]
                             /\ drafter[r].tok = text[r][computed[r] + 1]

DecodeInv ==
  /\ text \in [Reqs -> Seq(Vocab)] /\ TypeOK /\ AppendsFit
  /\ \A r \in Unfinished : Sound(r)

(* A batch is a row for each of some unfinished requests. *)
Batched(b, N) ==
  /\ DOMAIN b = 1 .. N
  /\ \A i \in 1 .. N : b[i].req \in Unfinished /\ b[i] \in RowsOf(b[i].req)
  /\ \A i, j \in 1 .. N : b[i].req = b[j].req => i = j

(* Every row that RowsOf makes for a request is a row of that request. *)
LEMMA RowsName ==
  ASSUME NEW r, NEW x \in RowsOf(r)
  PROVE  x.req = r
<1>1. CASE x \in [req : {r}, sched : 1 .. Len(text[r]) - computed[r], drafts : {<<>>}]
  BY <1>1, SMT
<1>2. CASE \E n : x \in [req : {r}, sched : {1 + n}, drafts : [1 .. n -> Vocab]]
  BY <1>2, SMT
<1> QED
  BY <1>1, <1>2, Zenon DEF RowsOf

(* Every batch the scheduler forms has numbered rows. *)
LEMMA BatchIsBatched ==
  ASSUME Setting, NEW b \in Batches
  PROVE  \E N \in Nat \ {0} : Batched(b, N)
<1>1. PICK order \in SetToAllKPermutations(Unfinished) \ {<<>>} :
        /\ b \in [DOMAIN order -> UNION {RowsOf(order[i]) : i \in DOMAIN order}]
        /\ \A i \in DOMAIN b : b[i].req = order[i]
  BY Zenon DEF Batches
<1>2. PICK S \in SUBSET Unfinished : order \in SetToSeqs(S)
  BY <1>1, Zenon DEF SetToAllKPermutations
<1> DEFINE N == Cardinality(S)
<1>3. N \in Nat
  <2>1. S \subseteq Reqs
    BY <1>2, Zenon DEF Unfinished
  <2>2. IsFiniteSet(S)
    BY <2>1, FS_Subset, Zenon DEF Setting
  <2> QED
    BY <2>2, FS_CardinalityType, Zenon
<1>4. order \in [1 .. N -> S] /\ \A i, j \in 1 .. N : i # j => order[i] # order[j]
  BY <1>2, Zenon DEF SetToSeqs
<1> HIDE DEF N
<1>5. N # 0
  <2>1. SUFFICES ASSUME N = 0 PROVE FALSE
    BY Zenon
  <2>2. order \in [1 .. 0 -> S]
    BY <1>4, <2>1, Zenon
  <2>3. order = <<>>
    BY <2>2, SMT
  <2> QED
    BY <1>1, <2>3, Zenon
<1>6. DOMAIN order = 1 .. N /\ DOMAIN b = 1 .. N
  BY <1>1, <1>4, Zenon
<1>7. ASSUME NEW i \in 1 .. N PROVE b[i].req = order[i] /\ b[i] \in RowsOf(order[i]) /\ order[i] \in Unfinished
  <2>1. b[i].req = order[i]
    BY <1>1, <1>6, Zenon
  <2>2. b[i] \in UNION {RowsOf(order[j]) : j \in DOMAIN order}
    BY <1>1, <1>6, Zenon
  <2>3. PICK j \in DOMAIN order : b[i] \in RowsOf(order[j])
    BY <2>2, Zenon
  <2>4. b[i].req = order[j]
    BY <2>3, RowsName, Zenon
  <2>5. order[i] \in Unfinished
    BY <1>2, <1>4, Zenon
  <2> QED
    BY <2>1, <2>3, <2>4, <2>5, Zenon
<1>8. Batched(b, N)
  BY <1>4, <1>6, <1>7, Zenon DEF Batched
<1> QED
  BY <1>3, <1>5, <1>8, Zenon

(* The lengths of row i: more tokens than drafts, within the request and its
   drafts, and exactly up to the end of the drafts where it has any. *)
RowFits(b, i) ==
  LET r == b[i].req
  IN  /\ b[i].drafts \in Seq(Vocab) /\ b[i].sched \in Nat /\ Len(b[i].drafts) < b[i].sched
      /\ computed[r] + b[i].sched <= Len(text[r]) + Len(b[i].drafts)
      /\ Len(b[i].drafts) # 0 =>
           /\ computed[r] + b[i].sched = Len(text[r]) + Len(b[i].drafts)
           /\ Len(text[r]) + Len(b[i].drafts) + 1 <= MaxModelLen

(* The scheduler's rows have these lengths. *)
LEMMA RowsFit ==
  ASSUME Setting, DecodeInv, NEW N \in Nat \ {0}, NEW b, Batched(b, N), NEW i \in 1 .. N
  PROVE  RowFits(b, i)
<1> DEFINE r == b[i].req
           L == Len(text[r])
           c == computed[r]
<1>1. r \in Unfinished /\ b[i] \in RowsOf(r)
  BY Zenon DEF Batched
<1>2. L \in Nat /\ c \in Nat
  <2>1. r \in Reqs
    BY <1>1, Zenon DEF Unfinished
  <2>2. text[r] \in Seq(Vocab) /\ c \in 0 .. MaxModelLen
    BY <2>1, Zenon DEF DecodeInv, TypeOK
  <2> HIDE DEF r
  <2> QED
    BY <2>2, SMT DEF Setting
<1>3. MaxModelLen \in Nat /\ NumSpec \in Nat
  BY Zenon DEF Setting
<1>4. CASE b[i] \in [req : {r}, sched : 1 .. L - c, drafts : {<<>>}]
  <2>1. b[i].drafts = <<>> /\ b[i].sched \in 1 .. L - c
    BY <1>4, Zenon
  <2>2. <<>> \in Seq(Vocab) /\ Len(<<>>) = 0
    BY EmptySeq, Zenon
  <2>3. ASSUME NEW x \in Nat, NEW y \in Nat, NEW z \in 1 .. x - y PROVE z \in Nat /\ 0 < z /\ y + z <= x + 0
    BY <2>3, SMT
  <2>4. b[i].sched \in Nat /\ 0 < b[i].sched /\ c + b[i].sched <= L + 0
    BY <1>2, <2>1, <2>3, Zenon
  <2> QED
    BY <2>1, <2>2, <2>4, Zenon DEF RowFits
<1>5. CASE /\ L - c = 1
           /\ \E n \in {m \in 1 .. NumSpec : 1 + m <= DraftRoom(r)} :
                b[i] \in [req : {r}, sched : {1 + n}, drafts : [1 .. n -> Vocab]]
  <2>1. PICK n \in 1 .. NumSpec : 1 + n <= DraftRoom(r) /\ b[i] \in [req : {r}, sched : {1 + n}, drafts : [1 .. n -> Vocab]]
    BY <1>5, Zenon
  <2>2. n \in Nat /\ n # 0
    BY <1>3, SMT
  <2>3. b[i].drafts \in [1 .. n -> Vocab] /\ b[i].sched = 1 + n
    BY <2>1, Zenon
  <2>4. b[i].drafts \in Seq(Vocab) /\ Len(b[i].drafts) = n
    BY <2>2, <2>3, SeqByLen, Zenon
  <2>5. 1 + n <= MaxModelLen - 1 - c
    BY <2>1, Zenon DEF DraftRoom
  <2>6. ASSUME NEW x \in Nat, NEW y \in Nat, x - y = 1, NEW z \in Nat, NEW w \in Nat, 1 + z <= w - 1 - y
        PROVE  1 + z \in Nat /\ z < 1 + z /\ y + (1 + z) <= x + z /\ y + (1 + z) = x + z /\ x + z + 1 <= w
    BY <2>6, SMT
  <2>7. /\ 1 + n \in Nat /\ n < 1 + n /\ c + (1 + n) <= L + n /\ c + (1 + n) = L + n
        /\ L + n + 1 <= MaxModelLen
    BY <1>2, <1>3, <1>5, <2>2, <2>5, <2>6, Zenon
  <2> QED
    BY <2>3, <2>4, <2>7, Zenon DEF RowFits
<1> QED
  <2>1. \/ b[i] \in [req : {r}, sched : 1 .. L - c, drafts : {<<>>}]
        \/ /\ L - c = 1
           /\ b[i] \in UNION {[req : {r}, sched : {1 + n}, drafts : [1 .. n -> Vocab]] :
                              n \in {m \in 1 .. NumSpec : 1 + m <= DraftRoom(r)}}
    BY <1>1, Zenon DEF RowsOf
  <2> QED
    BY <1>4, <1>5, <2>1, Zenon

(* The scheduled tokens of row i are entries of the text and its drafts. *)
LEMMA TokensOfRow ==
  ASSUME Setting, DecodeInv, NEW N \in Nat \ {0}, NEW b, Batched(b, N), NEW i \in 1 .. N
  PROVE  Cuts(Vocab, text[b[i].req] \o b[i].drafts, computed[b[i].req], b[i].sched, Tokens(b, i))
<1> DEFINE r == b[i].req
           s == text[r]
           d == b[i].drafts
           c == computed[r]
           l == b[i].sched
           sd == s \o d
<1>1. RowFits(b, i)
  BY RowsFit, Zenon
<1>2. r \in Reqs
  BY Zenon DEF Batched, Unfinished
<1>3. s \in Seq(Vocab) /\ d \in Seq(Vocab) /\ c \in 0 .. MaxModelLen /\ l \in Nat /\ c + l <= Len(s) + Len(d)
  BY <1>1, <1>2, Zenon DEF RowFits, DecodeInv, TypeOK
<1>4. Tokens(b, i) = SubSeq(sd, c + 1, c + l)
  BY Zenon DEF Tokens
<1> HIDE DEF s, d, c, l
<1>5. sd \in Seq(Vocab) /\ Len(sd) = Len(s) + Len(d)
  BY <1>3, SMT
<1>6. c \in Nat
  BY <1>3, SMT DEF Setting
<1> HIDE DEF sd
<1>7. \A j \in c + 1 .. c + l : sd[j] \in Vocab
  BY <1>3, <1>5, <1>6, SMT
<1>8. Cuts(Vocab, sd, c, l, SubSeq(sd, c + 1, c + l))
  BY <1>3, <1>6, <1>7, Cut, Zenon
<1> QED
  BY <1>4, <1>8, Zenon DEF sd, s, d, c, l

(* Every batch meets the assumptions of the index arithmetic. *)
LEMMA BatchIsPacked ==
  ASSUME Setting, DecodeInv, NEW N \in Nat \ {0}, NEW b, Batched(b, N)
  PROVE  Packed(b, N)
<1>1. ASSUME NEW i \in 1 .. N
      PROVE  /\ b[i].sched \in Nat /\ Len(b[i].drafts) \in Nat /\ Len(b[i].drafts) < b[i].sched
             /\ Tokens(b, i) \in Seq(Vocab) /\ Len(Tokens(b, i)) = b[i].sched
  <2>1. Cuts(Vocab, text[b[i].req] \o b[i].drafts, computed[b[i].req], b[i].sched, Tokens(b, i))
    BY TokensOfRow, Zenon
  <2>2. RowFits(b, i)
    BY RowsFit, Zenon
  <2>3. Len(b[i].drafts) \in Nat
    BY <2>2, LenProperties, Zenon DEF RowFits
  <2> QED
    BY <2>1, <2>2, <2>3, Zenon DEF Cuts, RowFits
<1> QED
  BY <1>1, Zenon DEF Packed, Batched

(* The row that is sampled is verified against its own request's tokens. *)
LEMMA RowFaces ==
  ASSUME Setting, DecodeInv, NEW N \in Nat \ {0}, NEW b, Batched(b, N), NEW i \in 1 .. N, ~Discarded(b, i)
  PROVE  Faces(SpecDecodeMetadata(b), i, text[b[i].req], b[i].drafts)
<1> DEFINE m == SpecDecodeMetadata(b)
           r == b[i].req
           s == text[r]
           d == b[i].drafts
           c == computed[r]
           l == b[i].sched
           n == Len(d)
<1>1. RowFits(b, i)
  BY RowsFit, Zenon
<1>2. Unpacks(b, m, i)
  BY BatchIsPacked, MetadataUnpacks, Zenon
<1>3. Cuts(Vocab, s \o d, c, l, Tokens(b, i)) /\ Tokens(b, i) = SubSeq(s \o d, c + 1, c + l)
  BY TokensOfRow, Zenon DEF Tokens
<1>4. r \in Unfinished /\ r \in Reqs
  BY Zenon DEF Batched, Unfinished
<1>5. s \in Seq(Vocab) /\ d \in Seq(Vocab) /\ c \in 0 .. MaxModelLen /\ l \in Nat /\ n < l /\ c + l <= Len(s) + n
  BY <1>1, <1>4, Zenon DEF RowFits, DecodeInv, TypeOK
<1>6. n # 0 => c + l = Len(s) + n
  BY <1>1, Zenon DEF RowFits
<1>7. ~(c + l < Len(s))
  BY Zenon DEF Discarded, SeqLen
<1>8. c < Len(s) /\ \A p \in 1 .. c : kv[r][p] = s[p]
  BY <1>4, Zenon DEF DecodeInv, Sound
<1>9. Len(s) \in Nat /\ n \in Nat /\ c \in Nat
  <2> HIDE DEF s, d, c
  <2> QED
    BY <1>5, SMT DEF Setting
<1>10. c + l = Len(s) + n /\ c \in 0 .. Len(s)
  <2> HIDE DEF s, n, c, l
  <2> QED
    BY <1>5, <1>6, <1>7, <1>8, <1>9, SMT
<1>11. /\ m.num_draft_tokens[i] = n
       /\ \A p \in 1 .. n : TargetOf(m, i, p) = Context(b, i, l - n - 1 + p) /\ DraftOf(m, i, p) = Tokens(b, i)[l - n + p]
       /\ m.bonus_logits[i] = Context(b, i, l)
  BY <1>2, Zenon DEF Unpacks
<1> HIDE DEF m
<1>12. ASSUME NEW q \in 0 .. n PROVE Context(b, i, Len(s) + q - c) = s \o SubSeq(d, 1, q)
  <2>1. Context(b, i, Len(s) + q - c) = SubSeq(kv[r], 1, c) \o SubSeq(SubSeq(s \o d, c + 1, c + l), 1, Len(s) + q - c)
    BY <1>3, Zenon DEF Context
  <2> DEFINE u == kv[r]
  <2>2. \A p \in 1 .. c : u[p] = s[p]
    BY <1>8, Zenon
  <2> HIDE DEF s, d, c, l, n, u
  <2>3. Len(s) + q - c <= l /\ c + l <= Len(s) + Len(d) /\ q \in 0 .. Len(d)
    BY <1>5, <1>9, <1>10, SMT DEF n
  <2>4. Splices(u, c, s, d, l, q)
    BY <1>5, <1>10, <2>2, <2>3, Splice, Zenon
  <2> QED
    BY <2>1, <2>4, Zenon DEF s, d, c, l, u, Splices
<1>13. ASSUME NEW p \in 1 .. n
       PROVE  DraftOf(m, i, p) = d[p] /\ TargetOf(m, i, p) = s \o SubSeq(d, 1, p - 1)
  <2> HIDE DEF s, d, c, l, n
  <2>1. p - 1 \in 0 .. n /\ Len(s) + (p - 1) - c = l - n - 1 + p
    BY <1>5, <1>9, <1>10, SMT
  <2>2. TargetOf(m, i, p) = s \o SubSeq(d, 1, p - 1)
    BY <1>11, <1>12, <2>1, Zenon
  <2>3. l - n + p \in 1 .. l /\ c + (l - n + p) = Len(s) + p
    BY <1>5, <1>9, <1>10, SMT
  <2>4. Tokens(b, i)[l - n + p] = (s \o d)[c + (l - n + p)]
    BY <1>3, <2>3, Zenon DEF Cuts
  <2>5. Joins(Vocab, s, d, s \o d)
    BY <1>5, Joined, Zenon
  <2>6. (s \o d)[Len(s) + p] = d[p]
    BY <2>5, Zenon DEF Joins, n
  <2> QED
    BY <1>11, <2>2, <2>3, <2>4, <2>6, Zenon
<1>14. m.bonus_logits[i] = s \o SubSeq(d, 1, n)
  <2>1. n \in 0 .. n /\ Len(s) + n - c = l
    <3> HIDE DEF s, c, l, n
    <3> QED
      BY <1>5, <1>9, <1>10, SMT
  <2> QED
    BY <1>11, <1>12, <2>1, Zenon
<1> QED
  BY <1>5, <1>11, <1>13, <1>14, Zenon DEF Faces, m

(* What the runner takes from row i: nothing of a prefill chunk, and else the
   verified row. *)
LEMMA RowVerified ==
  ASSUME Setting, DecodeInv, NEW N \in Nat \ {0}, NEW b, Batched(b, N), NEW i \in 1 .. N, ~Discarded(b, i),
         NEW outs \in sampled_token_ids(b, SpecDecodeMetadata(b))
  PROVE  Verified(b[i].req, text[b[i].req], b[i].drafts, Valid(outs[i]))
<1> DEFINE m == SpecDecodeMetadata(b)
           r == b[i].req
           s == text[r]
           d == b[i].drafts
           W == Max(Range(m.num_draft_tokens)) + 1
<1>1. Faces(m, i, s, d)
  BY RowFaces, Zenon
<1>2. m.num_draft_tokens \in [1 .. N -> Nat]
  BY BatchIsPacked, MetadataUnpacks, Zenon
<1>3. Max(Range(m.num_draft_tokens)) \in Nat /\ m.num_draft_tokens[i] <= Max(Range(m.num_draft_tokens))
  BY <1>2, WidestRow, Zenon
<1>4. DOMAIN b = 1 .. N /\ r \in Reqs
  BY Zenon DEF Batched, Unfinished
<1>5. PICK row \in IF r \in Greedy THEN rejection_greedy(m, i) ELSE rejection_random(m, i) :
        outs[i] = Padded(m, row)
  BY <1>4, Zenon DEF sampled_token_ids
<1>6. Verified(r, s, d, row)
  <2>1. CASE r \in Greedy
    BY <1>1, <1>5, <2>1, GreedyVerifies, Zenon
  <2>2. CASE r \notin Greedy
    BY <1>1, <1>4, <1>5, <2>2, RandomVerifies, Zenon
  <2> QED
    BY <2>1, <2>2, Zenon
<1>7. row \in Seq(Vocab) /\ Len(row) \in 1 .. Len(d) + 1 /\ m.num_draft_tokens[i] = Len(d) /\ d \in Seq(Vocab)
  BY <1>1, <1>6, Zenon DEF Verified, Faces
<1>8. W \in Nat /\ Len(row) <= W
  <2>1. ASSUME NEW x \in Nat, NEW y \in Nat, x <= y, NEW z \in 1 .. x + 1 PROVE y + 1 \in Nat /\ z <= y + 1
    BY <2>1, SMT
  <2>2. Len(d) \in Nat
    BY <1>7, LenProperties, Zenon
  <2> QED
    BY <1>3, <1>7, <2>1, <2>2, Zenon
<1>9. outs[i] = [x \in 1 .. W |-> IF x \in DOMAIN row THEN row[x] ELSE PLACEHOLDER_TOKEN_ID]
  BY <1>5, Zenon DEF Padded
<1> HIDE DEF W
<1>10. Valid(outs[i]) = row
  BY <1>7, <1>8, <1>9, ValidIsRow, Zenon
<1> QED
  BY <1>6, <1>10, Zenon

-----------------------------------------------------------------------------
(* What a step makes of one row. *)

(* The numbers of row i. *)
RowNumbers(b, i) ==
  LET r == b[i].req
      L == Len(text[r])
      n == Len(b[i].drafts)
      c == computed[r]
  IN  /\ L \in Nat /\ n \in Nat /\ c \in Nat /\ b[i].sched \in Nat
      /\ 0 < b[i].sched /\ c < L /\ num_tokens_no_spec[r] = L /\ L + n + 1 <= MaxModelLen
      /\ IF Discarded(b, i) THEN n = 0 /\ c + b[i].sched < L ELSE c + b[i].sched = L + n

(* They follow from what the scheduler makes and from the invariant. *)
LEMMA NumbersOfRow ==
  ASSUME Setting, DecodeInv, NEW N \in Nat \ {0}, NEW b, Batched(b, N), NEW i \in 1 .. N
  PROVE  RowNumbers(b, i)
<1> DEFINE r == b[i].req
           s == text[r]
           d == b[i].drafts
           c == computed[r]
           l == b[i].sched
           L == Len(s)
           n == Len(d)
<1>1. RowFits(b, i)
  BY RowsFit, Zenon
<1>2. r \in Unfinished /\ r \in Reqs
  BY Zenon DEF Batched, Unfinished
<1>3. s \in Seq(Vocab) /\ d \in Seq(Vocab) /\ c \in 0 .. MaxModelLen /\ l \in Nat /\ n < l /\ c + l <= L + n
  BY <1>1, <1>2, Zenon DEF RowFits, DecodeInv, TypeOK
<1>4. n # 0 => c + l = L + n /\ L + n + 1 <= MaxModelLen
  BY <1>1, Zenon DEF RowFits
<1>5. c < L /\ num_tokens_no_spec[r] = L
  BY <1>2, Zenon DEF DecodeInv, Sound
<1>6. ~(L >= MaxModelLen)
  BY <1>2, Zenon DEF Unfinished, Stopped
<1>7. Discarded(b, i) <=> c + l < L
  BY Zenon DEF Discarded, SeqLen
<1>8. MaxModelLen \in Nat
  BY Zenon DEF Setting
<1> HIDE DEF s, d, c, l
<1>9. L \in Nat /\ n \in Nat /\ c \in Nat
  BY <1>3, <1>8, SMT
<1> HIDE DEF L, n
<1>10. 0 < l /\ L + n + 1 <= MaxModelLen
  BY <1>3, <1>4, <1>6, <1>8, <1>9, SMT
<1>11. IF c + l < L THEN n = 0 /\ c + l < L ELSE c + l = L + n
  BY <1>3, <1>4, <1>9, SMT
<1> QED
  BY <1>3, <1>5, <1>7, <1>9, <1>10, <1>11, Zenon DEF RowNumbers, L, n, s, d, c, l

(* New values of a request that keep it sound, and that plain decoding allows. *)
RowNext(r, s1, c1, k1, f1, n1) ==
  /\ s1 \in Seq(Vocab) /\ Len(s1) \in 1 .. MaxModelLen /\ c1 \in 0 .. MaxModelLen
  /\ k1 \in [1 .. MaxModelLen -> Vocab \cup {Rough, Unwritten}]
  /\ f1 \in [pos : -1 .. MaxModelLen, tok : Vocab \cup {-1}]
  /\ n1 \in Nat /\ n1 <= MaxModelLen
  /\ s1 = text[r] \/ Contract!Decodes(r, text[r], s1)
  /\ ~Stopped(r, s1) =>
       /\ c1 < Len(s1) /\ n1 = Len(s1) /\ \A p \in 1 .. c1 : k1[p] = s1[p]
       /\ f1 # Nowhere => f1.pos = c1 /\ f1.tok = s1[c1 + 1]

(* What the drafter is told of row i. *)
Drafted(b, i, out) ==
  IF ~InputFitsInDrafter(b) THEN Nowhere
  ELSE [pos |-> SeqLen(b, i) - num_rejected_tokens(b, i, out), tok |-> next_token_id(b, i, out)]

(* The drafter, if it goes on, goes on at c1 with x. *)
GoesOn(f, c1, x) ==
  /\ f \in [pos : -1 .. MaxModelLen, tok : Vocab \cup {-1}]
  /\ f # Nowhere => f.pos = c1 /\ f.tok = x

(* The drafter's place is a place and a token. *)
LEMMA DraftedTyped ==
  ASSUME Setting, NEW b, NEW i, NEW out, NEW c1 \in 0 .. MaxModelLen, NEW x \in Vocab,
         SeqLen(b, i) - num_rejected_tokens(b, i, out) = c1, next_token_id(b, i, out) = x
  PROVE  GoesOn(Drafted(b, i, out), c1, x)
<1>1. c1 \in -1 .. MaxModelLen /\ -1 \in -1 .. MaxModelLen
  BY SMT DEF Setting
<1>2. CASE ~InputFitsInDrafter(b)
  <2>1. Drafted(b, i, out) = Nowhere
    BY <1>2, Zenon DEF Drafted
  <2>2. Nowhere \in [pos : -1 .. MaxModelLen, tok : Vocab \cup {-1}]
    BY <1>1, SMT DEF Nowhere, PLACEHOLDER_TOKEN_ID
  <2> QED
    BY <2>1, <2>2, Zenon DEF GoesOn
<1>3. CASE InputFitsInDrafter(b)
  <2>1. Drafted(b, i, out) = [pos |-> c1, tok |-> x]
    BY <1>3, Zenon DEF Drafted
  <2>2. [pos |-> c1, tok |-> x] \in [pos : -1 .. MaxModelLen, tok : Vocab \cup {-1}]
    BY <1>1, SMT
  <2>3. [pos |-> c1, tok |-> x].pos = c1 /\ [pos |-> c1, tok |-> x].tok = x
    BY Zenon
  <2> DEFINE f == [pos |-> c1, tok |-> x]
  <2>4. f \in [pos : -1 .. MaxModelLen, tok : Vocab \cup {-1}] /\ f.pos = c1 /\ f.tok = x
    BY <2>2, <2>3, Zenon
  <2>5. Drafted(b, i, out) = f
    BY <2>1, Zenon
  <2> HIDE DEF f
  <2>6. GoesOn(f, c1, x)
    BY <2>4, Zenon DEF GoesOn
  <2> QED
    BY <2>5, <2>6, Zenon
<1> QED
  BY <1>2, <1>3, Zenon

(* The KV of row i is as the verify pass wrote it, up to c1 entries. *)
WritesTo(b, i, out, c1) ==
  /\ Written(b, i, out) \in [1 .. MaxModelLen -> Vocab \cup {Rough, Unwritten}]
  /\ \A p \in 1 .. c1 : Written(b, i, out)[p] = (text[b[i].req] \o b[i].drafts)[p]

(* The KV entries of row i after the step: up to where the drafter goes on
   they are the text and the drafts. *)
LEMMA WrittenIs ==
  ASSUME Setting, DecodeInv, NEW N \in Nat \ {0}, NEW b, Batched(b, N), NEW i \in 1 .. N, NEW out,
         NEW c1 \in Nat, SeqLen(b, i) - num_rejected_tokens(b, i, out) = c1, c1 <= SeqLen(b, i), c1 <= MaxModelLen
  PROVE  WritesTo(b, i, out, c1)
<1> DEFINE r == b[i].req
           s == text[r]
           d == b[i].drafts
           c == computed[r]
           l == b[i].sched
           sd == s \o d
           tok == Tokens(b, i)
           new == Written(b, i, out)
<1>1. RowNumbers(b, i)
  BY NumbersOfRow, Zenon
<1>2. Cuts(Vocab, sd, c, l, tok)
  BY TokensOfRow, Zenon
<1>3. r \in Unfinished /\ r \in Reqs
  BY Zenon DEF Batched, Unfinished
<1>4. /\ c \in Nat /\ l \in Nat /\ Len(s) \in Nat /\ c < Len(s) /\ s \in Seq(Vocab)
      /\ kv[r] \in [1 .. MaxModelLen -> Vocab \cup {Rough, Unwritten}] /\ \A p \in 1 .. c : kv[r][p] = s[p]
  BY <1>1, <1>3, Zenon DEF RowNumbers, DecodeInv, TypeOK, Sound
<1>5. d \in Seq(Vocab)
  <2>1. RowFits(b, i)
    BY RowsFit, Zenon
  <2> QED
    BY <2>1, Zenon DEF RowFits
<1>6. MaxModelLen \in Nat /\ NumSpec \in Nat
  BY Zenon DEF Setting
<1>7. new = [p \in 1 .. MaxModelLen |->
               IF InputFitsInDrafter(b) /\ p \in c1 + 1 .. c1 + NumSpec THEN Rough
               ELSE IF p \in c + 1 .. c + l THEN tok[p - c] ELSE kv[r][p]]
  BY Zenon DEF Written, SeqLen
<1>8. c1 <= c + l
  BY Zenon DEF SeqLen
<1> HIDE DEF new
<1>9. ASSUME NEW p \in c + 1 .. c + l PROVE tok[p - c] = sd[p] /\ tok[p - c] \in Vocab
  <2>1. p - c \in 1 .. l /\ c + (p - c) = p
    <3> HIDE DEF c, l
    <3> QED
      BY <1>4, SMT
  <2>2. tok \in Seq(Vocab) /\ Len(tok) = l /\ tok[p - c] = sd[c + (p - c)]
    BY <1>2, <2>1, Zenon DEF Cuts
  <2>3. tok[p - c] \in Vocab
    BY <2>1, <2>2, ElementOfSeq, Zenon
  <2> QED
    BY <2>1, <2>2, <2>3, Zenon
<1>10. \A p \in 1 .. MaxModelLen : new[p] \in Vocab \cup {Rough, Unwritten}
  BY <1>4, <1>7, <1>9, Zenon
<1>11. new \in [1 .. MaxModelLen -> Vocab \cup {Rough, Unwritten}]
  BY <1>7, <1>10, Zenon
<1>12. ASSUME NEW p \in 1 .. c1 PROVE new[p] = sd[p]
  <2>1. p \in 1 .. MaxModelLen /\ ~(p \in c1 + 1 .. c1 + NumSpec) /\ (p \in c + 1 .. c + l \/ p \in 1 .. c)
    <3> HIDE DEF c, l
    <3> QED
      BY <1>4, <1>6, <1>8, SMT
  <2>2. CASE p \in c + 1 .. c + l
    BY <1>7, <1>9, <2>1, <2>2, Zenon
  <2>3. CASE ~(p \in c + 1 .. c + l)
    <3>1. new[p] = s[p]
      BY <1>4, <1>7, <2>1, <2>3, Zenon
    <3>2. p \in 1 .. Len(s)
      <4> HIDE DEF c, s
      <4> QED
        BY <1>4, <2>1, <2>3, SMT
    <3>3. Joins(Vocab, s, d, sd)
      BY <1>4, <1>5, Joined, Zenon
    <3> QED
      BY <3>1, <3>2, <3>3, Zenon DEF Joins
  <2> QED
    BY <2>2, <2>3, Zenon
<1> QED
  BY <1>11, <1>12, Zenon DEF new, WritesTo

(* A prefill chunk: the text stays and the chunk is computed. *)
LEMMA DiscardedRow ==
  ASSUME Setting, DecodeInv, NEW N \in Nat \ {0}, NEW b, Batched(b, N), NEW i \in 1 .. N, Discarded(b, i),
         NEW out, NEW r, r = b[i].req, NEW gen, gen = parse_output(b, i, out)
  PROVE  RowNext(r, text[r] \o Trimmed(r, gen), RolledBack(b, i, gen), Written(b, i, out), Drafted(b, i, out),
                 num_tokens_no_spec[r] + Len(gen))
<1> DEFINE s == text[r]
           d == b[i].drafts
           c1 == computed[r] + b[i].sched
<1>1. r \in Unfinished /\ r \in Reqs
  BY Zenon DEF Batched, Unfinished
<1>2. s \in Seq(Vocab) /\ Len(s) \in 1 .. MaxModelLen /\ num_tokens_no_spec[r] <= MaxModelLen
  BY <1>1, Zenon DEF DecodeInv, TypeOK, AppendsFit
<1>3. /\ Len(s) \in Nat /\ Len(d) = 0 /\ computed[r] \in Nat /\ b[i].sched \in Nat /\ c1 < Len(s)
      /\ num_tokens_no_spec[r] = Len(s)
  <2>1. RowNumbers(b, i)
    BY NumbersOfRow, Zenon
  <2> QED
    BY <2>1, Zenon DEF RowNumbers
<1>4. d = <<>>
  <2>1. RowFits(b, i)
    BY RowsFit, Zenon
  <2>2. d \in Seq(Vocab)
    BY <2>1, Zenon DEF RowFits
  <2> HIDE DEF d
  <2> QED
    BY <1>3, <2>2, SMT
<1>5. gen = <<>> /\ Len(gen) = 0
  BY SMT DEF parse_output
<1>6. SeqLen(b, i) = c1 /\ c1 \in Nat /\ c1 <= MaxModelLen /\ c1 \in 0 .. MaxModelLen /\ c1 + 1 \in 1 .. Len(s)
  <2>1. SeqLen(b, i) = c1
    BY Zenon DEF SeqLen
  <2>2. c1 \in Nat
    BY <1>3, SMT
  <2>3. MaxModelLen \in Nat
    BY Zenon DEF Setting
  <2> HIDE DEF s, c1
  <2> QED
    BY <1>2, <1>3, <2>1, <2>2, <2>3, SMT
<1>7. num_rejected_tokens(b, i, out) = 0
  <2>1. ~(Len(d) > 0)
    BY <1>3, SMT
  <2> QED
    BY <2>1, Zenon DEF num_rejected_tokens
<1>8. SeqLen(b, i) - num_rejected_tokens(b, i, out) = c1
  <2> HIDE DEF c1
  <2> QED
    BY <1>6, <1>7, SMT
<1>9. RolledBack(b, i, gen) = c1
  <2>1. RolledBack(b, i, gen) = SeqLen(b, i) - 0
    BY <1>4, Zenon DEF RolledBack
  <2> HIDE DEF c1
  <2> QED
    BY <1>6, <2>1, SMT
<1>10. next_token_id(b, i, out) = s[c1 + 1] /\ s[c1 + 1] \in Vocab
  <2>1. ValidCount(b, i, out) = 0
    BY Zenon DEF ValidCount
  <2>2. SeqLen(b, i) < Len(text[b[i].req])
    BY Zenon DEF Discarded
  <2>3. next_token_id(b, i, out) = s[c1 + 1]
    BY <1>6, <2>1, <2>2, Zenon DEF next_token_id, backup_next_token
  <2> QED
    BY <1>2, <1>6, <2>3, ElementOfSeq, Zenon
<1>11. s \o Trimmed(r, gen) = s
  <2>1. ~Stopped(r, s) /\ gen \in Seq(Vocab)
    BY <1>1, <1>5, EmptySeq, Zenon DEF Unfinished
  <2>2. PICK t \in 0 .. Len(gen) : Trims(r, gen, t)
    BY <1>2, <2>1, CutAtStop, Zenon
  <2>3. t = 0
    BY <1>5, SMT
  <2>4. SubSeq(gen, 1, 0) = <<>>
    BY SMT
  <2>5. Trimmed(r, gen) = <<>>
    BY <2>2, <2>3, <2>4, Zenon DEF Trims
  <2> QED
    BY <1>2, <2>5, ConcatEmptySeq, Zenon
<1>12. c1 <= SeqLen(b, i)
  <2> HIDE DEF c1
  <2> QED
    BY <1>6, SMT
<1> HIDE DEF c1
<1>13. GoesOn(Drafted(b, i, out), c1, s[c1 + 1])
  BY <1>6, <1>8, <1>10, DraftedTyped, Zenon
<1>14. /\ Written(b, i, out) \in [1 .. MaxModelLen -> Vocab \cup {Rough, Unwritten}]
       /\ \A p \in 1 .. c1 : Written(b, i, out)[p] = (s \o d)[p]
  <2>1. WritesTo(b, i, out, c1)
    BY <1>6, <1>8, <1>12, WrittenIs, Zenon
  <2> QED
    BY <2>1, Zenon DEF WritesTo
<1>15. s \o d = s
  BY <1>2, <1>4, ConcatEmptySeq, Zenon
<1>16. num_tokens_no_spec[r] + Len(gen) = Len(s)
  <2> HIDE DEF s
  <2> QED
    BY <1>3, <1>5, SMT
<1>17. Len(s) <= MaxModelLen
  BY <1>2, <1>3, Zenon
<1>18. \A p \in 1 .. c1 : Written(b, i, out)[p] = s[p]
  BY <1>14, <1>15, Zenon
<1>19. RowNext(r, s, c1, Written(b, i, out), Drafted(b, i, out), Len(s))
  BY <1>2, <1>3, <1>6, <1>13, <1>14, <1>17, <1>18, Zenon DEF RowNext, GoesOn
<1> QED
  BY <1>9, <1>11, <1>16, <1>19, Zenon

(* A sampled row: the text grows by the verified tokens up to the stop. *)
LEMMA SampledRow ==
  ASSUME Setting, DecodeInv, NEW N \in Nat \ {0}, NEW b, Batched(b, N), NEW i \in 1 .. N, ~Discarded(b, i),
         NEW outs \in sampled_token_ids(b, SpecDecodeMetadata(b)), NEW out, out = outs[i],
         NEW r, r = b[i].req, NEW gen, gen = parse_output(b, i, out)
  PROVE  RowNext(r, text[r] \o Trimmed(r, gen), RolledBack(b, i, gen), Written(b, i, out), Drafted(b, i, out),
                 num_tokens_no_spec[r] + Len(gen))
<1> DEFINE s == text[r]
           d == b[i].drafts
           L == Len(s)
           n == Len(d)
           g == Len(gen)
           c1 == L + g - 1
<1>1. r \in Unfinished /\ r \in Reqs
  BY Zenon DEF Batched, Unfinished
<1>2. s \in Seq(Vocab) /\ L \in 1 .. MaxModelLen /\ num_tokens_no_spec[r] <= MaxModelLen
  BY <1>1, Zenon DEF DecodeInv, TypeOK, AppendsFit
<1>3. /\ L \in Nat /\ n \in Nat /\ computed[r] \in Nat /\ b[i].sched \in Nat
      /\ computed[r] + b[i].sched = L + n /\ L + n + 1 <= MaxModelLen
      /\ num_tokens_no_spec[r] = L /\ computed[r] < L
  <2>1. RowNumbers(b, i)
    BY NumbersOfRow, Zenon
  <2> QED
    BY <2>1, Zenon DEF RowNumbers
<1>4. d \in Seq(Vocab)
  <2>1. RowFits(b, i)
    BY RowsFit, Zenon
  <2> QED
    BY <2>1, Zenon DEF RowFits
<1>5. gen = Valid(out) /\ Verified(r, s, d, gen)
  <2>1. gen = Valid(out)
    BY Zenon DEF parse_output
  <2> QED
    BY <2>1, RowVerified, Zenon
<1>6. gen \in Seq(Vocab) /\ g \in 1 .. n + 1 /\ \A p \in 1 .. g - 1 : gen[p] = d[p]
  BY <1>5, Zenon DEF Verified
<1>7. MaxModelLen \in Nat
  BY Zenon DEF Setting
<1>8. SeqLen(b, i) = L + n
  BY <1>3, Zenon DEF SeqLen
<1>9. ValidCount(b, i, out) = g
  BY <1>5, Zenon DEF ValidCount
<1>10. n = 0 <=> d = <<>>
  <2> HIDE DEF d
  <2> QED
    BY <1>4, SMT
<1>11. gen # <<>>
  <2>1. Len(<<>>) = 0
    BY SMT
  <2>2. g # 0
    <3> HIDE DEF g, n
    <3> QED
      BY <1>3, <1>6, SMT
  <2> QED
    BY <2>1, <2>2, Zenon
<1>12. g \in Nat /\ c1 \in Nat /\ c1 \in 0 .. MaxModelLen /\ c1 <= L + n /\ c1 <= MaxModelLen /\ c1 + 1 = L + g /\ L + g <= MaxModelLen /\ L <= c1
  <2> HIDE DEF L, n, g
  <2> QED
    BY <1>3, <1>6, <1>7, SMT
<1>13. RolledBack(b, i, gen) = c1
  <2> DEFINE cut == IF d # <<>> /\ gen # <<>> THEN n - (g - 1) ELSE 0
  <2>1. RolledBack(b, i, gen) = (L + n) - cut
    <3>1. RolledBack(b, i, gen) = SeqLen(b, i) - cut
      BY DEF RolledBack
    <3> HIDE DEF L, n, g, cut
    <3> QED
      BY <1>8, <3>1, Zenon
  <2>2. n = 0 => cut = 0
    BY <1>10, Zenon
  <2>3. n # 0 => cut = n - (g - 1)
    BY <1>10, <1>11, Zenon
  <2> HIDE DEF L, n, g, cut
  <2> QED
    BY <1>3, <1>6, <2>1, <2>2, <2>3, SMT
<1>14. SeqLen(b, i) - num_rejected_tokens(b, i, out) = c1
  <2>1. num_rejected_tokens(b, i, out) = IF n > 0 THEN n + 1 - g ELSE 0
    BY <1>9, Zenon DEF num_rejected_tokens
  <2> HIDE DEF L, n, g
  <2> QED
    BY <1>3, <1>6, <1>8, <2>1, SMT
<1>15. next_token_id(b, i, out) = gen[g] /\ gen[g] \in Vocab
  <2>1. g # 0 /\ g \in 1 .. Len(gen)
    <3> HIDE DEF n
    <3> QED
      BY <1>3, <1>6, SMT
  <2>2. next_token_id(b, i, out) = gen[g]
    BY <1>5, <1>9, <2>1, Zenon DEF next_token_id, Last
  <2> QED
    BY <1>6, <2>1, <2>2, ElementOfSeq, Zenon
<1>16. c1 <= SeqLen(b, i)
  BY <1>8, <1>12, Zenon
<1>17. PICK t \in 0 .. Len(gen) : Trims(r, gen, t)
  <2>1. ~Stopped(r, s)
    BY <1>1, Zenon DEF Unfinished
  <2> QED
    BY <1>2, <1>6, <2>1, CutAtStop, Zenon
<1>18. t \in 1 .. Len(gen) /\ t \in Nat /\ t <= g
  <2>1. Len(gen) # 0 => t # 0
    BY <1>17, Zenon DEF Trims
  <2> HIDE DEF L, n
  <2> QED
    BY <1>3, <1>6, <2>1, SMT
<1> DEFINE x == SubSeq(gen, 1, t)
           s1 == s \o x
<1>19. Trimmed(r, gen) = x
  BY <1>17, Zenon DEF Trims
<1>20. Contract!Decodes(r, s, s1)
  BY <1>2, <1>4, <1>5, <1>17, <1>18, VerifiedDecodes, Zenon
<1>21. x \in Seq(Vocab) /\ Len(x) = t
  BY <1>6, <1>17, Prefix, Zenon
<1>22. s1 \in Seq(Vocab) /\ Len(s1) = L + t
  <2> HIDE DEF x
  <2>1. Joins(Vocab, s, x, s1)
    BY <1>2, <1>21, Joined, Zenon
  <2> QED
    BY <1>21, <2>1, Zenon DEF Joins
<1>23. Len(s1) \in 1 .. MaxModelLen
  <2>1. L \in Nat /\ g \in Nat /\ t \in Nat /\ t <= g /\ L + g <= MaxModelLen /\ L \in 1 .. MaxModelLen
    BY <1>2, <1>3, <1>12, <1>18, Zenon
  <2> HIDE DEF s1, L, g
  <2>2. L + t \in 1 .. MaxModelLen
    BY <1>7, <2>1, SMT
  <2> QED
    BY <1>22, <2>2, Zenon
<1>24. num_tokens_no_spec[r] + Len(gen) = L + g /\ L + g \in Nat
  <2> HIDE DEF L
  <2> QED
    BY <1>3, <1>12, SMT
<1>25. WritesTo(b, i, out, c1)
  <2> HIDE DEF c1
  <2> QED
    BY <1>12, <1>14, <1>16, WrittenIs, Zenon
<1>26. GoesOn(Drafted(b, i, out), c1, gen[g])
  <2> HIDE DEF c1
  <2> QED
    BY <1>12, <1>14, <1>15, DraftedTyped, Zenon
<1>27. ASSUME ~Stopped(r, s1)
       PROVE  /\ c1 < Len(s1) /\ L + g = Len(s1) /\ \A p \in 1 .. c1 : Written(b, i, out)[p] = s1[p]
              /\ gen[g] = s1[c1 + 1]
  <2>1. t = g
    BY <1>17, <1>27, Zenon DEF Trims
  <2>2. x = gen
    BY <1>6, <2>1, SubSeqFull, Zenon
  <2>3. Len(s1) = L + g /\ c1 < Len(s1)
    <3>1. Len(s1) = L + g
      BY <1>22, <2>1, Zenon
    <3> HIDE DEF s1, L, g
    <3> QED
      BY <1>3, <1>12, <3>1, SMT
  <2>4. Joins(Vocab, s, gen, s1) /\ Joins(Vocab, s, d, s \o d)
    BY <1>2, <1>4, <1>6, <2>2, Joined, Zenon
  <2>5. gen[g] = s1[c1 + 1]
    <3>1. g \in 1 .. Len(gen)
      <4> HIDE DEF n
      <4> QED
        BY <1>3, <1>6, SMT
    <3>2. s1[L + g] = gen[g]
      BY <2>4, <3>1, Zenon DEF Joins
    <3> QED
      BY <1>12, <3>2, Zenon
  <2>6. ASSUME NEW p \in 1 .. c1 PROVE Written(b, i, out)[p] = s1[p]
    <3>1. Written(b, i, out)[p] = (s \o d)[p]
      BY <1>25, Zenon DEF WritesTo
    <3>2. CASE p <= L
      <4>1. p \in 1 .. L
        <5> HIDE DEF c1, L
        <5> QED
          BY <1>3, <1>12, <3>2, SMT
      <4> QED
        BY <2>4, <3>1, <4>1, Zenon DEF Joins
    <3>3. CASE ~(p <= L)
      <4>1. p - L \in 1 .. g - 1 /\ p - L \in 1 .. n /\ p - L \in 1 .. g /\ L + (p - L) = p
        <5> HIDE DEF L, g, n
        <5> QED
          BY <1>3, <1>6, <1>12, <3>3, SMT
      <4>2. (s \o d)[L + (p - L)] = d[p - L] /\ s1[L + (p - L)] = gen[p - L] /\ gen[p - L] = d[p - L]
        BY <1>6, <2>4, <4>1, Zenon DEF Joins
      <4> QED
        BY <3>1, <4>1, <4>2, Zenon
    <3> QED
      BY <3>2, <3>3, Zenon
  <2> QED
    BY <2>3, <2>5, <2>6, Zenon
<1>28. Written(b, i, out) \in [1 .. MaxModelLen -> Vocab \cup {Rough, Unwritten}]
  BY <1>25, Zenon DEF WritesTo
<1> HIDE DEF s1, c1
<1>29. RowNext(r, s1, c1, Written(b, i, out), Drafted(b, i, out), L + g)
  BY <1>12, <1>20, <1>22, <1>23, <1>24, <1>26, <1>27, <1>28, Zenon DEF RowNext, GoesOn
<1> QED
  BY <1>13, <1>19, <1>24, <1>29, Zenon DEF s1

-----------------------------------------------------------------------------
(* What it makes of all requests. *)

(* A step gives request r values that keep it sound, or leaves it alone. *)
Moves(r) ==
  \/ RowNext(r, text'[r], computed'[r], kv'[r], drafter'[r], num_tokens_no_spec'[r])
  \/ /\ text'[r] = text[r] /\ computed'[r] = computed[r] /\ kv'[r] = kv[r]
     /\ drafter'[r] = drafter[r] /\ num_tokens_no_spec'[r] = num_tokens_no_spec[r]

(* The state is still one value per request. *)
PerRequest ==
  /\ text' = [r \in Reqs |-> text'[r]] /\ computed' = [r \in Reqs |-> computed'[r]]
  /\ kv' = [r \in Reqs |-> kv'[r]] /\ drafter' = [r \in Reqs |-> drafter'[r]]
  /\ num_tokens_no_spec' = [r \in Reqs |-> num_tokens_no_spec'[r]]

(* What a step on batch b with output rows outs makes of the state. *)
RunsBatch(b, outs) ==
  /\ text' = [r \in Reqs |-> IF InBatch(b, r) THEN text[b[RowOf(b, r)].req] \o
                Trimmed(b[RowOf(b, r)].req, parse_output(b, RowOf(b, r), outs[RowOf(b, r)])) ELSE text[r]]
  /\ computed' = [r \in Reqs |-> IF InBatch(b, r)
       THEN RolledBack(b, RowOf(b, r), parse_output(b, RowOf(b, r), outs[RowOf(b, r)])) ELSE computed[r]]
  /\ kv' = [r \in Reqs |-> IF InBatch(b, r)
       THEN Written(b, RowOf(b, r), outs[RowOf(b, r)]) ELSE kv[r]]
  /\ drafter' = [r \in Reqs |-> IF InBatch(b, r)
       THEN Drafted(b, RowOf(b, r), outs[RowOf(b, r)]) ELSE drafter[r]]
  /\ num_tokens_no_spec' = [r \in Reqs |-> IF InBatch(b, r)
       THEN num_tokens_no_spec[b[RowOf(b, r)].req]
              + Len(parse_output(b, RowOf(b, r), outs[RowOf(b, r)])) ELSE num_tokens_no_spec[r]]
  /\ preempted' = preempted

(* An engine step moves every request of the batch soundly and leaves the
   others alone. *)
LEMMA StepMoves ==
  ASSUME Setting, DecodeInv, Step
  PROVE  PerRequest /\ preempted' = preempted /\ \A r \in Reqs : Moves(r)
<1>1. PICK b \in Batches : \E outs \in sampled_token_ids(b, SpecDecodeMetadata(b)) : RunsBatch(b, outs)
  BY Zenon DEF Step, RunsBatch, Drafted
<1>2. PICK outs \in sampled_token_ids(b, SpecDecodeMetadata(b)) : RunsBatch(b, outs)
  BY <1>1, Zenon
<1>3. PICK N \in Nat \ {0} : Batched(b, N)
  BY BatchIsBatched, Zenon
<1>4. PerRequest
  BY <1>2, SMT DEF RunsBatch, PerRequest
<1>5. ASSUME NEW r \in Reqs, InBatch(b, r) PROVE Moves(r)
  <2> DEFINE i == RowOf(b, r)
             out == outs[i]
             gen == parse_output(b, i, out)
  <2>1. i \in 1 .. N /\ b[i].req = r
    BY <1>3, <1>5, Zenon DEF InBatch, RowOf, Batched
  <2>2. text'[r] = text[r] \o Trimmed(r, gen)
    BY <1>2, <1>5, <2>1, Zenon DEF RunsBatch
  <2>3. computed'[r] = RolledBack(b, i, gen) /\ kv'[r] = Written(b, i, out) /\ drafter'[r] = Drafted(b, i, out)
    BY <1>2, <1>5, Zenon DEF RunsBatch
  <2>4. num_tokens_no_spec'[r] = num_tokens_no_spec[r] + Len(gen)
    BY <1>2, <1>5, <2>1, Zenon DEF RunsBatch
  <2> HIDE DEF i
  <2>5. CASE Discarded(b, i)
    <3>1. RowNext(r, text[r] \o Trimmed(r, gen), RolledBack(b, i, gen), Written(b, i, out), Drafted(b, i, out),
                  num_tokens_no_spec[r] + Len(gen))
      BY <1>3, <2>1, <2>5, DiscardedRow, Zenon
    <3> QED
      BY <2>2, <2>3, <2>4, <3>1, Zenon DEF Moves
  <2>6. CASE ~Discarded(b, i)
    <3>1. RowNext(r, text[r] \o Trimmed(r, gen), RolledBack(b, i, gen), Written(b, i, out), Drafted(b, i, out),
                  num_tokens_no_spec[r] + Len(gen))
      BY <1>3, <2>1, <2>6, SampledRow, Zenon
    <3> QED
      BY <2>2, <2>3, <2>4, <3>1, Zenon DEF Moves
  <2> QED
    BY <2>5, <2>6, Zenon
<1>6. ASSUME NEW r \in Reqs, ~InBatch(b, r) PROVE Moves(r)
  BY <1>2, <1>6, Zenon DEF RunsBatch, Moves
<1> QED
  BY <1>2, <1>4, <1>5, <1>6, Zenon DEF RunsBatch

(* Requests that are moved soundly or left alone keep the invariant. *)
LEMMA MovesKeepInv ==
  ASSUME DecodeInv, PerRequest, preempted' \in 0 .. MaxPreemptions, \A r \in Reqs : Moves(r)
  PROVE  DecodeInv'
<1>1. ASSUME NEW r \in Reqs
      PROVE  /\ text'[r] \in Seq(Vocab) /\ Len(text'[r]) \in 1 .. MaxModelLen /\ computed'[r] \in 0 .. MaxModelLen
             /\ kv'[r] \in [1 .. MaxModelLen -> Vocab \cup {Rough, Unwritten}]
             /\ drafter'[r] \in [pos : -1 .. MaxModelLen, tok : Vocab \cup {-1}]
             /\ num_tokens_no_spec'[r] \in Nat /\ num_tokens_no_spec'[r] <= MaxModelLen
  BY Zenon DEF Moves, RowNext, DecodeInv, TypeOK, AppendsFit
<1>2. ASSUME NEW r \in Reqs, r \in Unfinished' PROVE Sound(r)'
  <2>1. ~Stopped(r, text'[r])
    BY <1>2, Zenon DEF Unfinished, Stopped
  <2>2. CASE RowNext(r, text'[r], computed'[r], kv'[r], drafter'[r], num_tokens_no_spec'[r])
    BY <2>1, <2>2, Zenon DEF RowNext, Sound
  <2>3. CASE ~RowNext(r, text'[r], computed'[r], kv'[r], drafter'[r], num_tokens_no_spec'[r])
    <3>1. /\ text'[r] = text[r] /\ computed'[r] = computed[r] /\ kv'[r] = kv[r]
          /\ drafter'[r] = drafter[r] /\ num_tokens_no_spec'[r] = num_tokens_no_spec[r]
      BY <2>3, Zenon DEF Moves
    <3>2. Sound(r)
      BY <2>1, <3>1, Zenon DEF DecodeInv, Unfinished
    <3> QED
      BY <3>1, <3>2, SMT DEF Sound
  <2> QED
    BY <2>2, <2>3, Zenon
<1>3. TypeOK'
  BY <1>1, Zenon DEF PerRequest, TypeOK
<1>4. text' \in [Reqs -> Seq(Vocab)]
  BY <1>1, Zenon DEF PerRequest
<1> QED
  BY <1>1, <1>2, <1>3, <1>4, Zenon DEF DecodeInv, AppendsFit, Unfinished

(* An engine step keeps the invariant, and is a step of plain decoding. *)
LEMMA StepDecodes ==
  ASSUME Setting, DecodeInv, Step
  PROVE  DecodeInv' /\ Contract!Next
<1>1. PerRequest /\ preempted' = preempted /\ \A r \in Reqs : Moves(r)
  BY StepMoves, Zenon
<1>2. DecodeInv'
  BY <1>1, MovesKeepInv, Zenon DEF DecodeInv, TypeOK
<1>3. DOMAIN text' = Reqs
  BY <1>1, Zenon DEF PerRequest
<1>4. ASSUME NEW r \in Reqs PROVE text'[r] = text[r] \/ Contract!Decodes(r, text[r], text'[r])
  BY <1>1, Zenon DEF Moves, RowNext
<1> QED
  BY <1>2, <1>3, <1>4, Zenon DEF Contract!Next

(* A preempted request recomputes all of its tokens, so nothing of it counts
   as computed and the drafter has nowhere to go on. *)
LEMMA PreemptDecodes ==
  ASSUME Setting, DecodeInv, NEW q \in Reqs, Preempt(q)
  PROVE  DecodeInv' /\ UNCHANGED text
<1>1. /\ computed' = [computed EXCEPT ![q] = 0] /\ kv' = [kv EXCEPT ![q] = NoKV]
      /\ drafter' = [drafter EXCEPT ![q] = Nowhere] /\ preempted' = preempted + 1 /\ preempted < MaxPreemptions
      /\ text' = text /\ num_tokens_no_spec' = num_tokens_no_spec /\ q \in Unfinished
  BY Zenon DEF Preempt
<1>2. /\ text \in [Reqs -> Seq(Vocab)] /\ computed \in [Reqs -> 0 .. MaxModelLen]
      /\ kv \in [Reqs -> [1 .. MaxModelLen -> Vocab \cup {Rough, Unwritten}]]
      /\ drafter \in [Reqs -> [pos : -1 .. MaxModelLen, tok : Vocab \cup {-1}]]
      /\ num_tokens_no_spec \in [Reqs -> Nat]
  BY Zenon DEF DecodeInv, TypeOK
<1>3. PerRequest
  <2>1. ASSUME NEW S, NEW f \in [Reqs -> S], NEW v
        PROVE  /\ f = [r \in Reqs |-> f[r]]
               /\ [f EXCEPT ![q] = v] = [r \in Reqs |-> [f EXCEPT ![q] = v][r]]
    BY Zenon
  <2> QED
    BY <1>1, <1>2, <2>1, Zenon DEF PerRequest
<1>4. preempted' \in 0 .. MaxPreemptions
  BY <1>1, SMT DEF Setting, DecodeInv, TypeOK
<1>5. ASSUME NEW r \in Reqs, r # q PROVE Moves(r)
  BY <1>1, <1>2, <1>5, Zenon DEF Moves
<1>6. Moves(q)
  <2>1. computed'[q] = 0 /\ kv'[q] = NoKV /\ drafter'[q] = Nowhere
    BY <1>1, <1>2, Zenon
  <2>2. NoKV \in [1 .. MaxModelLen -> Vocab \cup {Rough, Unwritten}]
    BY Zenon DEF NoKV
  <2>3. Nowhere \in [pos : -1 .. MaxModelLen, tok : Vocab \cup {-1}] /\ 0 \in 0 .. MaxModelLen
    BY SMT DEF Nowhere, PLACEHOLDER_TOKEN_ID, Setting
  <2>4. /\ text[q] \in Seq(Vocab) /\ Len(text[q]) \in 1 .. MaxModelLen
        /\ num_tokens_no_spec[q] \in Nat /\ num_tokens_no_spec[q] <= MaxModelLen
        /\ num_tokens_no_spec[q] = Len(text[q])
    BY <1>1, Zenon DEF DecodeInv, TypeOK, AppendsFit, Sound
  <2>5. 0 < Len(text[q]) /\ 1 .. 0 = {}
    BY <2>4, SMT DEF Setting
  <2>6. RowNext(q, text[q], 0, NoKV, Nowhere, num_tokens_no_spec[q])
    BY <2>2, <2>3, <2>4, <2>5, Zenon DEF RowNext
  <2> QED
    BY <1>1, <2>1, <2>6, Zenon DEF Moves
<1> QED
  BY <1>1, <1>3, <1>4, <1>5, <1>6, MovesKeepInv, Zenon

(* The invariant of the decoding step holds at the start and at every step. *)
LEMMA DecodeInvHolds ==
  ASSUME Setting
  PROVE  Spec => []DecodeInv
<1>1. Init => DecodeInv
  <2> SUFFICES ASSUME Init PROVE DecodeInv
    BY Zenon
  <2>1. Nowhere \in [pos : -1 .. MaxModelLen, tok : Vocab \cup {-1}] /\ 0 \in 0 .. MaxModelLen
        /\ 0 \in 0 .. MaxPreemptions /\ 1 .. 0 = {}
    BY SMT DEF Nowhere, PLACEHOLDER_TOKEN_ID, Setting
  <2>2. NoKV \in [1 .. MaxModelLen -> Vocab \cup {Rough, Unwritten}]
    BY Zenon DEF NoKV
  <2>3. ASSUME NEW r \in Reqs
        PROVE  /\ Prompt[r] \in Seq(Vocab) /\ Len(Prompt[r]) \in 1 .. MaxModelLen
               /\ Len(Prompt[r]) \in Nat /\ Len(Prompt[r]) <= MaxModelLen /\ 0 < Len(Prompt[r])
    <3>1. Prompt[r] \in Seq(Vocab) /\ Len(Prompt[r]) \in 1 .. MaxModelLen
      BY Zenon DEF Setting
    <3> QED
      BY <3>1, SMT DEF Setting
  <2>4. TypeOK
    BY <2>1, <2>2, <2>3, Zenon DEF Init, TypeOK
  <2>5. ASSUME NEW r \in Reqs PROVE Sound(r) /\ num_tokens_no_spec[r] <= MaxModelLen
    BY <2>1, <2>3, Zenon DEF Init, Sound
  <2> QED
    BY <2>4, <2>5, Zenon DEF Init, DecodeInv, AppendsFit, Unfinished, Setting
<1>2. DecodeInv /\ [Next]_vars => DecodeInv'
  <2> SUFFICES ASSUME DecodeInv, [Next]_vars PROVE DecodeInv'
    BY Zenon
  <2>1. CASE Step
    BY <2>1, StepDecodes, Zenon
  <2>2. ASSUME NEW r \in Reqs, Preempt(r) PROVE DecodeInv'
    BY <2>2, PreemptDecodes, Zenon
  <2>3. CASE UNCHANGED vars
    BY <2>3, Zenon DEF vars, DecodeInv, TypeOK, AppendsFit, Unfinished, Sound, Stopped
  <2> QED
    BY <2>1, <2>2, <2>3, Zenon DEF Next
<1> QED
  BY <1>1, <1>2, PTL DEF Spec

-----------------------------------------------------------------------------
(* The theorems. *)

(* For any number of requests, draft tokens and preemptions, any target model
   and any drafts: the KV entries below num_computed_tokens of a request that
   goes on are the target model's, for the tokens the request has. *)
THEOREM ComputedStaysExact ==
  ASSUME Setting
  PROVE  Spec => []ComputedIsExact
<1>1. DecodeInv => ComputedIsExact
  BY Zenon DEF DecodeInv, Sound, ComputedIsExact
<1> QED
  BY <1>1, DecodeInvHolds, PTL

(* In the same generality: where the drafter, which has seen only the counts
   on the GPU, goes on with a request is where the scheduler will. *)
THEOREM DrafterStaysWithScheduler ==
  ASSUME Setting
  PROVE  Spec => []DrafterAgrees
<1>1. DecodeInv => DrafterAgrees
  BY Zenon DEF DecodeInv, Sound, DrafterAgrees
<1> QED
  BY <1>1, DecodeInvHolds, PTL

(* In the same generality: what the runner appends before the scheduler cuts
   at the stop fits the row of token ids, as _bookkeeping_sync asserts. *)
THEOREM RunnerAppendsFit ==
  ASSUME Setting
  PROVE  Spec => []AppendsFit
<1>1. DecodeInv => AppendsFit
  BY Zenon DEF DecodeInv
<1> QED
  BY <1>1, DecodeInvHolds, PTL

(* Speculative decoding implements AutoregressiveDecoding: every engine step,
   whatever it drafts, accepts, rejects and cuts at the stop, extends requests
   by tokens the target model may choose after exactly the tokens before. *)
THEOREM DecodingIsLossless ==
  ASSUME Setting
  PROVE  Spec => Lossless
<1>1. Init => Contract!Init
  BY Zenon DEF Init, Contract!Init
<1>2. DecodeInv /\ [Next]_vars => [Contract!Next]_text
  <2> SUFFICES ASSUME DecodeInv, [Next]_vars PROVE [Contract!Next]_text
    BY Zenon
  <2>1. CASE Step
    BY <2>1, StepDecodes, Zenon
  <2>2. ASSUME NEW r \in Reqs, Preempt(r) PROVE text' = text
    BY <2>2, PreemptDecodes, Zenon
  <2>3. CASE UNCHANGED vars
    BY <2>3, Zenon DEF vars
  <2> QED
    BY <2>1, <2>2, <2>3, Zenon DEF Next
<1> QED
  BY <1>1, <1>2, DecodeInvHolds, PTL DEF Spec, Lossless, Contract!Spec
=============================================================================

--------------------------- MODULE SpecDecodeStep ---------------------------
(***************************************************************************)
(* One engine step as the tokens see it: the runner packs the scheduled    *)
(* rows into flat tensors, picks the logits to sample, verifies the draft  *)
(* tokens by rejection (vllm/v1/sample/rejection_sampler.py), filters the  *)
(* padded result, tells the drafter where to go on                         *)
(* (vllm/v1/spec_decode/utils.py), and the scheduler rolls back what was   *)
(* rejected.  Drafts are arbitrary tokens: nothing below may depend on     *)
(* their quality.  A row either argmaxes or samples; how likely a sampled  *)
(* token is belongs to RejectionSampling.                                  *)
(*                                                                         *)
(* Flat tensors are sequences, one-based; the indices stored in them are   *)
(* the code's, zero-based.                                                 *)
(***************************************************************************)
EXTENDS Integers, Sequences, SequencesExt, FiniteSets, FiniteSetsExt

CONSTANTS
  Reqs, Prompt, Vocab,
  Greedy,          \* the requests with temperature 0, a subset of Reqs
  Argmax(_),       \* the target model's first choice after a context
  Support(_),      \* the tokens it gives a positive probability
  Eos,             \* the stop token
  NumSpec, MaxModelLen,
  MaxTokens,       \* MaxTokens[r]: the request's max_tokens
  MaxPreemptions   \* bound on the preemptions explored

PLACEHOLDER_TOKEN_ID == -1
Rough == -2        \* a KV entry written by the sparse draft model
Unwritten == -3    \* a KV entry of a block just allocated

VARIABLES
  text,            \* text[r]: prompt and output tokens
  computed,        \* num_computed_tokens
  kv,              \* kv[r]: the token each of r's KV entries was computed for
  drafter,         \* drafter[r]: where the drafter continued r, and with what
  num_tokens_no_spec,   \* the runner's own count of r's tokens
  preempted        \* preemptions so far

vars == <<text, computed, kv, drafter, num_tokens_no_spec, preempted>>

NoKV == [p \in 1 .. MaxModelLen |-> Unwritten]
Nowhere == [pos |-> -1, tok |-> PLACEHOLDER_TOKEN_ID]

Init ==
  /\ text = Prompt /\ computed = [r \in Reqs |-> 0] /\ kv = [r \in Reqs |-> NoKV]
  /\ drafter = [r \in Reqs |-> Nowhere] /\ preempted = 0
  /\ num_tokens_no_spec = [r \in Reqs |-> Len(Prompt[r])]

(* check_stop: the stop token, the model's length or the request's own.  A
   min_tokens above 1 is refused with speculation (input_processor.py). *)
Stopped(r, s) ==
  \/ Len(s) > Len(Prompt[r]) /\ Last(s) = Eos
  \/ Len(s) >= MaxModelLen
  \/ Len(s) - Len(Prompt[r]) >= MaxTokens[r]

-----------------------------------------------------------------------------
(* Scheduling: a row is a request, how many of its tokens run, its drafts. *)
Unfinished == {r \in Reqs : ~Stopped(r, text[r])}

(* A prefill runs any chunk of what is missing; a decode its last token and
   as many drafts as the model length leaves room for. *)
DraftRoomMutant(r) == MaxModelLen - computed[r]    \* the sampled token is forgotten
DraftRoom(r) == MaxModelLen - 1 - computed[r]
RowsOf(r) ==
  LET missing == Len(text[r]) - computed[r]
  IN  [req : {r}, sched : 1 .. missing, drafts : {<<>>}]
      \cup (IF missing # 1 THEN {} ELSE
            UNION {[req : {r}, sched : {1 + n}, drafts : [1 .. n -> Vocab]] :
                   n \in {m \in 1 .. NumSpec : 1 + m <= DraftRoom(r)}})

(* The batch: the rows of some requests, in the order the input batch has. *)
Batches ==
  UNION {{b \in [DOMAIN order -> UNION {RowsOf(order[i]) : i \in DOMAIN order}] :
            \A i \in DOMAIN b : b[i].req = order[i]} :
         order \in SetToAllKPermutations(Unfinished) \ {<<>>}}

-----------------------------------------------------------------------------
(* Packing: everything below is a function of the batch b. *)
Flat(b, rowOf(_)) == FlattenSeq([i \in DOMAIN b |-> rowOf(i)])
Cumsum(n) == LET c[i \in DOMAIN n] == n[i] + (IF i = 1 THEN 0 ELSE c[i - 1]) IN c
Start(cu, i) == IF i = 1 THEN 0 ELSE cu[i - 1]

(* np.repeat(first, n) + arange: n[i] consecutive indices from first[i]. *)
RepeatArange(first, n) == Flat(n, LAMBDA i : [k \in 1 .. n[i] |-> first[i] + k - 1])

Tokens(b, i) ==
  SubSeq(text[b[i].req] \o b[i].drafts, computed[b[i].req] + 1,
         computed[b[i].req] + b[i].sched)
input_ids(b) == Flat(b, LAMBDA i : Tokens(b, i))

(* The target's forward pass: position k of row i attends to the row's KV
   entries below num_computed_tokens and to its own inputs up to k. *)
hidden_states(b) ==
  Flat(b, LAMBDA i : [k \in 1 .. b[i].sched |->
         SubSeq(kv[b[i].req], 1, computed[b[i].req]) \o SubSeq(Tokens(b, i), 1, k)])

(* _calc_spec_decode_metadata.  A batch without drafts takes another path to
   the same indices: one sample at the end of every row. *)
target_logits_firstMutant(cu_drafts, n, sampled, cu_sampled, i) ==
  Start(cu_drafts, i)                         \* counts drafts, not samples
target_logits_first(cu_drafts, n, sampled, cu_sampled, i) == cu_sampled[i] - sampled[i]
SpecDecodeMetadata(b) ==
  LET rows == DOMAIN b
      n == [i \in rows |-> Len(b[i].drafts)]
      sampled == [i \in rows |-> n[i] + 1]
      cu_scheduled == Cumsum([i \in rows |-> b[i].sched])
      cu_sampled == Cumsum(sampled)
      cu_drafts == Cumsum(n)
      logits_indices == RepeatArange([i \in rows |-> cu_scheduled[i] - sampled[i]], sampled)
      target_logits_indices ==
        RepeatArange([i \in rows |-> target_logits_first(cu_drafts, n, sampled, cu_sampled, i)], n)
      Logits(j) == hidden_states(b)[logits_indices[j + 1] + 1]
      Sampled(j) == input_ids(b)[logits_indices[j + 1] + 1]
  IN  [num_draft_tokens |-> n, cu_num_draft_tokens |-> cu_drafts,
       target_logits |-> [j \in DOMAIN target_logits_indices |-> Logits(target_logits_indices[j])],
       bonus_logits |-> [i \in rows |-> Logits(cu_sampled[i] - 1)],
       draft_token_ids |-> [j \in DOMAIN target_logits_indices |->
                              Sampled(target_logits_indices[j] + 1)]]

-----------------------------------------------------------------------------
(* Rejection: row i of the padded output, max_spec_len + 1 wide, from the
   metadata m.  A row of logits is known by the context it was computed for. *)
TargetOf(m, i, p) == m.target_logits[Start(m.cu_num_draft_tokens, i) + p]
DraftOf(m, i, p) == m.draft_token_ids[Start(m.cu_num_draft_tokens, i) + p]
Padded(m, row) ==
  [c \in 1 .. Max(Range(m.num_draft_tokens)) + 1 |->
     IF c \in DOMAIN row THEN row[c] ELSE PLACEHOLDER_TOKEN_ID]

(* The target's choice replaces each draft up to the first that differs. *)
rejection_greedy(m, i) ==
  LET n == m.num_draft_tokens[i]
      Agrees(p) == DraftOf(m, i, p) = Argmax(TargetOf(m, i, p))
      kept == Max({p \in 0 .. n : \A q \in 1 .. p - 1 : Agrees(q)})
      bonus == IF \A p \in 1 .. n : Agrees(p) THEN <<Argmax(m.bonus_logits[i])>> ELSE <<>>
  IN  {[p \in 1 .. kept |-> Argmax(TargetOf(m, i, p))] \o bonus}

(* A draft is accepted only where the target may choose it; a rejected one is
   replaced by a token whose target probability exceeds its draft probability,
   so by another token of the support. *)
rejection_random(m, i) ==
  LET n == m.num_draft_tokens[i]
      accepts == {a \in 0 .. n : \A p \in 1 .. a : DraftOf(m, i, p) \in Support(TargetOf(m, i, p))}
      Ends(a) == IF a = n THEN Support(m.bonus_logits[i])
                 ELSE Support(TargetOf(m, i, a + 1)) \ {DraftOf(m, i, a + 1)}
  IN  UNION {{Append([p \in 1 .. a |-> DraftOf(m, i, p)], t) : t \in Ends(a)} : a \in accepts}

sampled_token_ids(b, m) ==
  LET rows == [i \in DOMAIN b |->
                 {Padded(m, row) : row \in IF b[i].req \in Greedy THEN rejection_greedy(m, i)
                                           ELSE rejection_random(m, i)}]
  IN  {o \in [DOMAIN b -> UNION Range(rows)] : \A i \in DOMAIN b : o[i] \in rows[i]}

-----------------------------------------------------------------------------
(* What the runner and the drafter make of the output row out of row i. *)
SeqLen(b, i) == computed[b[i].req] + b[i].sched
Discarded(b, i) == SeqLen(b, i) < Len(text[b[i].req])
Valid(out) ==
  LET kept[c \in 0 .. Len(out)] ==
        IF c = 0 THEN <<>>
        ELSE IF out[c] # PLACEHOLDER_TOKEN_ID /\ out[c] \in Vocab
             THEN Append(kept[c - 1], out[c]) ELSE kept[c - 1]
  IN  kept[Len(out)]

parse_output(b, i, out) == IF Discarded(b, i) THEN <<>> ELSE Valid(out)

backup_next_token(b, i) ==
  IF SeqLen(b, i) < Len(text[b[i].req]) THEN text[b[i].req][SeqLen(b, i) + 1] ELSE -1
ValidCount(b, i, out) == IF Discarded(b, i) THEN 0 ELSE Len(Valid(out))
next_token_id(b, i, out) ==
  IF ValidCount(b, i, out) = 0 THEN backup_next_token(b, i) ELSE Last(Valid(out))
num_rejected_tokensMutant(b, i, out) ==       \* forgets the bonus token
  IF Len(b[i].drafts) > 0 THEN Len(b[i].drafts) - ValidCount(b, i, out) ELSE 0
num_rejected_tokens(b, i, out) ==
  IF Len(b[i].drafts) > 0 THEN Len(b[i].drafts) + 1 - ValidCount(b, i, out) ELSE 0

(* The whole batch is drafted or none of it is. *)
InputFitsInDrafter(b) ==
  Max({SeqLen(b, i) : i \in DOMAIN b}) + NumSpec <= MaxModelLen

(* The verify pass writes the KV of its inputs; each draft step writes one
   sparse entry, from the position of the next token on. *)
Written(b, i, out) ==
  LET r == b[i].req
      pos == SeqLen(b, i) - num_rejected_tokens(b, i, out)
  IN  [p \in 1 .. MaxModelLen |->
        IF InputFitsInDrafter(b) /\ p \in pos + 1 .. pos + NumSpec THEN Rough
        ELSE IF p \in computed[r] + 1 .. SeqLen(b, i)
             THEN Tokens(b, i)[p - computed[r]] ELSE kv[r][p]]

-----------------------------------------------------------------------------
(* The scheduler's update_from_output. *)
RolledBackMutant(b, i, gen) == SeqLen(b, i)
RolledBack(b, i, gen) ==
  SeqLen(b, i) - (IF b[i].drafts # <<>> /\ gen # <<>>
                  THEN Len(b[i].drafts) - (Len(gen) - 1) ELSE 0)

(* Tokens past the first that stops the request are dropped. *)
Trimmed(r, gen) ==
  SubSeq(gen, 1, Max({n \in 0 .. Len(gen) :
                      \A m \in 0 .. n - 1 : ~Stopped(r, text[r] \o SubSeq(gen, 1, m))}))

RowOf(b, r) == CHOOSE i \in DOMAIN b : b[i].req = r
InBatch(b, r) == \E i \in DOMAIN b : b[i].req = r

(* One engine step: schedule, verify, sample, draft, update. *)
Step ==
  \E b \in Batches :
    \E outs \in sampled_token_ids(b, SpecDecodeMetadata(b)) :
      LET Upd(f, new(_)) ==
            [r \in Reqs |-> IF InBatch(b, r) THEN new(RowOf(b, r)) ELSE f[r]]
          gen(i) == parse_output(b, i, outs[i])
      IN  /\ text' = Upd(text, LAMBDA i : text[b[i].req] \o Trimmed(b[i].req, gen(i)))
          /\ computed' = Upd(computed, LAMBDA i : RolledBack(b, i, gen(i)))
          /\ kv' = Upd(kv, LAMBDA i : Written(b, i, outs[i]))
          /\ drafter' = Upd(drafter, LAMBDA i :
               IF ~InputFitsInDrafter(b) THEN Nowhere
               ELSE [pos |-> SeqLen(b, i) - num_rejected_tokens(b, i, outs[i]),
                     tok |-> next_token_id(b, i, outs[i])])
          /\ num_tokens_no_spec' = Upd(num_tokens_no_spec, LAMBDA i :
               num_tokens_no_spec[b[i].req] + Len(gen(i)))
          /\ UNCHANGED preempted

(* A preempted request keeps its tokens and recomputes all of them. *)
Preempt(r) ==
  /\ preempted < MaxPreemptions /\ r \in Unfinished /\ computed[r] > 0
  /\ computed' = [computed EXCEPT ![r] = 0] /\ kv' = [kv EXCEPT ![r] = NoKV]
  /\ drafter' = [drafter EXCEPT ![r] = Nowhere] /\ preempted' = preempted + 1
  /\ UNCHANGED <<text, num_tokens_no_spec>>

Next == Step \/ \E r \in Reqs : Preempt(r)
Spec == Init /\ [][Next]_vars

(* The engine core steps as long as a request is unfinished. *)
FairSpec == Spec /\ WF_vars(Step)
-----------------------------------------------------------------------------
TypeOK ==
  /\ \A r \in Reqs : text[r] \in Seq(Vocab) /\ Len(text[r]) \in 1 .. MaxModelLen
  /\ computed \in [Reqs -> 0 .. MaxModelLen]
  /\ kv \in [Reqs -> [1 .. MaxModelLen -> Vocab \cup {Rough, Unwritten}]]
  /\ drafter \in [Reqs -> [pos : -1 .. MaxModelLen, tok : Vocab \cup {-1}]]
  /\ num_tokens_no_spec \in [Reqs -> Nat] /\ preempted \in 0 .. MaxPreemptions

(* The runner appends before the scheduler cuts at the stop; its row of token
   ids holds max_model_len, which _bookkeeping_sync asserts. *)
AppendsFit == \A r \in Reqs : num_tokens_no_spec[r] <= MaxModelLen

(* Lossless: whatever was drafted, however rows of other requests, prefill
   chunks and preemptions surround it, a request's output is what decoding
   with the target model alone could have produced. *)
Chooses(r, s) == IF r \in Greedy THEN {Argmax(s)} ELSE Support(s)
Contract == INSTANCE AutoregressiveDecoding
Lossless == Contract!Spec

(* The entries below num_computed_tokens, which the next step and the prefix
   cache take for exact, were written by the target model for the tokens the
   request really has: never by the draft model, nor for a rejected draft. *)
ComputedIsExact ==
  \A r \in Reqs : r \in Unfinished =>
    \A p \in 1 .. computed[r] : kv[r][p] = text[r][p]

(* The drafter, which works from GPU counts before the scheduler has seen the
   output, continues every request where the scheduler will: at its first
   token without KV, with that token. *)
DrafterAgrees ==
  \A r \in Unfinished : drafter[r] # Nowhere =>
    /\ drafter[r].pos = computed[r]
    /\ drafter[r].tok = text[r][computed[r] + 1]

(* The engine's loop serves every request to its stop: no batch of rows makes
   a step that advances none of them. *)
AllFinish == <>(\A r \in Reqs : Stopped(r, text[r]))
=============================================================================

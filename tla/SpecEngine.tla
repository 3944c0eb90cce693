----------------------------- MODULE SpecEngine -----------------------------
(***************************************************************************)
(* The engine: the scheduler, the worker's persistent batch and block      *)
(* table (GPUModelRunner._update_states), the KV cache the block table     *)
(* addresses, and the proposer, which drafts into that same cache and      *)
(* keeps the hidden states of its drafts row by row for the next verify.   *)
(*                                                                         *)
(* A step runs schedule -> states -> verify -> propose -> update in this   *)
(* order (EngineCore.step and post_step; async scheduling is refused for   *)
(* method sparse_attn).  A KV slot holds the Content of a position once    *)
(* a verify has written it there, Junk after a draft or a rejected token.  *)
(***************************************************************************)
EXTENDS Scheduler, InputBatch

VARIABLES
  states,       \* worker: block_ids of the cached request states
  batch,        \* worker: input batch and block table
  kv,           \* the KV cache: block, offset -> content
  prev_index,   \* proposer: _prev_req_id_to_index, <<>> at first
  reorder,      \* proposer: row of the hidden states for every batch row
  hidden,       \* proposer: whose drafts, from which position, a row holds
  escaped       \* history: a draft wrote outside its request's blocks

workerVars == <<states, batch, kv>>
proposerVars == <<prev_index, reorder, hidden>>
vars == <<schedVars, workerVars, proposerVars, escaped>>

Rows == 1 .. MaxRows
Offsets == 0 .. BlockSize - 1
Junk == <<"junk", 0>>
NoOne == <<NoReq, 0>>

Init ==
  /\ SchedulerInit
  /\ states = [r \in Requests |-> <<>>]
  /\ batch = EmptyBatch
  /\ kv = [b \in 0 .. NumBlocks |-> [o \in Offsets |-> Junk]]
  /\ prev_index = <<>>
  /\ reorder = [i \in Rows |-> i]
  /\ hidden = [i \in Rows |-> NoOne]
  /\ escaped = FALSE

-----------------------------------------------------------------------------
(* _update_states *)

Entries(kinds) == SelectSeq(out, LAMBDA e : e.kind \in kinds)
OfKind(kind) == {e.req : e \in ToSet(Entries({kind}))}
Scheduled == {e.req : e \in ToSet(out)}

(* A running request's new blocks extend its list; a new or resumed one's    *)
(* replace it; a finished one is forgotten.                                  *)
NewStates ==
  FoldLeft(LAMBDA st, e : [st EXCEPT ![e.req] =
                             IF e.kind = "running" THEN @ \o e.new ELSE e.new],
           [r \in Requests |-> IF r \in gone THEN <<>> ELSE states[r]],
           out)

(* Finished and unscheduled requests leave, running ones in the batch get    *)
(* their new blocks appended in place, the others are added to the smallest  *)
(* free rows (new ones first, then running, then resumed), gaps are closed.  *)
NewBatch ==
  LET stay == RemoveRequests(batch,
                gone \union (Requests \ (Scheduled \ OfKind("resumed"))))
      grown == FoldLeft(LAMBDA b, e : IF InBatch(b, e.req)
                                      THEN AppendRow(b, RowOf(b, e.req), e.new) ELSE b,
                        stay, Entries({"running"}))
      joining == SelectSeq(Entries({"new"}) \o Entries({"running"}) \o Entries({"resumed"}),
                           LAMBDA e : ~InBatch(stay, e.req))
  IN  Condense(FoldLeft(LAMBDA b, e : AddToBatch(b, e.req, NewStates[e.req]),
                        grown, joining))

(* Mutant of NewOrder: hidden states are read in batch order. *)
NewOrderMutant(ids) == [i \in Rows |-> i]

(* update_batch_order: a request that was in the previous batch is mapped to *)
(* its row there, any other to its own row; the same order needs no mapping. *)
NewOrder(ids) ==
  [i \in Rows |->
     IF prev_index # <<>> /\ ids # prev_index /\ i <= Len(ids)
           /\ ids[i] \in ToSet(prev_index)
     THEN CHOOSE j \in 1 .. Len(prev_index) : prev_index[j] = ids[i]
     ELSE i]

UpdateStates ==
  /\ phase = "states"
  /\ states' = NewStates
  /\ batch' = NewBatch
  /\ reorder' = NewOrder(NewBatch.ids)
  /\ prev_index' = NewBatch.ids
  /\ phase' = IF out = <<>> THEN "executed" ELSE "verify"
  /\ UNCHANGED <<requests, queues, locals, output, results, resets, kv, hidden, escaped>>

-----------------------------------------------------------------------------
(* Verify, sample and propose *)

Row(e) == RowOf(batch, e.req)
BlockAt(e, p) == batch.table[Row(e)][p \div BlockSize]
First(e) == num_computed[e.req] - e.n

(* The tokens a row may sample: none in the middle of a prefill, one without *)
(* drafts, one more than the accepted drafts otherwise.                      *)
Samples(e) ==
  IF num_computed[e.req] < num_tokens[e.req] THEN {0} ELSE 1 .. e.spec + 1

(* What the verify leaves at position p: the KV of a rejected draft is Junk. *)
Verified(e, n, p) ==
  IF p < num_tokens[e.req] + AtLeast(n - 1, 0) THEN Content(e.req, p) ELSE Junk

Verify ==
  /\ phase = "verify"
  /\ \E n \in [Requests -> 0 .. NumSpec + 1] :
       /\ \A e \in ToSet(out) : n[e.req] \in Samples(e)
       /\ \A r \in Requests \ Scheduled : n[r] = 0
       /\ sampled' = n
       /\ kv' = [b \in 0 .. NumBlocks |-> [o \in Offsets |->
            LET writes == {w \in {<<e, p>> : e \in ToSet(out), p \in 0 .. MaxModelLen - 1} :
                             /\ First(w[1]) <= w[2] /\ w[2] < num_computed[w[1].req]
                             /\ w[2] % BlockSize = o /\ BlockAt(w[1], w[2]) = b}
            IN  IF writes = {} THEN kv[b][o]
                ELSE LET w == CHOOSE w \in writes : TRUE
                     IN  Verified(w[1], n[w[1].req], w[2])]]
  /\ phase' = "propose"
  /\ UNCHANGED <<requests, queues, locals, output, drafts, resets, states, batch, proposerVars,
                 escaped>>

(* Mutant of Start: the first draft lands on the last accepted token. *)
StartMutant(e) == num_computed[e.req] - Rejected(e) - 1
(* The drafts of a row continue after its last accepted token. *)
Start(e) == num_computed[e.req] - Rejected(e)
InputFitsInDrafter == \A e \in ToSet(out) : num_computed[e.req] + NumSpec <= MaxModelLen
DraftPositions(e) == Start(e) .. Start(e) + NumSpec - 1
DraftSlots(e) == {<<BlockAt(e, p), p % BlockSize>> : p \in DraftPositions(e)}

(* A draft position past the blocks of its request, whose stale table entry  *)
(* names a block other than the null block.                                  *)
Escapes(e) ==
  \E p \in DraftPositions(e) :
    p \div BlockSize >= Len(pool.blocks[e.req]) /\ BlockAt(e, p) # NullBlock

(* propose: every row of the batch drafts, and each draft token's KV goes    *)
(* where the row's block table says, past its nblk entries too.              *)
Propose ==
  /\ phase = "propose" /\ InputFitsInDrafter
  /\ LET written == UNION {DraftSlots(e) : e \in ToSet(out)}
     IN  kv' = [b \in 0 .. NumBlocks |-> [o \in Offsets |->
                  IF <<b, o>> \in written THEN Junk ELSE kv[b][o]]]
  /\ hidden' = [i \in Rows |->
                  IF \E e \in ToSet(out) : Row(e) = i
                  THEN LET e == CHOOSE e \in ToSet(out) : Row(e) = i
                       IN  <<e.req, Start(e)>>
                  ELSE hidden[i]]
  /\ drafts' = Scheduled
  /\ escaped' = (escaped \/ \E e \in ToSet(out) : Escapes(e))
  /\ phase' = "executed"
  /\ UNCHANGED <<requests, queues, locals, output, sampled, resets, states, batch, prev_index,
                 reorder>>

NoPropose ==
  /\ phase = "propose" /\ ~InputFitsInDrafter
  /\ phase' = "executed"
  /\ UNCHANGED <<requests, queues, locals, output, results, resets, workerVars, proposerVars,
                 escaped>>

-----------------------------------------------------------------------------
Client ==
  \/ \E r \in Requests : AddRequest(r) \/ Abort(r)
  \/ \E force \in BOOLEAN : ResetPrefixCache(force)
SchedulerStep ==
  \/ BeginSchedule \/ ScheduleRunning \/ Preempt \/ ScheduleWaiting \/ EndSchedule
  \/ UpdateRequest \/ UpdateDraftTokenIds
WorkerStep == UpdateStates \/ Verify \/ Propose \/ NoPropose
Engine ==
  \/ SchedulerStep /\ UNCHANGED <<workerVars, proposerVars, escaped>>
  \/ WorkerStep

(* has_requests() or in the middle of a step; otherwise the busy loop blocks *)
(* on its input queue.                                                       *)
Busy == phase # "idle" \/ HasRequests
Blocked == ~Busy /\ UNCHANGED vars

Next ==
  \/ Client /\ UNCHANGED <<workerVars, proposerVars, escaped>>
  \/ Engine
  \/ Blocked

Spec == Init /\ [][Next]_vars

(* The engine core's busy loop keeps stepping while there is work: this is   *)
(* WF_vars(Engine), with ENABLED Engine spelled out as Busy.  That the two   *)
(* agree is what the deadlock check shows.  Nothing is assumed of clients.   *)
FairSpec == Spec /\ ([]<>~Busy \/ []<><<Engine>>_vars)

-----------------------------------------------------------------------------
(* Properties *)

(* Every variable keeps its type; in particular no request outgrows          *)
(* max_model_len and the token budget is never overdrawn, as the assertions  *)
(* at the end of schedule() demand.                                          *)
TypeOK ==
  /\ phase \in {"idle", "schedule", "states", "verify", "propose", "executed", "update"}
  /\ status \in [Requests -> {"new", "waiting", "running", "preempted", "finished"}]
  /\ num_tokens \in [Requests -> 1 .. MaxModelLen]
  /\ num_computed \in [Requests -> 0 .. MaxModelLen - 1]
  /\ spec \in [Requests -> 0 .. NumSpec]
  /\ token_budget \in 0 .. MaxBatchedTokens
  /\ Len(running) <= MaxNumSeqs
  /\ kv \in [0 .. NumBlocks -> [Offsets -> {Junk} \union
               {Content(r, p) : r \in Requests, p \in 0 .. MaxModelLen - 1}]]

(* The block pool never loses, duplicates or double-books a block, whatever  *)
(* mix of prefix hits, preemptions, aborts and stops the requests go         *)
(* through: BlockPool's ref_cnt, free queue and hash map agree with          *)
(* req_to_blocks, and blocks are shared only as a common cached prefix.      *)
BlockAccounting == Accounting(pool) /\ SharedOnlyCached(pool)

(* A request is in the queue its status names, exactly once, and only        *)
(* running requests hold blocks: every way to leave (stop, abort during a    *)
(* step, abort between steps, preemption) goes through free.                 *)
QueuesAgree ==
  /\ IsInjective(running \o waiting)
  /\ ToSet(running) = {r \in Requests : status[r] = "running"}
  /\ ToSet(waiting) = {r \in Requests : status[r] \in {"waiting", "preempted"}}
  /\ \A r \in Requests : pool.blocks[r] # <<>> => status[r] = "running"

(* When the model runs, the persistent batch has one row for each scheduled  *)
(* request, and the row's block table lists exactly the blocks the scheduler *)
(* gave it: the increments sent to the worker, the rows moved by condense    *)
(* and the rows re-added after a pause or a preemption add up.               *)
BatchAgrees ==
  phase \in {"verify", "propose"} =>
    /\ Len(batch.ids) = Len(out) /\ ToSet(batch.ids) = Scheduled
    /\ \A e \in ToSet(out) :
         /\ states[e.req] = pool.blocks[e.req]
         /\ batch.nblk[Row(e)] = Len(pool.blocks[e.req])
         /\ \A i \in 1 .. Len(pool.blocks[e.req]) :
              batch.table[Row(e)][i - 1] = pool.blocks[e.req][i]

(* Once a step has told the worker about a finished request, the worker has  *)
(* no state and no row of it; finished_req_ids loses no abort that arrives   *)
(* while a step runs.                                                        *)
WorkerForgets ==
  phase = "idle" =>
    \A r \in Requests : status[r] = "finished" /\ r \notin finished_req_ids
                          => states[r] = <<>> /\ ~InBatch(batch, r)

(* The tokens of r whose KV the engine relies on. *)
Settled(r) ==
  IF phase \in {"propose", "executed", "update"} /\ r \in Scheduled
  THEN num_computed[r] - Rejected(CHOOSE e \in ToSet(out) : e.req = r)
  ELSE num_computed[r]

(* "The draft moves speed only": the KV of every computed token of every     *)
(* running request is the one a verify wrote for it, after each verify (so   *)
(* what it attended over was right), after the drafts, which write into the  *)
(* same cache, and after the rollback of rejected tokens.                    *)
DraftSparesKV ==
  phase \in {"propose", "executed", "update", "idle"} =>
    \A r \in ToSet(running) : \A p \in 0 .. Settled(r) - 1 :
      kv[pool.blocks[r][p \div BlockSize + 1]][p % BlockSize] = Content(r, p)

(* The same, as long as drafts write inside their requests' blocks: prefix   *)
(* hits, preemptions, row moves and rejections never mix up KV, so a stale   *)
(* block-table entry under a draft without lookahead slots is the only way.  *)
KVIntact == ~escaped => DraftSparesKV

(* A block of the prefix cache holds the KV its hash promises outside the    *)
(* window between schedule() and the model run: no draft or rejected token   *)
(* reaches the prefix cache.                                                 *)
CacheHoldsComputed ==
  ~escaped /\ phase \in {"propose", "executed", "update", "idle"} =>
    \A b \in ToSet(pool.cache) :
      LET h == pool.hash[b]
          first == h[2] - BlockSize + 1
      IN  \A o \in Offsets :
            kv[b][o] = IF first + o < SharedLen THEN <<"shared", first + o>>
                       ELSE <<h[1], first + o>>

(* The hidden states from which get_draft_probs recomputes the draft         *)
(* distribution of a request are those of the drafts being verified: its     *)
(* own, from the step that proposed them.                                    *)
DraftProbsOwn ==
  phase = "verify" =>
    \A e \in ToSet(out) :
      e.spec > 0 => hidden[reorder[Row(e)]] = <<e.req, First(e)>>

(* Between steps a request that is past its prefill lacks the KV of exactly  *)
(* its newest token: the advance at scheduling time, the rollback of the     *)
(* rejected drafts and the tokens dropped at a stop cancel out.              *)
CaughtUp ==
  phase = "idle" => \A r \in ToSet(running) :
    /\ num_computed[r] < num_tokens[r]
    /\ ~is_prefill_chunk[r] => num_computed[r] = num_tokens[r] - 1

(* Every request that arrives is finished in the end: preemption, recompute  *)
(* and budget limits delay a request but never starve it.                    *)
AllFinish == \A r \in Requests : status[r] = "waiting" ~> status[r] = "finished"
=============================================================================

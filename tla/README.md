# A TLA+ verification of self-speculative decoding with sparse attention

This directory verifies the sparse-attention self-speculative decoder of this
repository (`vllm/v1/spec_decode/sparse_attn/`) and the concurrent and stateful
parts of the vLLM v1 engine it runs in: scheduler, KV-cache manager and its free
list, worker batch, rejection sampler, CUDA graph dispatch, encoder cache, KV
offloading, the multiprocess executor and its shared-memory ring, micro-batch
threads, and data-parallel waves.

One model both drafts and verifies. There is one KV cache: the draft reads a
selection of it and writes its own tokens' KV straight into it, so what must be
right is *which slots* a draft step reads and writes, *when* state of one round
is reused in the next, and *whose* blocks these slots belong to.

`PROJECT.json` lists every component with what is left out, the source lines of
every definition, the runs, the mutants, and the hazards each property answers.
Paths below are under `vllm/v1/` unless they start with another directory.

## 1. The system and its parts

One engine step of the program is

1. **schedule** (`Scheduler.schedule`): for every running request, as many new
   tokens as it lacks (the drafts of the last step included), KV slots for them
   plus `num_lookahead_tokens`, preempting a running request when the block pool
   is empty; then waiting requests while budget, rows and blocks last. Encoder
   inputs and offloaded prefixes are fitted in here;
2. **broadcast** (`MultiprocExecutor.collective_rpc`): the step goes to the workers
   through a ring in shared memory, and one of them answers;
3. **update the worker batch** (`GPUModelRunner._update_states`): requests leave
   and join rows of the persistent batch, block-table rows are rewritten, moved
   and extended, the proposer's saved hidden states are re-ordered;
4. **verify**: a forward over all scheduled tokens with the full KV, eager or a
   replayed CUDA graph, possibly cut into micro-batches. Every layer's attention
   call goes through the overrider, which scores the prefix and selects the tokens
   the draft will attend over;
5. **sample and reject** (`RejectionSampler`);
6. **propose** (`SparseAttnProposer.propose`): `num_speculative_tokens` draft
   forwards. Each writes the newest token's KV to the cache and attends over the
   selected slots only; layers may be skipped;
7. **aborts** that arrived while the model ran are processed, then **update**
   (`Scheduler.update_from_output`, `update_draft_token_ids`): roll the rejected
   tokens back, append the sampled ones, stop and free requests, keep the drafts.

Async scheduling is refused or disabled for `method="sparse_attn"`
(`vllm/config/vllm.py`), so the steps run in this order, one at a time.

| Part | Source | Modules |
| --- | --- | --- |
| LongSpec overrider, index-to-slot kernel, draft KV, layer skip | `spec_decode/sparse_attn/longspec/`, `attn_overrider/__init__.py` | `LongSpecOverrider`, `LongSpecOverriderProofs` |
| Mass selection kernel | `longspec/kernels/mass_select.py` | `MassSelect` (algorithm), `SelectBarriers` (threads), `RingAndKernelProofs` |
| Vegas and StreamingLLM overriders | `attn_overrider/vegas.py`, `streamingllm.py` | `VegasOverrider`, `StreamingLLMOverrider`, `DraftOverriderProofs` |
| Variable-length top-k kernel | `attn_overrider/utils/varlen_topk.py` | `TopKSelect` (contract), `VarlenTopk` |
| CUDA graph keys and dispatch | `cudagraph_dispatcher.py`, `worker/gpu_model_runner.py`, `proposer.py` | `CudagraphDispatch` |
| Decoding step, rejection sampler | `sample/rejection_sampler.py`, `gpu_model_runner.py`, `scheduler.py` | `AutoregressiveDecoding` (contract), `SpecDecodeStep`, `RejectionSampling`; `SpecDecodeLemmas`, `SpecDecodeProofs`, `RingAndKernelProofs` |
| KV-cache manager, block pool | `core/kv_cache_manager.py`, `single_type_kv_cache_manager.py`, `block_pool.py` | `KVCacheManager` |
| Free list of the block pool | `core/kv_cache_utils.py`, `block_pool.py` | `FreeBlockOrder` (contract), `FreeKVCacheBlockQueue`, `FreeKVCacheBlockQueueProofs` |
| Scheduler, worker batch, engine loop | `core/sched/`, `worker/gpu_input_batch.py`, `worker/block_table.py`, `engine/core.py` | `Scheduler`, `InputBatch`, `SpecEngine` (composition) |
| Encoder cache, multimodal scheduling | `core/encoder_cache_manager.py`, `scheduler.py` | `EncoderCacheManager`, `EncoderScheduling` |
| KV offloading | `kv_offload/`, `vllm/distributed/kv_transfer/kv_connector/v1/offloading_connector.py` | `OffloadStore` (contract), `CPUBackend`, `LRUOffloadingManager`, `ARCOffloadingManager`, `OffloadingConnector` |
| Shared-memory broadcast, executor | `vllm/distributed/device_communicators/shm_broadcast.py`, `executor/multiproc_executor.py` | `BroadcastQueue` (contract), `ShmRingBuffer`, `RingAndKernelProofs`, `MultiprocExecutor`, `ExecutorProofs` |
| Dual-batch overlap | `worker/ubatching.py`, `worker/gpu_ubatch_wrapper.py` | `Ubatching`, `ParallelProofs` |
| Data-parallel waves | `engine/coordinator.py`, `engine/core_client.py`, `engine/core.py` | `DPWaves`, `ParallelProofs` |

A module named `MC...` makes small instances of these for TLC. Most hold several
instances, the *scenarios*: the initial state picks one, and a property says in
which of them it is claimed. Where a theorem and a run state the same property, the
MC module extends the component's module and the property is the component's own.

## 2. Modules

### `LongSpecOverrider`

One round is a verify forward, a rollback and a propose. The variables are the
Python attributes (`in_propose`, `curr_layer`, `metadata_initialized`), the
device buffers (`valid`, `k_min`, `k_max`, `table`, `used`), the gathered copies
(`fresh`, `scratch`), the cache `kv`, and the position of the model's forward
loop (`pc`, `layer`, `step`), which the overrider does not see.

| Action | Code |
| --- | --- |
| `StartVerify` | the runner starts a step on a batch, padded to `MaxBatch` rows |
| `VerifyLayer` | `_verify_attention` at one layer, `_begin_verify` at the first, `_select` at the last |
| `VerifyReplay` | the pass replayed as a CUDA graph: all kernels, no Python |
| `EnterPropose`, `NoPropose` | the rejections, `enter_propose`, `begin_propose`; or no room to draft |
| `DraftLayer` | `_draft_attention` at one layer: KV write, `_begin_draft_layer`, gather or attention skip |
| `SkippedLayer` | `note_skipped_layer` of a wrapped decoder layer |
| `NextDraftStep`, `ExitPropose` | the loop of `propose` and its end |

Data abstraction: the content of a KV slot is *the write that produced it*,
`<<round, 0>>` for a verify pass and `<<round, i + 1>>` for draft step `i`. This
is exactly what "current" means: a stale value is a pair of an earlier write.
`mass_select` is any choice its clamps allow (`Picks`), so the properties hold
whatever the scores are. Rows never share a block here; sharing is the subject
of `SpecEngine`.

### `MassSelect` and `SelectBarriers`

`MassSelect` is the kernel on one row: the radix select by mass, digit by digit
from the top, the clamp to `[k_min, k_max]`, the radix select by count when the
clamp moved the count, and the compaction, in which threads race on two counters
that fill the row from both ends. A float is a numeral of `NumPasses` digits in
base `Base`; the fp32 sum of a histogram may err by up to `Slack` in either
direction, once per pass.

`SelectBarriers` is the same kernel's control flow per thread: zero the
histogram, barrier, count, barrier, thread 0 chooses, barrier, and the loop test
on `st.done`. Each thread has one candidate, which falls into any bucket; a
bucket belongs to the thread that zeroes it. `EarlyEnds` says whether the mass
scan may end before its last pass.

### `KVCacheManager`, `Scheduler`, `InputBatch`, `SpecEngine`

`KVCacheManager` and `InputBatch` are functions on a record of the component's
state; `Scheduler` declares the scheduler's variables and its actions;
`SpecEngine` composes the three with the worker and the proposer.

| Action | Code |
| --- | --- |
| `AddRequest`, `Abort`, `ResetPrefixCache` | `add_request`; `abort_requests`, while idle or after the model has run; `reset_prefix_cache`, with and without preemption |
| `BeginSchedule`, `ScheduleRunning`, `Preempt`, `ScheduleWaiting`, `EndSchedule` | `schedule()`: one step per iteration of its two loops and per victim, and its tail |
| `UpdateStates` | `_update_states` with `update_batch_order`, or the early return when nothing is scheduled |
| `Verify` | KV of the scheduled positions, and how many tokens each row yields |
| `Propose`, `NoPropose` | the draft writes through the block table and the saved hidden states, or no room |
| `UpdateRequest`, `UpdateDraftTokenIds` | `update_from_output` per request, then the drafts |

A KV slot holds the *content* it was computed for: `Content(r, p)`, equal for
two requests inside their common prompt prefix; a block hash is the content of
its last position, so a hit on the right hash with the wrong content is
visible. How many drafts are accepted is any number; a request in `MayStop` may
stop early.

### `VegasOverrider`, `StreamingLLMOverrider`

`VegasOverrider` has the rounds of `LongSpecOverrider` and the same actions. Every
layer selects inside its own verify hook; all layers share one budget per row,
which the draft reuses as its key count; `batch_size` is a Python attribute that a
replayed verify graph does not refresh. The ghost `chosen` records what this
round's verify picked, so a selection of an earlier round or another row shows.
`StreamingLLMOverrider` is `_may_update_attn_metadata` at the first layer of a draft
step (block table of sink and window, lengths shortened *in place*), its reuse by
the later layers, and the proposer rewriting the lengths between steps.

### `TopKSelect`, `VarlenTopk`

The contract is a call and a return that fills the row with a best choice.
`VarlenTopk` is the radix selection on one row: the single-block kernel and the
multi-block sequence of kernels with a workspace that survives the call. The slices
of a histogram are added, and the elements filtered, in every order. `twiddle_in`,
the order-preserving rewriting of float bits, is modelled on small bit patterns.

### `CudagraphDispatch`

Start-up in order (`Resolve` the mode, `InitDrafterKeys`, `AdjustSizes`,
`InitRunnerKeys`, `capture_model`), then any sequence of `Verify` and `Propose`
forwards, each dispatched, padded, and replayed, captured or run eagerly. The
drafter's keys come from the sizes before they are rounded, the runner's after.

### `AutoregressiveDecoding`, `SpecDecodeStep`, `RejectionSampling`

The contract: a request grows by tokens the target may choose after exactly the
tokens before them, and never past its stop. `SpecDecodeStep.Step` is one engine
step on the tokens: packing rows into flat tensors (`SpecDecodeMetadata`'s index
arithmetic), greedy or random rejection, the padded result parsed, the drafter's
next position, the scheduler's roll-back and its cut after a stop: the stop token, the
model's length or the request's `max_tokens` (`min_tokens` above 1 is refused with
speculation, `engine/input_processor.py:190`). Drafts are any
tokens. `RejectionSampling` is one sampled position with exact rational
probabilities.

### `FreeBlockOrder`, `FreeKVCacheBlockQueue`

The contract is the queue that `KVCacheManager` uses. The implementation is the
doubly linked list between a fake head and tail under the pool's `get_new_blocks`,
`touch`, `free_blocks` and the null block's `popleft`; an iteration of a loop is a
step. `append` is called by tests only and is left out.

### `EncoderCacheManager`, `EncoderScheduling`

The manager is operators on a record; `EncoderScheduling` is `schedule()` for
multimodal requests (both loops, `_try_schedule_encoder_inputs`, preemption under
both policies), the worker's own `encoder_cache`, aborts and `reset_encoder_cache`.
KV blocks hold one token; the length of a cached prefix is any of `PrefixHits`.

### `OffloadStore`, `CPUBackend`, `LRUOffloadingManager`, `ARCOffloadingManager`, `OffloadingConnector`

The contract: a block is absent, being stored or ready, and only ready blocks
nobody reads are evicted. Both managers are modelled call by call, used by clients
with a chain of hashes and one load and one store each; `announced` is what a
reader of the events believes; ARC's float target is kept exactly, in twelfths.
`OffloadingConnector` composes the FCFS scheduler and its blocks, the connector's
scheduler side (`get_num_new_matched_tokens`, `build_connector_meta`,
`request_finished`, ...), its worker side, and the copies, which end at any time
while the engine goes on. The contents of a block are the hash of the prefix they
were computed from. The manager there is the LRU one up to its eviction order: any
stored block nobody reads may be the next to go, so `touch` changes nothing, and a
refused `prepare_store` changes nothing. Its properties do not speak for the ARC
manager, whose refused store may have evicted blocks and whose `touch` raises on the
connector's first store (finding 3). A reset that finds blocks still held ends in a
`RuntimeError` for its client (`scheduler.py:1781`); the model has the state it leaves,
not the error.

### `BroadcastQueue`, `ShmRingBuffer`, `MultiprocExecutor`

Every access to a flag or payload of the ring is a step; a payload being written is
`Torn`; the code that uses a chunk may raise on both sides. `MultiprocExecutor`
is `collective_rpc` with futures, deadlines and the batch queue on the engine
thread, the workers' loops and output threads, their deaths and the monitor. Its
message queues are the FIFO queues the ring is shown to implement; the broadcast
queue is taken to be never full, and a broadcast to be atomic with the test of
`is_failed`.

### `Ubatching`

One thread per micro-batch; every call on a `threading.Event` and every access to
the process-wide forward context is a step. `maybe_run_recv_hook`,
`dbo_register_recv_hook` and `_cpu_yield` are the three parts of an all-to-all.

### `DPWaves`

Front-ends, coordinator and engines exchange messages over independent FIFO
sockets (`first_req`, `to_coordinator`, `start_queue`, `add_queue`, `from_engine`,
`to_client`); a forward pass is a collective of all engines (`EnterStep`,
`ForwardPass`), and an all-reduce every `SyncEvery` steps (`has_unfinished_dp`) ends
a wave. `_handle_request_preproc_error` drops a request on arrival.

## 3. What the runs check

`overrider_rounds` (`MCLongSpecOverrider`):

* `DraftReadsCurrent`: every key a draft step attends over is the present KV of
  a position of its own request, and from the rollback point on it is what this
  propose wrote. It would break if `begin_propose` forgot to clear `_fresh`, if
  the metadata flag of an earlier round survived a graph replay, if a rejected
  draft's KV were read, or if the incremental gather missed a column.

`overrider_skips` (`MCLongSpecOverrider`, `MCLongSpecSkip.cfg`):

* `RowExact`: no key twice, none of the sink, the recent range and the tail missing,
  and all of it inside the row. The scored prefix overlaps the verified tokens by
  one, so each is one off-by-one away.
* `LayerAligned`: the call-order counter is the model's layer, through skips,
  replays and the assertions of `enter_propose` and `exit_propose`.

`engine` (`MCSpecEngine`):

* `BooksBalance`: reference counts, free queue, hash map and `req_to_blocks` agree,
  blocks are shared only as a common cached prefix, and a request is in the queue
  its status names.
* `WorkerAgrees`: when the model runs, the worker's rows and block tables are those
  the scheduler decided, through condense, pauses and preemptions, and finished
  requests are forgotten.
* `KVIntact`: the KV of every computed token is the one a verify wrote for it, as
  long as drafts stay inside their blocks (the exception is finding 1), and
  the counts and their roll-backs cancel out.
* `CacheHoldsComputed`: a block in the prefix cache holds what its hash promises.
* `DraftProbsOwn`: draft probabilities come from the hidden states of the drafts
  being verified.
* `AllFinish`: every request that arrives finishes.

`selection` (`MCSelection`, which adds the kernels to `MCDraftOverriders`):

* `VegasRowExact`: each layer of each draft step attends over what this round's
  verify picked at that layer plus the tail, each once, inside the row.
* `BatchRowsExact`: the same in batches of two rows that grow, shrink and are padded;
  and StreamingLLM attends over the sink and the window, each token once: its
  in-place lengths never compound.
* `GraphsServe`: no capture after start-up, no graph smaller than its batch, and
  drafts up to the largest capture size replay one.
* `CountMatchesReference`, `RowIsHeaviest`: `mass_select` settles on the reference
  count, clamped, and its racing compaction fills exactly the columns it should,
  with candidates none of which is lighter than one left out.
* `BlockInStep`: zeroing, counting and choosing of different passes never overlap,
  and the block meets in one barrier at a time.
* `SelectsTopK`: both paths of `varlen_topk` implement `TopKSelect`, over two calls
  that share the workspace.

`spec_decode` (`MCSpecDecode`):

* `Lossless`: `SpecDecodeStep` implements `AutoregressiveDecoding`, whatever the
  drafts are.
* `ComputedIsExact`, `DrafterAgrees`: the KV that counts as computed is that of the
  tokens the request has, and the drafter continues where the scheduler will.
* `BatchesServed`: the same with three rows to a batch, what the runner appends fits
  its row, and every request is served to its stop.
* `EmitsTarget`: rejection sampling emits each token with the target's probability.

`offload` (`MCOffload`):

* `ManagersSound`, `KeepsContract`: the managers' tables, and that both implement
  `OffloadStore`.
* `ReadsOwn`: after every forward a request's blocks hold its own prefix, whether
  computed, hit in the prefix cache or loaded.
* `CopiesSafe`: a copy touches only blocks its request still holds, and what can be
  looked up was written with its own contents.
* `Accounted`: the books of manager and connector agree and no assertion of the
  scheduler fails. `AllFinish`: every request ends.

`executor` (`MCExecutor`):

* `Broadcasts`, `RingDelivers`: the ring implements `BroadcastQueue`, and every
  message reaches every reader.
* `OwnReplies`: what a call returns was computed for that call.
* `CallsReturn`: no call hangs when a method raises, a deadline passes or a worker
  dies.

`parallel` (`MCParallel`):

* `ThreadsSound`: one micro-batch thread runs at a time, under its own context, and
  goes on only after its receive was run. `MainReturns`: the main thread joins all,
  also when one raises.
* `SameCollective`: engines that wait in a collective wait in the same one of the
  same wave. `WavesEnd`: none is left waiting, and all settle in one wave.

`scheduler_caches` (`MCSchedulerCaches`):

* `PoolSound`, `IsQueue`: the links thread exactly the unreferenced blocks in both
  directions, no internal error is raised, and the list implements
  `FreeBlockOrder`.
* `EncoderHit`: every item the model reads is in the worker's cache (the assertion
  of `_gather_mm_embeddings`). `InStep`: the worker holds exactly what is on the
  book, and the book balances. `AllFinish`: none waits for slots for ever.

| Run | Bounds, and why they are enough | Distinct states |
| --- | --- | --- |
| `overrider_rounds` | 1 row, 2 layers, 2 drafts, 2 rounds, gathered draft KV; shapes for a prefill chunk, decodes with 0, 1 and 2 drafts, and a row too near `MaxModelLen` to draft. Two rounds are what reuse of an earlier round's state needs. | 254,826 |
| `overrider_skips` | 2 rows (1 or 2 in use), 3 layers, the first skipped whole and the last one's attention skipped, token pages, 1 round | 9,835 |
| `engine` | `fcfs`: 3 requests with a common first block, 6 blocks of 2 tokens, 2 drafts, an abort, a stop: the pool runs empty, blocks are shared, evicted, cached and preempted. `urgent`: 3 priorities, 4 blocks, 2 rows, budget 4, prefill chunks of 3: the victim may already be scheduled. `reset`: 2 resets at any point between steps | 188,676 |
| `selection` | `layers`: 3 rounds, so that a replayed round lies between two eager ones. `batch`: 2 rows, batches grow and shrink. `stream`: 2 proposes of 3 drafts. `graphs`: capture sizes in the shape of the defaults, maxima below, at and off a multiple of the verify length. `mass`: rows of up to 5 values of 2 binary digits, every floor and cap `_begin_verify` can produce, rounding of 2 either way. `block`: 3 threads, 2 passes. `topk`: 2 calls, rows of up to 3 patterns of 2 bits, 2 blocks per row | 535,253 |
| `spec_decode` | `rows`: 3 requests (greedy, greedy, sampling), 1 draft. `depth`: 2 requests, 2 drafts, a stop token, a preemption. One request of each ends by its `max_tokens`. `odds`: all distributions over 3 tokens in sixths | 3,935 |
| `offload` | `lru`, `arc`: two clients whose chains share their first block over fewer CPU blocks. `ghosts`: a chain that overfills a ghost list. `shared`: an offloaded common prefix, one abort. `tight`: preemption during stores. `reset`: a reset that preempts all | 276,236 |
| `executor` | `ring`: 2 readers, 2 chunks, 2 laps, 1 exception. `batched`, `failures`, `returns`: 2 workers, 2 to 4 calls, a death, raising methods and output threads, deadlines | 220,689 |
| `parallel` | `ubatch`: 3 threads, 4 all-to-alls, so that the ring of events closes. `raise`: 2 threads. `waves`: 2 engines, 2 front-ends, 2 requests, all-reduce every 2 steps: a request races the end of a wave. `faults`: a refused request, a late front-end | 169,280 |
| `scheduler_caches` | `pool`: 4 blocks, 2 references. `fcfs`, `priority`: 3 requests, 3 items that do not fit the cache together, one carried twice | 187,770 |

Requests are distinguishable (lengths, priorities, chains), so no symmetry is used.
Deadlock is checked except where the program really stops: the LongSpec runs end
after `MaxRounds`, an engine whose executor failed ends (`executor`), and joined
threads end (`parallel`).

Where a property is claimed of some scenarios only, the others lead to a
disagreement of section 4: `CacheHoldsComputed` leaves out `urgent`, `DraftProbsOwn`
the short budget of `urgent`, `OwnReplies` is stated for steps where methods raise,
`ReadsOwn`, `CopiesSafe` and `NoAssert` leave out `reset`, `WavesEnd` leaves out
`faults`, and the `priority` scenario of the encoder has blocks for all.

### Fairness

* `engine`, `spec_decode`, `offload`, `scheduler_caches`: the engine core's busy
  loop keeps stepping while a step is under way or `has_requests()` holds
  (`run_busy_loop`). It is weak fairness of the engine's step with the enabling
  condition written out; the deadlock check shows that the two agree. Copies under
  way make progress. Nothing is assumed of clients: requests may or may not come,
  aborts may never come.
* `executor`: writer and readers of the ring spin, the engine thread polls while it
  waits, live workers loop, the monitor runs. No fairness for death, exceptions or
  deadlines.
* `parallel`: the operating system runs every thread that is not blocked; sockets
  deliver and pollers return. `WavesEnd` assumes a front-end that forwards its
  FIRST_REQ before it reads two newer states (`SlowFrontEnd` is `FALSE`): the message
  is tagged with the wave at the time it is forwarded (`core_client.py:1152`).

## 4. Findings

Each is a run in which TLC violates what a line of the repository says;
`PROJECT.json` quotes the line.

1. `engine_lookahead` (`core/sched/scheduler.py:705`): a request's first step
   reserves no lookahead slots, yet it drafts in that step. The drafts' KV goes
   through the block-table entries past its blocks, which still name the blocks of
   the row's previous occupant, so computed KV of another request can be overwritten.
2. `select_barriers_early` (`longspec/kernels/mass_select.py:297`): thread 0 clears
   `st.done` while other threads may not have read it in the loop test. If the mass
   scan ended early they enter the loop again and the block's barriers no longer match.
3. `offload_touch` (`kv_offload/arc_manager.py:93`): `touch` of a block of `t1` that is
   not ready pops it and then moves the popped key to the end, which raises `KeyError`;
   the block and its CPU slot are lost. The connector touches a request's blocks right
   after `prepare_store` put new ones into `t1` (`offloading_connector.py:446`), so with
   the ARC manager every store it makes raises. The `arc` scenarios of `offload` have
   clients that touch ready blocks only (`TouchesUnready = FALSE`), a guard the code does
   not have: they show the manager sound under such clients, not under this connector.

### Known disagreements without a run of their own

The passing runs keep clear of the following by their constants. Each was seen as a
counterexample when the property was checked with the constants given.

| Where | What the code does | Property and constants |
| --- | --- | --- |
| `sparse_attn/proposer.py:273` | a request left out of one step by the token budget loses its row; on return its draft probabilities are read from its new row, where another drafted | `SpecEngine!DraftProbsOwn`, `MaxBatchedTokens` 3, 2 requests, 8 blocks |
| `scheduler.py:443` | a priority victim scheduled in the same call leaves blocks in the prefix cache that are never computed | `SpecEngine!CacheHoldsComputed`, scenario `urgent` with `EnableCaching` |
| `mass_select.py:275` | with `theta >= 1` and no mass missing no candidate is selected; the docstring says all | `MassSelect!ThetaOneSelectsAll`, `ThetaNum = ThetaDen = 8` |
| `proposer.py:225` | drafts are sampled with penalties, their probabilities recomputed without | `RejectionSampling!EmitsTarget`, `Penalties = TRUE` |
| `proposer.py:182` | the drafter keeps keys above the rounded maximum, which dispatch never reaches | `CudagraphDispatch!KeysAreReachable`, scenario `graphs` |
| `cudagraph_dispatcher.py:135` | mode FULL with unrounded sizes fails the divisibility assertion | `CudagraphDispatch!PaddedSizeDivides`, scenario `graphs` |
| `multiproc_executor.py:357` | after a FAILURE the later queues' replies stay unread and answer the next call | `MultiprocExecutor!OwnReplies`, `AsyncOutput = FALSE`, `MaxFails` 1, `MaxCalls` 3 |
| `multiproc_executor.py:355` | the replies of a timed-out call answer the next one | `OwnReplies`, `Timeouts = TRUE`, `OutputRank` 1 |
| `multiproc_executor.py:843` | an exception in the output thread ends it silently; a draining call waits for ever | `CallsReturn`, `AsyncOutput`, `Timeouts`, `OutputErrors` all `TRUE`, `MaxFails` 1 |
| `engine/core.py:1205` | when the first request of a wave fails preprocessing, its engine never starts and the others block | `DPWaves!StepsComplete`, 1 client, `MaxDropped` 1 |
| `worker/ubatching.py:103` | a thread that raises signals the next once; without hooks the other then waits for ever | `Ubatching!AllJoined`, 2 threads, `UseHooks = FALSE`, `Yields` 2, `MaxRaises` 1 |
| `scheduler.py:456` | a priority victim's encoder item stays booked without having been encoded | `EncoderScheduling!EncoderHit`, `Priority = TRUE`, 7 blocks |
| `scheduler.py:1184` | an unmasked item right after the chunk is skipped although the drafter reads it | `EncoderHit`, `shift` 1 |
| `scheduler.py:1154` | an item that starts at the current position is scheduled in part | `EncoderScheduling!ItemsWhole`, `disable_chunked_mm_input = TRUE` |
| `kv_offload/lru_manager.py:72` | `prepare_store` may evict a block it was just given | `LRUOffloadingManager!GivenKept`, `num_blocks` 2 |
| `kv_offload/arc_manager.py:162` | a `prepare_store` that gives up has evicted blocks and reports none | `ARCOffloadingManager!EventsTrue`, scenario `arc` |
| `scheduler.py:1765` | a reset that preempts does not tell the connector; deferred stores copy overwritten blocks | `OffloadingConnector!ReadyWritten`, `MaxResets` 1, three chains |
| `offloading_connector.py:534` | an aborted request with an empty set of stores is reported sent while its load runs | `OffloadingConnector!NoAssert`, 4 GPU and 6 CPU blocks, `MaxAborts` 1, no prefix caching |
| `scheduler.py:726` | two waiting requests with loaded prefixes can fill the GPU; nothing is preempted for them | `AllFinish`, 4 GPU and 4 CPU blocks, `Warm = {a, b, d, e}` |

Seen while reading, in code that is not modelled: the drafter's
`_determine_batch_execution_and_padding` ignores `use_cudagraphs` and calls
`coordinate_batch_across_dp` without its required `allow_dp_padding`;
`token_arange_np` is one element short for the largest batch.

## 5. What is proved

For every value of the constants, by TLAPS. "Under" names the hypothesis, explained
below, where there is one besides the assumptions of the component's module:

| Module | Theorem | Statement | Under |
| --- | --- | --- | --- |
| `LongSpecOverriderProofs` | `LayerIdentity` | `Spec => []LayerAligned` | |
| | `TypeCorrect` | `Spec => []TypeOK` | |
| | `ReadsCurrent` | `Spec => []DraftReadsCurrent` | |
| | `RowIsExact` | `Spec => []RowExact`, from `RowWide`, `ReadsOnce`, `ReadsTail` | |
| `DraftOverriderProofs` | `VegasDraftsExactly` | `Spec => []VegasRowExact` | |
| | `StreamReadsWindow` | `Stream!Spec => [](ReadsSinkAndWindow /\ FitsBlockTable)` | `Windowed` |
| `SpecDecodeProofs` | `ComputedStaysExact` | `Spec => []ComputedIsExact` | `Setting` |
| | `DrafterStaysWithScheduler` | `Spec => []DrafterAgrees` | `Setting` |
| | `RunnerAppendsFit` | `Spec => []AppendsFit` | `Setting` |
| | `DecodingIsLossless` | `Spec => Lossless`: the step implements `AutoregressiveDecoding` | `Setting` |
| `RingAndKernelProofs` | `RingReadsWhole` | `Spec => []ReadsWhole`: what a reader takes is a whole message, the next one | |
| | `RingBroadcasts` | `Spec => Broadcasts`: the ring implements `BroadcastQueue` | |
| | `BlockStaysInStep` | `Block!Spec => []BlockInStep` | `Launch` |
| | `SpeculationIsLossless` | `Odds!Spec => []EmitsTarget` | `Setting`, no penalties |
| `ExecutorProofs` | `CallsGetTheirOwn` | `Spec => []OwnReplies` | `Deployed`, `MaxFails = 0` |
| | `StepsGetTheirOwn` | `Spec => []StepReplies` | `Deployed`, `OutputRank = 1` |
| `ParallelProofs` | `UbatchThreadsSound` | `Spec => []ThreadsSound`, from `UbatchOneRuns`, `UbatchYieldAsserts`, `UbatchReceiveDone` | |
| | `WavesSameCollective` | `Waves!Spec => []SameCollective` | `Deployment` |
| `FreeKVCacheBlockQueueProofs` | `PoolIsSound` | `Spec => []PoolSound`, from `FreeListIsSound`, `FreeListNoCallerBug` | |
| | `FreeListIsQueue` | `Spec => IsQueue`: the linked list implements `FreeBlockOrder` | |

Five of these are stated by the runs per scenario, in the MC module: `BlockInStep`,
`EmitsTarget`, `OwnReplies` (with `StepReplies`), `SameCollective` and, inside
`BatchRowsExact`, StreamingLLM's. The hypotheses hold of those scenarios.

Every theorem has the same shape: an inductive invariant, one lemma per action that
the action preserves it, and the property as a consequence.

### The LongSpec overrider

**Assumptions.** `SizeAssumption`: sizes are positive, ranges natural numbers.
`ModeAssumption`: the two skip sets are disjoint sets of layers (`config.py`
checks this), every request row has at least one query. `BlockAssumption`: each
position of each row has a slot and no two share one. The last excludes prefix
sharing between rows of a batch.

**Argument.** None of the properties is inductive: what a draft step reads was
selected in the verify pass, converted at the first draft layer and gathered
over several steps. `IInv` says what each of these stages has established:

* `BatchInv`, `PrefixInv`: the batch is requests then padding, and from the first
  verify layer on the prefix lengths are those of the batch being verified;
* `SelectedInv`: until the conversion, a row lists distinct positions of the
  prefix, the reserved ranges among them, at most `MaxTokens + Reserved`;
* `DraftInv`: the rollback point is in `valid .. valid + NumSpec`, the sequence
  length follows the step, the flag is set exactly once a step has begun;
* `ConvertedInv`: afterwards the row is `Picked` slots of the prefix and then the
  slots of every position up to the last draft token. `Picked`, the columns used
  minus the tail so far, does not change during a propose;
* `DraftedInv`, `ScratchInv`: the drafted KV is in the cache of every layer that
  runs, and a layer's scratch equals the cache on the columns it has attended to.

The heart is `DraftWrite`: a draft step writes position `start + step` of each
row, and by `BlockAssumption` no earlier column points there, so the copies
gathered in earlier steps remain equal to the cache and gathering the newest
column is enough. `RowWide` rests on `start - valid <= NumSpec`: the tail is at
most `2 * NumSpec`, the summand the constructor adds. There is one lemma per
action and one step per conjunct it can disturb. `IInv` itself was checked with
TLC on the instances of `overrider_rounds` and `overrider_skips`, the latter with
token pages and with gathered KV.

### The ring

`RingAssumption`: at least one chunk; any set of readers, any number of laps and
exceptions. The flags alone do not say which message they speak of. `Published(c)`
and `Marked(r, c)` compute, from the positions of the writer and of a reader, the
lap in which a chunk was last published and last read. The invariant: the writer is
at most one lap ahead of every reader and never behind (`Apart`); an unwritten
chunk has been read by all, and in a written one the flags tell who has read this
lap (`Flags`); and what the writer's partial scan and a reader's loaded flag have
established still holds when they act on it (`WriterAt`, `ReaderAt`). The last two
make the unlocked protocol work: only the owner of a flag moves it in the direction
that could hurt. The refinement maps publishing to `Write` and marking to `Read`.

### The micro-batch threads

`UbatchAssumption`: at least two threads. The invariant is one token: it is with the
one running thread or in the one event that is set (`Token`, `Started`); the running
thread's context is the installed one (`Context`); and a receive hook is pending only
between its owner's registration and the moment the token, which the owner hands
straight to the hook's keeper, is used by it to run the hook (`Hooks`).

### The free list

`PoolAssumption`: at least one block. At every step, inside the loops too, there is a
list which the links thread: all of it between operations, from its first block on
while `popleft_n` is at work (the fake head's link is stale), up to its last block
while `append_n` is (the fake tail's is). Its blocks are the free ones, less those
already popped or still to be appended. `UnlinkList` and `TailFacts` are what
removing a node from the middle and walking the list need. The callers' block lists
have no duplicates, as those of `KVCacheManager` have none.

The refinement maps the links to the sequence `Listed` that walking them yields. The
walk is a recursive function of the number of blocks still to visit; by induction on it
the walk from the first block is the list of the invariant (`WalkIs`). An allocation is
a step of the queue when `popleft_n` starts, a free when `append_n` ends, a prefix hit at
each `remove`; every other step leaves `Listed` and `Allocated` alone.

### Vegas

`VegasOverrider` assumes what `LongSpecOverrider` does: positive sizes, the query
tokens of a row are the last of its keys, and no two positions share a slot.
`VegasInv` follows a row of the page table through its two forms. From the layer's
verify hook to the first draft layer it lists the picked positions in order
(`WaitingInv`); from then on the slots of the picks followed by those of every
position from the scored prefix to the last draft token, and the key count is the
number of these up to the step (`SlotsInv`). `ControlInv` says that `curr_layer` is
the model's layer and that `batch_size`, which a replayed graph does not refresh, is
the batch's wherever it is read; `DraftInv` that the flag is down until the first
layer of the first step, so that the conversion runs exactly once per propose.
`OrderedFacts` shows that any finite set of positions can be listed in order, by
induction on a bound; `SlotsRowReads` turns the second form into the property.

### StreamingLLM

`StreamInv`: before the first layer of a step the lengths are those the proposer
wrote, after it they are the `Cut` of these and the row names the sink block and the
window's blocks. `KeyPosition`, `KeysDiffer` and `WindowIsRead` show that the keys of
the shortened length are a bijection with the tokens of the window; they rest on a
few lemmas about `\div` and `%`. `Windowed` asks for a table of at least two block
columns. The proof showed the need: with one column no block is left for the window,
and the length is cut to the number of tokens in the newest block, which the kernel
then counts from the start of the sink block. The default budget is far from it.

### The decoding step

`Setting`: finitely many requests, nonempty prompts that fit `MaxModelLen`, and a
target model whose choices are tokens of the vocabulary; any number of drafts and of
preemptions. `DecodeInv` says of an unfinished request that it has a token without
KV, that what counts as computed is exact, that the runner's count of tokens is the
scheduler's, and that the drafter stands where the scheduler does.

`SpecDecodeLemmas` follows the data through one step. `Cumsum` and the index
arithmetic of `_calc_spec_decode_metadata` lay the rows of a batch one behind the
other, so that each row finds its own drafts and each draft the logits of the context
it stands after; so a row that accepts, rejects or adds its bonus token keeps a run of
the target's choices; so the scheduler's cut after a stop leaves a run of plain
decoding. `SpecDecodeProofs` takes a step apart into rows (`RowNext`) and shows it of
a prefill chunk (`DiscardedRow`) and of a row that emits tokens (`SampledRow`).
`DecodingIsLossless` maps a step to one step of the contract in which each request of
the batch grows by such a run.

### Rejection sampling

`Setting`: a finite vocabulary with token 0, weights with a positive total, and a
scale divisible by every possible denominator, so that the model's probabilities are
exact. The laws of `Sum` (monotone, additive, over a split) are proved along the fold
that defines it, by induction on finite sets. What is accepted of a token is the
smaller of its two weights; what is rejected in all is the mass the residual has; so
acceptance and recovery together give the target's weight. Penalties are excluded:
with them the property fails (section 4).

### The kernel's barriers

`Launch`: a finite block with its thread 0, at least one digit pass, and a mass scan
that runs through all its passes (the other case is finding 2). `BlockInv` is a
disjunction of the phases of a pass (`Starting`, `Zeroing`, `Counting`, `Choosing`,
`Clamping`, `Leaving`, `Testing`, `Satisfied`). Each says at which two places the
threads of the block can be, that all are in the same pass, and how much of the
histogram has been zeroed or counted; a step stays in its phase or, at the last
thread to pass a barrier, goes to the next.

### The executor

`Deployed`: at least one worker, and no deadline passes (a timed-out call leaves its
replies behind, section 4). A reply does not say which call it answers. `ExecInv`
says that the calls a worker owes an answer pass through its queues in the order in
which they were made (`InOrder`), that each is somewhere on its way (`OnTheWay`), and
that what the engine reads next is the answer to the oldest (`Oldest`). A failed call
leaves replies behind in every queue but the first; hence the ranks followed are all
of them where no method raises, and the first one otherwise.

### Data-parallel waves

`Deployment`: at least one engine, an all-reduce every one or more steps; front-ends,
requests, refused requests and slow front-ends are unrestricted. `WaveInv`: all
engines are in the same wave (`Together`), which is the latest: nothing that a process
knows or a socket carries is of a later one, and a "wave complete" is of an earlier
one (`Known`); and engines between two forward passes are equally far from the next
all-reduce (`Lockstep`). So no message, however late, moves one engine alone.

`IInv`, `ExecInv` and the invariants of the ring, the micro-batch threads and the free
list were checked with TLC on small instances before they were proved.

## 6. What is only model-checked

* Liveness (`AllFinish`, `RingDelivers`, `CallsReturn`, `MainReturns`, `WavesEnd`, and
  that `BatchesServed` serves every request): it needs fairness and `ENABLED`, which the
  prover does not reach.
* What the radix selects compute (`CountMatchesReference`, `RowIsHeaviest`,
  `SelectsTopK`): these speak of sums and counts of digits over rows of any length.
  Where the proofs above need induction over data (`Sum`, `Cumsum`, ordered selections,
  the walk along the free list), it is on a natural number or a finite set, for a
  predicate given as a set.
* The engine and the encoder (`BooksBalance`, `WorkerAgrees`, `KVIntact`,
  `CacheHoldsComputed`, `DraftProbsOwn`, `EncoderHit`, `InStep`), the offloading managers
  and connector (`ManagersSound`, `ReadsOwn`, `CopiesSafe`, `Accounted`,
  `KeepsContract`) and `GraphsServe`. Nothing puts them out of the prover's reach in
  principle. Their invariants span the whole scheduler, and the operators they are built
  from recurse over queues.
* `OwnReplies` where methods raise and the step's rank is not the first.
* Also checked once, on larger instances than the runs keep: the waves with 2 engines,
  1 front-end and 3 requests, with 3 engines, 1 front-end and 2 requests, and with faults
  and 3 requests (949 thousand states); `returns` of the executor with 3 calls.

## 7. Mutants

Every property of every passing run is paired with a mutant of a definition: a
`...Mutant` operator beside the original, changed the way a plausible bug in that
code would be (a flag not cleared, an off-by-one in the tail, a block not
returned, a barrier missing). Putting it in the original's place makes TLC report
the property violated.

## 8. What is not modelled

* Numbers: attention, scores, draft weights, logprobs. Scores enter as any selection
  the clamps allow, model outputs as any tokens or small exact weights.
* Async scheduling, pipeline parallelism, LoRA, structured output, streaming
  sessions, hybrid KV groups, sliding-window and Mamba managers, other KV connectors:
  refused by the configuration of this method or not reached by it.
* In the scheduler models: `Scheduler` has no encoder inputs and no connector,
  `EncoderScheduling` no drafts, encoder-decoder models, EC connector or
  `long_prefill_token_threshold`, `OffloadingConnector` only FCFS, one-token blocks and
  one output token per request. Failed transfers are asserted away by the code.
* In the executor: start-up, `kv_output_aggregator`, the overflow socket and remote
  readers of `MessageQueue`; `execute_model` and `sample_tokens` are one call.
* In dual-batch overlap: streams and device events. In data parallelism: load
  statistics, elastic scale-up, pausing and aborts; the all-reduce is atomic.
* Score kernels, packed verify attention (a reshape around a kernel), statistics and
  kernel probing: no state that anything reads back.

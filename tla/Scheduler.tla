----------------------------- MODULE Scheduler ------------------------------
(***************************************************************************)
(* vllm/v1/core/sched/scheduler.py as the engine loop of engine/core.py    *)
(* drives it: requests join and are aborted, schedule() picks the tokens   *)
(* of a step, update_from_output and update_draft_token_ids fold the       *)
(* step's result back.  One action per iteration of schedule()'s loops.    *)
(* Left out: encoder inputs, LoRA, KV connectors, structured output,       *)
(* streaming sessions; with synchronous scheduling num_output_placeholders *)
(* is always 0.                                                            *)
(***************************************************************************)
EXTENDS KVCacheManager, TLC

CONSTANTS
  MaxNumSeqs,             \* max_num_running_reqs
  MaxBatchedTokens,       \* max_num_scheduled_tokens
  LongPrefillThreshold,   \* long_prefill_token_threshold, 0 when unset
  NumSpec,                \* num_speculative_tokens = num_lookahead_tokens
  PromptLen, MaxTokens,   \* of every request
  Policy,                 \* "fcfs" or "priority"
  Priority,               \* of every request, a smaller value goes first
  MayAbort, MayStop,      \* requests a client aborts; that sample a stop token
  MaxResets               \* bound on reset_prefix_cache calls

VARIABLES
  phase,            \* where the engine is in its step
  status,           \* request.status; "new" before it arrives
  num_tokens, num_computed, spec, is_prefill_chunk,   \* of the request
  waiting, running, finished_req_ids, pool,           \* of the scheduler
  token_budget, req_index, num_new, preempted,        \* locals of schedule()
  out,              \* scheduler output: what the step computes, in order
  gone,             \* scheduler output: finished_req_ids
  sampled,          \* model output: number of tokens sampled
  drafts,           \* model output: requests with draft tokens
  resets            \* number of reset_prefix_cache calls

requests == <<status, num_tokens, num_computed, spec, is_prefill_chunk>>
queues == <<waiting, running, finished_req_ids, pool>>
locals == <<token_budget, req_index, num_new, preempted>>
output == <<out, gone>>
results == <<sampled, drafts>>
schedVars == <<phase, requests, queues, locals, output, results, resets>>

SchedulerInit ==
  /\ phase = "idle"
  /\ status = [r \in Requests |-> "new"]
  /\ num_tokens = PromptLen
  /\ num_computed = [r \in Requests |-> 0]
  /\ spec = [r \in Requests |-> 0]
  /\ is_prefill_chunk = [r \in Requests |-> FALSE]
  /\ waiting = <<>> /\ running = <<>> /\ finished_req_ids = {}
  /\ pool = EmptyPool
  /\ token_budget = 0 /\ req_index = 1 /\ num_new = 0 /\ preempted = FALSE
  /\ out = <<>> /\ gone = {}
  /\ sampled = [r \in Requests |-> 0] /\ drafts = {}
  /\ resets = 0

Without(queue, r) == SelectSeq(queue, LAMBDA x : x # r)

(* The waiting queue is a deque or a heap on the priority; a preempted       *)
(* request goes to the head of the one and to its place in the other.        *)
ByPriority(r, s) == Priority[r] < Priority[s]
Enqueue(r) ==
  IF Policy = "priority" THEN SortSeq(Append(waiting, r), ByPriority)
  ELSE Append(waiting, r)
(* Mutant of Requeue: the preempted request is not put back. *)
RequeueMutant(r) == waiting
Requeue(r) == IF Policy = "priority" THEN Enqueue(r) ELSE <<r>> \o waiting

-----------------------------------------------------------------------------
(* Requests from outside *)

AddRequest(r) ==
  /\ phase = "idle" /\ status[r] = "new"
  /\ status' = [status EXCEPT ![r] = "waiting"]
  /\ waiting' = Enqueue(r)
  /\ UNCHANGED <<phase, num_tokens, num_computed, spec, is_prefill_chunk, running,
                 finished_req_ids, pool, locals, output, results, resets>>

(* finish_requests, between steps or, for the aborts that arrived while the  *)
(* model executed, before its output is processed (_process_aborts_queue).   *)
Abort(r) ==
  /\ phase \in {"idle", "executed"} /\ r \in MayAbort
  /\ status[r] \in {"waiting", "running", "preempted"}
  /\ status' = [status EXCEPT ![r] = "finished"]
  /\ running' = Without(running, r)
  /\ waiting' = Without(waiting, r)
  /\ finished_req_ids' = finished_req_ids \union {r}
  /\ pool' = Free(pool, r)
  /\ UNCHANGED <<phase, num_tokens, num_computed, spec, is_prefill_chunk, locals,
                 output, results, resets>>

(* reset_prefix_cache: with reset_running_requests every running request is  *)
(* preempted first, the last one first, so that they queue in their order.   *)
ResetPrefixCache(force) ==
  /\ phase = "idle" /\ resets < MaxResets
  /\ resets' = resets + 1
  /\ LET victims == IF force THEN running ELSE <<>>
         Mark(f, v) == [r \in Requests |-> IF r \in ToSet(victims) THEN v ELSE f[r]]
     IN  /\ pool' = DropHashes(FoldLeft(Free, pool, Reverse(victims)))
         /\ running' = IF force THEN <<>> ELSE running
         /\ waiting' = IF Policy = "priority" THEN SortSeq(victims \o waiting, ByPriority)
                       ELSE victims \o waiting
         /\ status' = Mark(status, "preempted")
         /\ num_computed' = Mark(num_computed, 0)
         /\ spec' = Mark(spec, 0)
  /\ UNCHANGED <<phase, num_tokens, is_prefill_chunk, finished_req_ids, locals, output,
                 results>>

-----------------------------------------------------------------------------
(* schedule() *)

HasRequests == running # <<>> \/ waiting # <<>> \/ finished_req_ids # {}

BeginSchedule ==
  /\ phase = "idle" /\ HasRequests
  /\ phase' = "schedule"
  /\ token_budget' = MaxBatchedTokens
  /\ UNCHANGED <<requests, queues, req_index, num_new, preempted, output, results, resets>>

Chunk(n) ==
  AtMost(IF 0 < LongPrefillThreshold /\ LongPrefillThreshold < n
         THEN LongPrefillThreshold ELSE n,
         token_budget)

(* num_new_tokens of a running request is fixed before its allocation loop.  *)
(* It is never 0 here, or the deadlock check would stop at ScheduleRunning:  *)
(* the branch that skips such a request serves encoder inputs and async      *)
(* scheduling.                                                               *)
NewTokens(r) ==
  IF num_new > 0 THEN num_new
  ELSE AtMost(Chunk(num_tokens[r] + spec[r] - num_computed[r]),
              MaxModelLen - 1 - num_computed[r])
RunningLeft == req_index <= Len(running) /\ token_budget > 0
Fits(r) == CanAllocate(pool, r, num_computed[r], <<>>, NewTokens(r), NumSpec)

ScheduleRunning ==
  /\ phase = "schedule" /\ RunningLeft
  /\ LET r == running[req_index]
         n == NewTokens(r)
     IN  /\ n > 0 /\ Fits(r)
         /\ pool' = AllocateSlots(pool, r, num_computed[r], <<>>, n, NumSpec,
                                  num_tokens[r])
         /\ out' = Append(out,
              [req |-> r, n |-> n, kind |-> "running",
               spec |-> AtMost(spec[r], AtLeast(num_computed[r] + n - num_tokens[r], 0)),
               new |-> SubSeq(pool'.blocks[r], Len(pool.blocks[r]) + 1,
                              Len(pool'.blocks[r]))])
         /\ spec' = [spec EXCEPT ![r] = 0]
         /\ token_budget' = token_budget - n
  /\ req_index' = req_index + 1
  /\ num_new' = 0
  /\ UNCHANGED <<phase, status, num_tokens, num_computed, is_prefill_chunk, waiting,
                 running, finished_req_ids, preempted, gone, results, resets>>

Victim ==
  IF Policy = "priority"
  THEN CHOOSE v \in ToSet(running) : \A u \in ToSet(running) : Priority[u] <= Priority[v]
  ELSE Last(running)
ScheduledTokens(r) ==
  FoldLeft(LAMBDA acc, e : IF e.req = r THEN e.n ELSE acc, 0, out)

(* No blocks for the request: one turn of the allocation loop preempts a     *)
(* victim and, when that is the request itself, gives up on this step.       *)
Preempt ==
  /\ phase = "schedule" /\ RunningLeft
  /\ LET r == running[req_index]
         v == Victim
         undone == ScheduledTokens(v)
     IN  /\ ~Fits(r)
         /\ running' = Without(running, v)
         /\ pool' = Free(pool, v)
         /\ status' = [status EXCEPT ![v] = "preempted"]
         /\ num_computed' = [num_computed EXCEPT ![v] = 0]
         /\ spec' = [spec EXCEPT ![v] = 0]
         /\ waiting' = Requeue(v)
         /\ out' = SelectSeq(out, LAMBDA e : e.req # v)
         /\ token_budget' = token_budget + undone
         /\ req_index' = IF v = r THEN Len(running)
                         ELSE IF undone > 0 THEN req_index - 1 ELSE req_index
         /\ num_new' = IF v = r THEN 0 ELSE NewTokens(r)
  /\ preempted' = TRUE
  /\ UNCHANGED <<phase, num_tokens, is_prefill_chunk, finished_req_ids, gone, results, resets>>

(* The head of the waiting queue joins: prefix-cache hits, then the rest of  *)
(* its tokens as far as the budget goes.  effective_lookahead_tokens is 0,   *)
(* because num_computed_tokens is 0 for every waiting or preempted request.  *)
Hits(r) == ComputedBlocks(pool, r, num_tokens[r])
JoinTokens(r) == Chunk(num_tokens[r] - Len(Hits(r)) * BlockSize)
EffectiveLookahead(r) == IF num_computed[r] = 0 THEN 0 ELSE NumSpec
CanScheduleWaiting ==
  /\ ~preempted /\ waiting # <<>> /\ token_budget > 0 /\ Len(running) # MaxNumSeqs
  /\ LET r == Head(waiting)
     IN  CanAllocate(pool, r, Len(Hits(r)) * BlockSize, Hits(r), JoinTokens(r),
                     EffectiveLookahead(r))

ScheduleWaiting ==
  /\ phase = "schedule" /\ ~RunningLeft /\ CanScheduleWaiting
  /\ LET r == Head(waiting)
         hit == Len(Hits(r)) * BlockSize
         n == JoinTokens(r)
     IN  /\ pool' = AllocateSlots(pool, r, hit, Hits(r), n, EffectiveLookahead(r),
                                  num_tokens[r])
         /\ running' = Append(running, r)
         /\ out' = Append(out,
              [req |-> r, n |-> n, spec |-> 0, new |-> pool'.blocks[r],
               kind |-> IF status[r] = "preempted" THEN "resumed" ELSE "new"])
         /\ status' = [status EXCEPT ![r] = "running"]
         /\ num_computed' = [num_computed EXCEPT ![r] = hit]
         /\ token_budget' = token_budget - n
  /\ waiting' = Tail(waiting)
  /\ req_index' = req_index + 1
  /\ UNCHANGED <<phase, num_tokens, spec, is_prefill_chunk, finished_req_ids, num_new,
                 preempted, gone, results, resets>>

(* The loops are over: _update_after_schedule, and the locals disappear. *)
EndSchedule ==
  /\ phase = "schedule" /\ ~RunningLeft /\ ~CanScheduleWaiting
  /\ num_computed' = [r \in Requests |-> num_computed[r] + ScheduledTokens(r)]
  /\ is_prefill_chunk' =
       [r \in Requests |-> IF ScheduledTokens(r) = 0 THEN is_prefill_chunk[r]
                           ELSE num_computed'[r] < num_tokens[r]]
  /\ gone' = finished_req_ids
  /\ finished_req_ids' = {}
  /\ phase' = "states"
  /\ token_budget' = 0 /\ req_index' = 1 /\ num_new' = 0 /\ preempted' = FALSE
  /\ UNCHANGED <<status, num_tokens, spec, waiting, running, pool, out, results, resets>>

-----------------------------------------------------------------------------
(* update_from_output, one request of the output at a time *)

Rejected(e) ==
  IF e.spec > 0 /\ sampled[e.req] > 0 THEN e.spec - (sampled[e.req] - 1) ELSE 0
MaxLen(r) == AtMost(MaxModelLen, PromptLen[r] + MaxTokens[r])

(* Tokens are appended until one stops the request: a length limit, or, at   *)
(* any of them, a stop token.                                                *)
UpdateRequest ==
  /\ phase \in {"executed", "update"} /\ out # <<>>
  /\ phase' = "update"
  /\ out' = Tail(out)
  /\ LET e == Head(out)
         r == e.req
         most == AtMost(sampled[r], MaxLen(r) - num_tokens[r])
     IN  \/ /\ status[r] = "finished"
            /\ UNCHANGED <<requests, queues>>
         \/ /\ status[r] # "finished"
            /\ num_computed' = [num_computed EXCEPT ![r] = @ - Rejected(e)]
            /\ \E kept \in 0 .. most, eos \in {FALSE, (r \in MayStop)} :
                 LET stopped == eos \/ num_tokens[r] + kept >= MaxLen(r)
                 IN  /\ eos => kept > 0
                     /\ ~eos => kept = most
                     /\ num_tokens' = [num_tokens EXCEPT ![r] = @ + kept]
                     /\ IF kept > 0 /\ stopped
                        THEN /\ status' = [status EXCEPT ![r] = "finished"]
                             /\ running' = Without(running, r)
                             /\ finished_req_ids' = finished_req_ids \union {r}
                             /\ pool' = Free(pool, r)
                        ELSE UNCHANGED <<status, running, finished_req_ids, pool>>
            /\ UNCHANGED <<spec, is_prefill_chunk, waiting>>
  /\ UNCHANGED <<locals, gone, results, resets>>

(* post_step: take_draft_token_ids, update_draft_token_ids. *)
UpdateDraftTokenIds ==
  /\ phase \in {"executed", "update"} /\ out = <<>>
  /\ spec' = [r \in Requests |->
                IF r \notin drafts \/ status[r] = "finished" THEN spec[r]
                ELSE IF is_prefill_chunk[r] THEN 0 ELSE NumSpec]
  /\ phase' = "idle"
  /\ gone' = {} /\ drafts' = {} /\ sampled' = [r \in Requests |-> 0]
  /\ UNCHANGED <<status, num_tokens, num_computed, is_prefill_chunk, queues, locals, out, resets>>
=============================================================================

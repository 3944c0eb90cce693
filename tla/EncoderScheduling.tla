-------------------------- MODULE EncoderScheduling --------------------------
(***************************************************************************)
(* Multimodal requests in the scheduler and the worker: which encoder runs *)
(* schedule() asks for, what the encoder cache manager books for them, and *)
(* what the worker's own encoder_cache holds when the model gathers the    *)
(* embeddings of the step.                                                 *)
(*                                                                         *)
(* schedule() is a loop over requests; an iteration is a step, and so is   *)
(* every preemption.  KV blocks hold one token and a request's blocks are  *)
(* a number; how long a prefix a waiting request finds cached is any       *)
(* member of PrefixHits.                                                   *)
(***************************************************************************)
EXTENDS EncoderCacheManager

CONSTANTS
  Prompt,            \* Prompt[r]: prompt length
  MaxTokens,         \* MaxTokens[r]: output tokens
  Prio,              \* Prio[r]; a request's number is its arrival time
  Priority,          \* the PRIORITY policy, else FCFS
  max_num_scheduled_tokens,
  max_num_encoder_input_tokens,
  max_num_running_reqs,
  NumBlocks,
  disable_chunked_mm_input,
  shift,             \* 1 when the drafter reads the embeddings one position ahead, else 0
  PrefixHits,        \* what get_computed_blocks may find cached
  MaxResets, MaxAborts     \* bounds

VARIABLES
  status,            \* "new", "waiting", "running" or "finished"
  waiting, running,  \* sequences of requests
  num_computed_tokens, num_output, blocks,
  book,              \* the encoder cache manager
  phase,             \* "idle", "running", "allocate", "waiting", "end" or "execute"
  req_index, token_budget, encoder_compute_budget,
  pending,           \* the request being allocated and what it would run
  num_scheduled_tokens, scheduled_encoder_inputs, preempted,
  output,            \* what the worker is sent
  encoder_cache,     \* the worker's items
  resets, aborts

requests == <<status, waiting, running, num_computed_tokens, num_output, blocks>>
step == <<req_index, token_budget, encoder_compute_budget, pending,
          num_scheduled_tokens, scheduled_encoder_inputs, preempted>>
vars == <<requests, book, phase, step, output, encoder_cache, resets, aborts>>

Nothing == [req |-> 0, new |-> 0, inputs |-> <<>>, budget |-> 0]
NoOutput == [freed |-> {}, encode |-> {}, start |-> [r \in Requests |-> 0],
             tokens |-> [r \in Requests |-> 0]]

NoStep ==
  /\ req_index = 1 /\ token_budget = 0 /\ encoder_compute_budget = 0 /\ pending = Nothing
  /\ num_scheduled_tokens = [r \in Requests |-> 0]
  /\ scheduled_encoder_inputs = [r \in Requests |-> <<>>]
  /\ preempted = FALSE

Init ==
  /\ status = [r \in Requests |-> "new"] /\ waiting = <<>> /\ running = <<>>
  /\ num_computed_tokens = [r \in Requests |-> 0]
  /\ num_output = [r \in Requests |-> 0] /\ blocks = [r \in Requests |-> 0]
  /\ book = NewManager /\ phase = "idle" /\ NoStep
  /\ output = NoOutput
  /\ encoder_cache = {} /\ resets = 0 /\ aborts = 0

(***************************************************************************)
(* The waiting queue.                                                      *)
(***************************************************************************)
Before(a, b) == Prio[a] < Prio[b] \/ (Prio[a] = Prio[b] /\ a < b)
Sorted(q) == SortSeq(q, Before)

add_request(r) ==
  /\ phase = "idle" /\ status[r] = "new"
  /\ status' = [status EXCEPT ![r] = "waiting"]
  /\ waiting' = IF Priority THEN Sorted(Append(waiting, r)) ELSE Append(waiting, r)
  /\ UNCHANGED <<running, num_computed_tokens, num_output, blocks, book, phase, step, output,
                 encoder_cache, resets, aborts>>

Prepended(q, r) == IF Priority THEN Sorted(Append(q, r)) ELSE <<r>> \o q

(***************************************************************************)
(* An input is [hash, start, length, embeds]: the placeholder positions,   *)
(* relative to start, that take an embedding.                              *)
(***************************************************************************)
Masked(x) == x.embeds # 0..x.length - 1

\* get_embeds_indices_in_range: how many embeddings [from, to) takes.  Behind a mask the
\* count of the first `to` positions is read at index to - 1, the last one when to = 0.
NumEmbeds(x, from, to) ==
  LET upto(i) == Cardinality({e \in x.embeds : e < i}) IN
  IF ~Masked(x) THEN to - from
  ELSE (IF to = 0 THEN Cardinality(x.embeds) ELSE upto(to)) - upto(from)

Smaller(a, b) == IF a <= b THEN a ELSE b
Larger(a, b) == IF a <= b THEN b ELSE a

(***************************************************************************)
(* _try_schedule_encoder_inputs: a fold over the request's inputs; stop is *)
(* the loop's break.                                                       *)
(***************************************************************************)
TryInput(r, computed, acc, x) ==
  LET can == can_allocate(acc.book, x.hash, acc.budget, acc.embeds)
      end == computed + acc.new
  IN  IF acc.stop \/ x.start >= end + shift THEN [acc EXCEPT !.stop = TRUE]
      ELSE IF x.start + x.length <= computed \/ x.hash \in acc.hashes THEN acc
      ELSE IF x.hash \in acc.book.cached THEN [acc EXCEPT !.book = Hit(@, r, x.hash)]
      ELSE IF disable_chunked_mm_input /\ computed < x.start /\ end < x.start + x.length
      THEN [acc EXCEPT !.new = x.start - computed, !.stop = TRUE]
      ELSE IF ~can.ok
      THEN [acc EXCEPT !.new = Larger(0, x.start - (computed + shift)), !.stop = TRUE]
      ELSE IF NumEmbeds(x, Larger(0, computed - x.start), Smaller(x.length, end - x.start)) = 0
      THEN [acc EXCEPT !.book = can.book]
      ELSE [acc EXCEPT !.book = can.book,
                       !.embeds = @ + Size[x.hash], !.budget = @ - Size[x.hash],
                       !.hashes = @ \cup {x.hash}, !.inputs = Append(@, x.hash)]

_try_schedule_encoder_inputs(r, computed, new) ==
  LET none == [book |-> book, new |-> new, budget |-> encoder_compute_budget,
               inputs |-> <<>>, hashes |-> {}, embeds |-> 0, stop |-> FALSE]
  IN  IF new = 0 THEN none
      ELSE FoldLeft(LAMBDA acc, x : TryInput(r, computed, acc, x), none, Inputs[r])

NumTokens(r) == Prompt[r] + num_output[r]

(***************************************************************************)
(* schedule(), the running requests.                                       *)
(***************************************************************************)
BeginSchedule ==
  /\ phase = "idle" /\ (waiting # <<>> \/ running # <<>>)
  /\ phase' = "running"
  /\ req_index' = 1 /\ token_budget' = max_num_scheduled_tokens
  /\ encoder_compute_budget' = max_num_encoder_input_tokens
  /\ num_scheduled_tokens' = [r \in Requests |-> 0]
  /\ scheduled_encoder_inputs' = [r \in Requests |-> <<>>]
  /\ preempted' = FALSE
  /\ UNCHANGED <<requests, book, pending, output, encoder_cache, resets, aborts>>

TryRunning ==
  /\ phase = "running" /\ req_index <= Len(running) /\ token_budget > 0
  /\ LET r == running[req_index]
         try == _try_schedule_encoder_inputs(r, num_computed_tokens[r],
                  Smaller(NumTokens(r) - num_computed_tokens[r], token_budget))
     IN  /\ book' = try.book
         /\ IF try.new = 0
            THEN req_index' = req_index + 1 /\ UNCHANGED <<phase, pending>>
            ELSE /\ pending' = [req |-> r, new |-> try.new, inputs |-> try.inputs, budget |-> try.budget]
                 /\ phase' = "allocate" /\ UNCHANGED req_index
  /\ UNCHANGED <<requests, token_budget, encoder_compute_budget, num_scheduled_tokens,
                 scheduled_encoder_inputs, preempted, output, encoder_cache, resets, aborts>>

\* allocate_slots has the blocks.
Fits(r, tokens) == tokens - blocks[r] <= NumBlocks - MapThenSumSet(LAMBDA q : blocks[q], Requests)

Commit(r, computed, new, inputs, budget) ==
  /\ blocks' = [blocks EXCEPT ![r] = computed + new]
  /\ num_scheduled_tokens' = [num_scheduled_tokens EXCEPT ![r] = new]
  /\ token_budget' = token_budget - new
  /\ scheduled_encoder_inputs' = [scheduled_encoder_inputs EXCEPT ![r] = inputs]
  /\ encoder_compute_budget' = IF inputs = <<>> THEN encoder_compute_budget ELSE budget

ScheduleRunning ==
  /\ phase = "allocate"
  /\ Fits(pending.req, num_computed_tokens[pending.req] + pending.new)
  /\ Commit(pending.req, num_computed_tokens[pending.req], pending.new, pending.inputs, pending.budget)
  /\ book' = FoldLeft(LAMBDA m, h : allocate(m, pending.req, h), book, pending.inputs)
  /\ req_index' = req_index + 1 /\ phase' = "running" /\ pending' = Nothing
  /\ UNCHANGED <<status, waiting, running, num_computed_tokens, num_output, preempted, output,
                 encoder_cache, resets, aborts>>
(***************************************************************************)
(* Preemption, when allocate_slots has no blocks.                          *)
(***************************************************************************)
Victim ==
  IF Priority
  THEN CHOOSE v \in ToSet(running) : \A q \in ToSet(running) \ {v} : Before(q, v)
  ELSE Last(running)

_preempt_request(v) ==
  /\ blocks' = [blocks EXCEPT ![v] = 0]
  /\ book' = free(book, v)
  /\ status' = [status EXCEPT ![v] = "waiting"]
  /\ num_computed_tokens' = [num_computed_tokens EXCEPT ![v] = 0]
  /\ waiting' = Prepended(waiting, v)

\* One turn of the allocate_slots loop.  Only the priority policy can choose a request
\* this call has already scheduled; it takes its tokens and its encoder inputs back.
Preempt ==
  /\ phase = "allocate"
  /\ ~Fits(pending.req, num_computed_tokens[pending.req] + pending.new)
  /\ LET v == Victim
         dropped == ToSet(scheduled_encoder_inputs[v])
     IN  /\ running' = SelectSeq(running, LAMBDA q : q # v)
         /\ token_budget' = token_budget + num_scheduled_tokens[v]
         /\ encoder_compute_budget' = encoder_compute_budget + TotalSize(dropped)
         /\ num_scheduled_tokens' = [num_scheduled_tokens EXCEPT ![v] = 0]
         /\ scheduled_encoder_inputs' = [scheduled_encoder_inputs EXCEPT ![v] = <<>>]
         /\ req_index' = IF num_scheduled_tokens[v] > 0 THEN req_index - 1 ELSE req_index
         /\ _preempt_request(v)
         /\ phase' = IF v = pending.req THEN "end" ELSE phase
         /\ pending' = IF v = pending.req THEN Nothing ELSE pending
  /\ preempted' = TRUE
  /\ UNCHANGED <<num_output, output, encoder_cache, resets, aborts>>

(***************************************************************************)
(* schedule(), the waiting requests.                                       *)
(***************************************************************************)
RunningDone == phase = "running" /\ (req_index > Len(running) \/ token_budget = 0)

EnterWaiting ==
  /\ RunningDone /\ ~preempted
  /\ phase' = "waiting"
  /\ UNCHANGED <<requests, book, step, output, encoder_cache, resets, aborts>>

MayAdmit == waiting # <<>> /\ token_budget > 0 /\ Len(running) < max_num_running_reqs

TryWaiting(hit) ==
  /\ phase = "waiting" /\ MayAdmit
  /\ hit < NumTokens(Head(waiting))
  /\ LET r == Head(waiting)
         try == _try_schedule_encoder_inputs(r, hit, Smaller(NumTokens(r) - hit, token_budget))
     IN  IF try.new = 0 \/ ~Fits(r, hit + try.new)
         THEN /\ phase' = "end"
              /\ book' = IF try.new = 0 THEN try.book ELSE free(try.book, r)
              /\ UNCHANGED <<requests, step>>
         ELSE /\ waiting' = Tail(waiting) /\ running' = Append(running, r)
              /\ status' = [status EXCEPT ![r] = "running"]
              /\ num_computed_tokens' = [num_computed_tokens EXCEPT ![r] = hit]
              /\ Commit(r, hit, try.new, try.inputs, try.budget)
              /\ book' = FoldLeft(LAMBDA m, h : allocate(m, r, h), try.book, try.inputs)
              /\ UNCHANGED <<phase, num_output, req_index, pending, preempted>>
  /\ UNCHANGED <<output, encoder_cache, resets, aborts>>

ScheduleDone ==
  \/ phase = "end"
  \/ RunningDone /\ preempted
  \/ phase = "waiting" /\ ~MayAdmit

(***************************************************************************)
(* The end of schedule(): the output for the worker, then                  *)
(* _update_after_schedule with _free_encoder_inputs.                       *)
(***************************************************************************)
_free_encoder_inputs(m, r, computed) ==
  FoldLeft(LAMBDA b, x : IF x.start + x.length <= computed THEN free_encoder_input(b, r, x.hash) ELSE b,
           m, Inputs[r])

EndSchedule ==
  /\ ScheduleDone
  /\ LET scheduled == SelectSeq(running, LAMBDA r : num_scheduled_tokens[r] > 0)
         computed == [r \in Requests |-> num_computed_tokens[r] + num_scheduled_tokens[r]]
     IN  /\ output' = [freed |-> book.freed,
                       encode |-> UNION {ToSet(scheduled_encoder_inputs[r]) : r \in Requests},
                       start |-> num_computed_tokens, tokens |-> num_scheduled_tokens]
         /\ num_computed_tokens' = computed
         /\ book' = FoldLeft(LAMBDA m, r : _free_encoder_inputs(m, r, computed[r]),
                             [book EXCEPT !.freed = {}], scheduled)
  /\ phase' = "execute"
  /\ req_index' = 1 /\ token_budget' = 0 /\ encoder_compute_budget' = 0 /\ pending' = Nothing
  /\ num_scheduled_tokens' = [r \in Requests |-> 0]
  /\ scheduled_encoder_inputs' = [r \in Requests |-> <<>>]
  /\ preempted' = FALSE
  /\ UNCHANGED <<status, waiting, running, num_output, blocks, encoder_cache, resets, aborts>>

(***************************************************************************)
(* The worker: evicted items go, scheduled items are encoded, and the      *)
(* model gathers the embeddings of the tokens it runs; a drafter gathers   *)
(* once more, one position ahead.                                          *)
(***************************************************************************)
StillCached == encoder_cache \ output.freed
WorkerCache == StillCached \cup output.encode

\* The items _gather_mm_embeddings reads for request r.
Gathered(r, ahead) ==
  LET from == output.start[r] + ahead
      to == from + output.tokens[r]
      needed == {i \in 1..Len(Inputs[r]) :
                   /\ Inputs[r][i].start < to
                   /\ from < Inputs[r][i].start + Inputs[r][i].length
                   /\ NumEmbeds(Inputs[r][i], Larger(from - Inputs[r][i].start, 0),
                                Smaller(to - Inputs[r][i].start, Inputs[r][i].length)) # 0}
  IN  IF output.tokens[r] = 0 THEN {} ELSE {Inputs[r][i].hash : i \in needed}

NoMiss == \A r \in Requests : \A ahead \in {0, shift} : Gathered(r, ahead) \subseteq WorkerCache

\* A finished request keeps its references on the encoder outputs.
FinishedMutant(rs) ==
  /\ status' = [r \in Requests |-> IF r \in rs THEN "finished" ELSE status[r]]
  /\ running' = SelectSeq(running, LAMBDA r : r \notin rs)
  /\ waiting' = SelectSeq(waiting, LAMBDA r : r \notin rs)
  /\ blocks' = [r \in Requests |-> IF r \in rs THEN 0 ELSE blocks[r]]
  /\ UNCHANGED book
\* The request leaves its queue and _free_request releases what it holds.
Finished(rs) ==
  /\ status' = [r \in Requests |-> IF r \in rs THEN "finished" ELSE status[r]]
  /\ running' = SelectSeq(running, LAMBDA r : r \notin rs)
  /\ waiting' = SelectSeq(waiting, LAMBDA r : r \notin rs)
  /\ blocks' = [r \in Requests |-> IF r \in rs THEN 0 ELSE blocks[r]]
  /\ book' = FoldLeft(free, book, SelectSeq(running \o waiting, LAMBDA r : r \in rs))

\* execute_model, whose gather asserts that nothing is missing, and update_from_output.
Execute ==
  /\ phase = "execute" /\ NoMiss
  /\ encoder_cache' = WorkerCache
  /\ LET sampled == {r \in Requests : output.tokens[r] > 0 /\ num_computed_tokens[r] = NumTokens(r)} IN
     /\ num_output' = [r \in Requests |-> IF r \in sampled THEN num_output[r] + 1 ELSE num_output[r]]
     /\ Finished({r \in sampled : num_output[r] + 1 = MaxTokens[r]})
  /\ phase' = "idle" /\ output' = NoOutput
  /\ UNCHANGED <<num_computed_tokens, step, resets, aborts>>

(***************************************************************************)
(* Between two steps: a client aborts a request, or the operator resets    *)
(* the encoder cache with requests in progress.                            *)
(***************************************************************************)
finish_requests(r) ==
  /\ phase = "idle" /\ status[r] \in {"waiting", "running"} /\ aborts < MaxAborts
  /\ Finished({r}) /\ aborts' = aborts + 1
  /\ UNCHANGED <<num_computed_tokens, num_output, phase, step, output, encoder_cache, resets>>

reset_encoder_cache ==
  /\ phase = "idle" /\ resets < MaxResets
  /\ book' = NewManager /\ encoder_cache' = {} /\ resets' = resets + 1
  /\ UNCHANGED <<requests, phase, step, output, aborts>>

EngineStep ==
  \/ BeginSchedule \/ TryRunning \/ ScheduleRunning \/ Preempt \/ EnterWaiting
  \/ \E hit \in PrefixHits : TryWaiting(hit)
  \/ EndSchedule \/ Execute

Idle == phase = "idle" /\ waiting = <<>> /\ running = <<>> /\ UNCHANGED vars

Next ==
  \/ EngineStep
  \/ \E r \in Requests : add_request(r) \/ finish_requests(r)
  \/ reset_encoder_cache
  \/ Idle

\* The engine's loop runs while there are requests.  This is weak fairness of EngineStep
\* with ENABLED written out: a busy engine has a step to take (or TLC reports a deadlock).
Busy == phase # "idle" \/ waiting # <<>> \/ running # <<>>
Spec == Init /\ [][Next]_vars /\ ([]<>~Busy \/ []<><<EngineStep>>_vars)

TypeOK ==
  /\ status \in [Requests -> {"new", "waiting", "running", "finished"}]
  /\ ToSet(waiting) = {r \in Requests : status[r] = "waiting"} /\ IsInjective(waiting)
  /\ ToSet(running) = {r \in Requests : status[r] = "running"} /\ IsInjective(running)
  /\ book.cached \subseteq Items /\ encoder_cache \subseteq Items
  /\ phase \in {"idle", "running", "allocate", "waiting", "end", "execute"}
  /\ req_index \in 1..Len(running) + 1 /\ token_budget \in 0..max_num_scheduled_tokens
  /\ encoder_compute_budget \in 0..max_num_encoder_input_tokens

\* The assertion of _gather_mm_embeddings never fails: every item the model, or the
\* drafter, reads is in the worker's cache when the step runs.
EncoderHit == phase = "execute" => NoMiss

\* The manager's two counters and its list of freeable items agree with the items on
\* the book at every point of schedule(), whatever was evicted, freed, hit or undone.
Balanced == BookBalances(book)

\* Between two steps the worker holds exactly the items on the scheduler's book, so
\* the memory it uses is the memory the manager accounts for.
InStep == phase = "idle" => encoder_cache = book.cached

\* With disable_chunked_mm_input no step ends inside a multimodal item.
ItemsWhole ==
  phase = "execute" /\ disable_chunked_mm_input =>
    \A r \in Requests : output.tokens[r] > 0 =>
      \A i \in 1..Len(Inputs[r]) :
        LET end == output.start[r] + output.tokens[r] IN
        ~(Inputs[r][i].start < end /\ end < Inputs[r][i].start + Inputs[r][i].length)

\* A request that is added finishes: no request waits for encoder slots that others
\* never give back.
AllFinish == \A r \in Requests : status[r] = "waiting" ~> status[r] = "finished"
=============================================================================

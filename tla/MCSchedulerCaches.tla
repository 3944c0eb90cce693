-------------------------- MODULE MCSchedulerCaches --------------------------
(***************************************************************************)
(* The block pool's free list and the encoder cache, a scenario each:      *)
(*   pool      the free list, sized by the configuration                   *)
(*   fcfs      three multimodal requests, with too few KV blocks           *)
(*   priority  the same requests under PRIORITY, with blocks for all       *)
(* What a scenario is not about stays as it was initially.                 *)
(*                                                                         *)
(* The requests carry three items that do not fit the cache together.      *)
(* Item b sits behind a mask with a leading text token, and request 3,     *)
(* the one of lowest priority, carries a twice.                            *)
(***************************************************************************)
EXTENDS FreeKVCacheBlockQueue

CONSTANT Scenarios

VARIABLES
  scenario,
  status, waiting, running, num_computed_tokens, num_output, blocks, book, phase,
  req_index, token_budget, encoder_compute_budget, pending, num_scheduled_tokens,
  scheduled_encoder_inputs, preempted, output, encoder_cache, resets, aborts

enc == <<status, waiting, running, num_computed_tokens, num_output, blocks, book, phase,
         req_index, token_budget, encoder_compute_budget, pending, num_scheduled_tokens,
         scheduled_encoder_inputs, preempted, output, encoder_cache, resets, aborts>>
mcvars == <<scenario, vars, enc>>

Reqs == 1..3
MCSize == [h \in {"a", "b", "c"} |-> IF h = "b" THEN 1 ELSE 2]
Plain(h, start) == [hash |-> h, start |-> start, length |-> MCSize[h], embeds |-> 0..MCSize[h] - 1]
MCInputs ==
  << << [hash |-> "b", start |-> 0, length |-> 2, embeds |-> {1}], Plain("a", 2) >>,
     << Plain("c", 1) >>,
     << Plain("a", 0), Plain("c", 2), Plain("a", 4) >> >>

Fcfs == INSTANCE EncoderScheduling WITH
  Requests <- Reqs, Items <- DOMAIN MCSize, Size <- MCSize, Inputs <- MCInputs,
  Prompt <- <<4, 3, 6>>, MaxTokens <- <<3, 4, 2>>, Prio <- <<0, 0, 1>>, cache_size <- 3,
  Priority <- FALSE, max_num_scheduled_tokens <- 3, max_num_encoder_input_tokens <- 3,
  max_num_running_reqs <- 3, NumBlocks <- 7, disable_chunked_mm_input <- FALSE, shift <- 0,
  PrefixHits <- {0, 1, 3}, MaxResets <- 1, MaxAborts <- 1
ByPriority == INSTANCE EncoderScheduling WITH
  Requests <- Reqs, Items <- DOMAIN MCSize, Size <- MCSize, Inputs <- MCInputs,
  Prompt <- <<4, 3, 6>>, MaxTokens <- <<3, 4, 2>>, Prio <- <<1, 0, 0>>, cache_size <- 3,
  Priority <- TRUE, max_num_scheduled_tokens <- 3, max_num_encoder_input_tokens <- 3,
  max_num_running_reqs <- 2, NumBlocks <- 22, disable_chunked_mm_input <- TRUE, shift <- 0,
  PrefixHits <- {0, 1}, MaxResets <- 0, MaxAborts <- 1

In(s) == scenario = s

MCInit == scenario \in Scenarios /\ Init /\ Fcfs!Init

MCNext ==
  \/ In("pool") /\ Next /\ UNCHANGED <<scenario, enc>>
  \/ In("fcfs") /\ Fcfs!Next /\ UNCHANGED <<scenario, vars>>
  \/ In("priority") /\ ByPriority!Next /\ UNCHANGED <<scenario, vars>>

(* The engine's loop runs while there are requests; requests need not come.  *)
EngineRuns ==
  /\ In("fcfs") => []<>~Fcfs!Busy \/ []<><<Fcfs!EngineStep>>_enc
  /\ In("priority") => []<>~ByPriority!Busy \/ []<><<ByPriority!EngineStep>>_enc

MCFairSpec == MCInit /\ [][MCNext]_mcvars /\ EngineRuns

-----------------------------------------------------------------------------
(* The assertion of _gather_mm_embeddings never fails: every item the model  *)
(* reads is in the worker's cache when the step runs.                        *)
EncoderHit == Fcfs!EncoderHit

(* Between two steps the worker holds exactly the items on the book, and at  *)
(* every point of schedule() the encoder cache manager's counters and        *)
(* freeable list agree with the items, and the queues with the statuses.     *)
InStep == Fcfs!InStep /\ Fcfs!Balanced /\ Fcfs!TypeOK

(* A request that is added finishes: none waits for encoder slots that       *)
(* others never give back.                                                   *)
AllFinish == \A r \in Reqs : status[r] = "waiting" ~> status[r] = "finished"
=============================================================================

---------------------------- MODULE MCSpecEngine ----------------------------
(***************************************************************************)
(* The engine under several configurations, one of which a behaviour takes *)
(* in its initial state: "fcfs" has memory for some preemptions, "urgent"  *)
(* the priority policy with chunked prefills and constant preemption,      *)
(* "reset" forced resets of the prefix cache.                              *)
(***************************************************************************)
CONSTANTS a, b, c, NoReq, Scenarios, FcfsBlocks

VARIABLES
  scenario,
  phase, status, num_tokens, num_computed, spec, is_prefill_chunk, waiting, running,
  finished_req_ids, pool, token_budget, req_index, num_new, preempted, out, gone, sampled,
  drafts, resets, states, batch, kv, prev_index, reorder, hidden, escaped

BlockSize == 2
MaxModelLen == 8
SharedLen == 2
BlocksPerRow == 4

(* A value for each of the requests. *)
For(S, x, y, z) == [r \in S |-> IF r = a THEN x ELSE IF r = b THEN y ELSE z]
Prompts(S) == For(S, 3, 4, 2)
Outputs(S) == For(S, 4, 2, 2)
LongOutputs(S) == For(S, 4, 4, 4)
Urgency(S) == For(S, 0, 1, 2)

Fcfs == INSTANCE SpecEngine WITH
  Requests <- {a, b, c}, PromptLen <- Prompts({a, b, c}), MaxTokens <- Outputs({a, b, c}),
  Priority <- Urgency({a, b, c}), Policy <- "fcfs", EnableCaching <- TRUE, NumBlocks <- FcfsBlocks,
  MaxNumSeqs <- 3, MaxRows <- 3, MaxBatchedTokens <- 9, LongPrefillThreshold <- 0, NumSpec <- 2,
  MayAbort <- {a}, MayStop <- {b}, MaxResets <- 0

Urgent == INSTANCE SpecEngine WITH
  Requests <- {a, b, c}, PromptLen <- Prompts({a, b, c}), MaxTokens <- LongOutputs({a, b, c}),
  Priority <- Urgency({a, b, c}), Policy <- "priority", EnableCaching <- FALSE, NumBlocks <- 4,
  MaxNumSeqs <- 2, MaxRows <- 2, MaxBatchedTokens <- 4, LongPrefillThreshold <- 3, NumSpec <- 1,
  MayAbort <- {b}, MayStop <- {}, MaxResets <- 0

Reset == INSTANCE SpecEngine WITH
  Requests <- {a, b}, PromptLen <- Prompts({a, b}), MaxTokens <- Outputs({a, b}),
  Priority <- Urgency({a, b}), Policy <- "fcfs", EnableCaching <- TRUE, NumBlocks <- 5,
  MaxNumSeqs <- 2, MaxRows <- 2, MaxBatchedTokens <- 6, LongPrefillThreshold <- 0, NumSpec <- 2,
  MayAbort <- {a}, MayStop <- {b}, MaxResets <- 2

In(s) == scenario = s
vars == <<scenario, Fcfs!vars>>

Init ==
  /\ scenario \in Scenarios
  /\ In("fcfs") => Fcfs!Init
  /\ In("urgent") => Urgent!Init
  /\ In("reset") => Reset!Init

Engine ==
  \/ In("fcfs") /\ Fcfs!Engine
  \/ In("urgent") /\ Urgent!Engine
  \/ In("reset") /\ Reset!Engine
Next ==
  \/ In("fcfs") /\ Fcfs!Next /\ UNCHANGED scenario
  \/ In("urgent") /\ Urgent!Next /\ UNCHANGED scenario
  \/ In("reset") /\ Reset!Next /\ UNCHANGED scenario

(* The engine keeps stepping while it has work, as in SpecEngine. *)
FairSpec == Init /\ [][Next]_vars /\ ([]<>~Fcfs!Busy \/ []<><<Engine>>_vars)

-----------------------------------------------------------------------------
(* Properties of SpecEngine, in the configurations the code promises them.   *)

(* The scheduler's books balance: a request is in the queue its status names *)
(* and only running ones hold blocks, no block is lost, duplicated or        *)
(* double-booked, and the bounds schedule() asserts hold.                    *)
BooksBalance ==
  /\ In("fcfs") => Fcfs!TypeOK /\ Fcfs!QueuesAgree /\ Fcfs!BlockAccounting
  /\ In("urgent") => Urgent!TypeOK /\ Urgent!QueuesAgree /\ Urgent!BlockAccounting
  /\ In("reset") => Reset!TypeOK /\ Reset!QueuesAgree /\ Reset!BlockAccounting

(* The worker's rows list the scheduler's blocks, whatever was preempted or  *)
(* reset, and nothing is kept of a request the worker was told is finished.  *)
WorkerAgrees ==
  /\ In("fcfs") => Fcfs!BatchAgrees /\ Fcfs!WorkerForgets
  /\ In("urgent") => Urgent!BatchAgrees /\ Urgent!WorkerForgets
  /\ In("reset") => Reset!BatchAgrees /\ Reset!WorkerForgets

(* Computed KV survives drafting, rejection and preemption inside the        *)
(* reserved blocks, and the count of computed tokens and its rollbacks       *)
(* cancel out: between steps only the newest token lacks its KV.             *)
KVIntact ==
  /\ In("fcfs") => Fcfs!KVIntact /\ Fcfs!CaughtUp
  /\ In("urgent") => Urgent!KVIntact /\ Urgent!CaughtUp
  /\ In("reset") => Reset!KVIntact /\ Reset!CaughtUp

(* The prefix cache holds computed KV only; first come, first served.        *)
CacheHoldsComputed ==
  /\ In("fcfs") => Fcfs!CacheHoldsComputed
  /\ In("reset") => Reset!CacheHoldsComputed

(* A verify reads the hidden states of its own drafts while no budget parts  *)
(* a batch.                                                                  *)
DraftProbsOwn ==
  /\ In("fcfs") => Fcfs!DraftProbsOwn
  /\ In("reset") => Reset!DraftProbsOwn

(* Every request that arrives is finished in the end, under both policies.   *)
AllFinish ==
  \A r \in {a, b, c} : r \in DOMAIN status /\ status[r] = "waiting"
                         ~> r \in DOMAIN status /\ status[r] = "finished"

(* Drafting never changes computed KV, whatever the block table's stale      *)
(* entries.                                                                  *)
DraftSparesKV == In("fcfs") => Fcfs!DraftSparesKV
=============================================================================

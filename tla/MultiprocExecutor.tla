-------------------------- MODULE MultiprocExecutor --------------------------
(***************************************************************************)
(* The engine's calls to its worker processes (multiproc_executor.py).  A  *)
(* call is broadcast to every worker; those it asks to reply put a result  *)
(* into their own response queue, and the engine thread takes results from *)
(* the queues in order, for the call itself or for the future at the head  *)
(* of futures_queue.  Nothing in a response says which call it answers.    *)
(*                                                                         *)
(* The message queues are the FIFO queues ShmRingBuffer implements.  Two   *)
(* kinds of calls: "step" (execute_model, sample_tokens, ...) is answered  *)
(* by the output rank alone and ends the engine when it raises; "utility"  *)
(* is answered by all, and an exception goes back to the client.           *)
(***************************************************************************)
EXTENDS Integers, Sequences, FiniteSets

CONSTANTS
  NumWorkers,
  OutputRank,    \* the rank that answers the steps (last pipeline stage)
  BatchQueueSize,
  AsyncOutput,   \* async scheduling: replies pass through a thread's queue
  Timeouts,      \* may deadlines pass
  OutputErrors,  \* may the output thread's get_output raise
  MaxCalls,      \* bound: calls the engine makes
  MaxFails,      \* bound: worker methods that raise
  MaxCrashes     \* bound: worker processes that die

Ranks == 1..NumWorkers
Calls == 1..MaxCalls
Idle == 0

VARIABLES
  n,          \* calls made so far
  call,       \* per call: its kind and whether it has a deadline
  outcome,    \* per call: "none", "pending", "ok" or how it raised
  results,    \* per call: the calls whose responses it returned
  futures,    \* futures_queue, oldest first; a blocking call waits at its end
  batch_queue,\* steps whose future the engine has yet to ask for, oldest first
  goal,       \* the call the engine thread is blocked on, 0 if none
  left,       \* ranks still to be read for the head of futures
  rpc_broadcast_mq, busy, async_queue, response_mq,   \* per worker
  alive,      \* per worker: its process runs
  output_thread, \* per worker: its async_output_busy_loop runs
  monitor,    \* "watching", "failed", "terminated", "done"
  stopped,    \* the engine loop has ended
  fails

engine == <<n, call, outcome, results, futures, batch_queue, goal, left, stopped>>
workers == <<rpc_broadcast_mq, busy, async_queue, response_mq, output_thread, fails>>
vars == <<engine, workers, alive, monitor>>

Init ==
  /\ n = 0 /\ futures = <<>> /\ batch_queue = <<>> /\ goal = 0 /\ left = <<>> /\ stopped = FALSE
  /\ call = [c \in Calls |-> [kind |-> "none", timed |-> FALSE]]
  /\ outcome = [c \in Calls |-> "none"]
  /\ results = [c \in Calls |-> <<>>]
  /\ rpc_broadcast_mq = [w \in Ranks |-> <<>>]
  /\ busy = [w \in Ranks |-> Idle]
  /\ async_queue = [w \in Ranks |-> <<>>]
  /\ response_mq = [w \in Ranks |-> <<>>]
  /\ alive = [w \in Ranks |-> TRUE]
  /\ output_thread = [w \in Ranks |-> AsyncOutput]
  /\ monitor = "watching"
  /\ fails = 0

is_failed == monitor # "watching"

\* The queues a call's get_response reads, in order.
ResponseMqs(kind) == IF kind = "step" THEN <<OutputRank>> ELSE [w \in Ranks |-> w]

(***************************************************************************)
(* The engine thread.                                                      *)
(***************************************************************************)
\* A call on a failed executor raises at once; a client's call only tells the client.
CallFails(kind) ==
  /\ ~stopped /\ goal = 0 /\ n < MaxCalls
  /\ is_failed
  /\ n' = n + 1
  /\ call' = [call EXCEPT ![n'].kind = kind]
  /\ outcome' = [outcome EXCEPT ![n'] = "executor_failed"]
  /\ stopped' = (kind = "step")
  /\ UNCHANGED <<results, futures, batch_queue, goal, left, workers, alive, monitor>>

\* A blocking call that does not drain the futures of earlier calls first.
collective_rpcMutant(kind, timed, non_block) ==
  /\ ~stopped /\ goal = 0 /\ n < MaxCalls
  /\ ~is_failed
  /\ n' = n + 1
  /\ call' = [call EXCEPT ![n'] = [kind |-> kind, timed |-> timed]]
  /\ outcome' = [outcome EXCEPT ![n'] = "pending"]
  /\ rpc_broadcast_mq' = [w \in Ranks |-> Append(rpc_broadcast_mq[w], n')]
  /\ futures' = IF non_block THEN Append(futures, n') ELSE <<n'>> \o futures
  /\ goal' = IF non_block THEN 0 ELSE n'
  /\ left' = IF futures = <<>> \/ ~non_block THEN ResponseMqs(kind) ELSE left
  /\ UNCHANGED <<results, stopped, busy, async_queue, response_mq, output_thread, fails, alive, monitor>>
collective_rpc(kind, timed, non_block) ==
  /\ ~stopped /\ goal = 0 /\ n < MaxCalls
  /\ ~is_failed
  /\ n' = n + 1
  /\ call' = [call EXCEPT ![n'] = [kind |-> kind, timed |-> timed]]
  /\ outcome' = [outcome EXCEPT ![n'] = "pending"]
  /\ rpc_broadcast_mq' = [w \in Ranks |-> Append(rpc_broadcast_mq[w], n')]
  /\ futures' = Append(futures, n')
  /\ goal' = IF non_block THEN 0 ELSE n'
  /\ left' = IF futures = <<>> THEN ResponseMqs(kind) ELSE left
  /\ UNCHANGED <<results, stopped, busy, async_queue, response_mq, output_thread, fails, alive, monitor>>

\* execute_model and sample_tokens of one step, as one call whose future goes to
\* the batch queue; they have a deadline.
step_with_batch_queue ==
  /\ Len(batch_queue) < BatchQueueSize
  /\ collective_rpc("step", TRUE, TRUE)
  /\ batch_queue' = Append(batch_queue, n')

\* A blocking sample_tokens, or take_draft_token_ids and execute_dummy_batch,
\* which have none.
BlockingStep(timed) == collective_rpc("step", timed, FALSE) /\ UNCHANGED batch_queue

UtilityCall(timed) == collective_rpc("utility", timed, FALSE) /\ UNCHANGED batch_queue

\* future.result() of the oldest step, done already if a blocking call drained it.
Result ==
  /\ ~stopped /\ goal = 0 /\ batch_queue # <<>>
  /\ goal' = Head(batch_queue)
  /\ batch_queue' = Tail(batch_queue)
  /\ UNCHANGED <<n, call, outcome, results, futures, left, stopped, workers, alive, monitor>>

\* The call at the head of futures is over; the next one's queues come up.
Complete(how) ==
  /\ outcome' = [outcome EXCEPT ![Head(futures)] = how]
  /\ futures' = Tail(futures)
  /\ left' = IF Tail(futures) = <<>> THEN <<>> ELSE ResponseMqs(call[futures[2]].kind)

\* One turn of get_response: the next queue's response, whichever call it answers.
Dequeue ==
  /\ goal # 0 /\ outcome[goal] = "pending"
  /\ response_mq[Head(left)] # <<>>
  /\ LET w == Head(left)
         c == Head(futures)
         r == Head(response_mq[w])
     IN  /\ response_mq' = [response_mq EXCEPT ![w] = Tail(@)]
         /\ IF r.ok
            THEN /\ results' = [results EXCEPT ![c] = Append(@, r.call)]
                 /\ IF Len(left) = 1 THEN Complete("ok")
                    ELSE left' = Tail(left) /\ UNCHANGED <<outcome, futures>>
            ELSE Complete("worker_failed") /\ UNCHANGED results
  /\ UNCHANGED <<n, call, batch_queue, goal, stopped, rpc_broadcast_mq, busy, async_queue, output_thread, fails, alive, monitor>>

\* Nothing to dequeue: the deadline passes, or shutdown_event cancels the wait.
GiveUp(how) ==
  /\ goal # 0 /\ outcome[goal] = "pending"
  /\ response_mq[Head(left)] = <<>>
  /\ \/ how = "timeout" /\ Timeouts /\ call[Head(futures)].timed
     \/ how = "cancelled" /\ monitor = "done"
  /\ Complete(how)
  /\ UNCHANGED <<n, call, results, batch_queue, goal, stopped, workers, alive, monitor>>

\* The call returns or raises; a step that raises ends the engine loop.
Return ==
  /\ goal # 0 /\ outcome[goal] # "pending"
  /\ goal' = 0
  /\ stopped' = (outcome[goal] # "ok" /\ call[goal].kind = "step")
  /\ UNCHANGED <<n, call, outcome, results, futures, batch_queue, left, workers, alive, monitor>>

\* EXECUTOR_FAILED, which the monitor's failure callback put into the input queue.
HandleExecutorFailed ==
  /\ ~stopped /\ goal = 0 /\ monitor = "done"
  /\ stopped' = TRUE
  /\ UNCHANGED <<n, call, outcome, results, futures, batch_queue, goal, left, workers, alive, monitor>>

(***************************************************************************)
(* The workers: worker_busy_loop and the output thread.                    *)
(***************************************************************************)
Take(w) ==
  /\ alive[w] /\ busy[w] = Idle /\ rpc_broadcast_mq[w] # <<>>
  /\ busy' = [busy EXCEPT ![w] = Head(rpc_broadcast_mq[w])]
  /\ rpc_broadcast_mq' = [rpc_broadcast_mq EXCEPT ![w] = Tail(@)]
  /\ UNCHANGED <<async_queue, response_mq, output_thread, fails, engine, alive, monitor>>

Asked(w, c) == call[c].kind = "step" => w = OutputRank

Run(w, ok) ==
  /\ alive[w] /\ busy[w] # Idle
  /\ ~ok => fails < MaxFails
  /\ fails' = IF ok THEN fails ELSE fails + 1
  /\ LET r == [call |-> busy[w], ok |-> ok]
     IN  IF ~Asked(w, busy[w]) THEN UNCHANGED <<async_queue, response_mq>>
         ELSE IF AsyncOutput
         THEN async_queue' = [async_queue EXCEPT ![w] = Append(@, r)] /\ UNCHANGED response_mq
         ELSE response_mq' = [response_mq EXCEPT ![w] = Append(@, r)] /\ UNCHANGED async_queue
  /\ busy' = [busy EXCEPT ![w] = Idle]
  /\ UNCHANGED <<rpc_broadcast_mq, output_thread, engine, alive, monitor>>

async_output(w) ==
  /\ alive[w] /\ output_thread[w] /\ async_queue[w] # <<>>
  /\ response_mq' = [response_mq EXCEPT ![w] = Append(@, Head(async_queue[w]))]
  /\ async_queue' = [async_queue EXCEPT ![w] = Tail(@)]
  /\ UNCHANGED <<rpc_broadcast_mq, busy, output_thread, fails, engine, alive, monitor>>

\* A batch's output is awaited in the output thread (get_output).  Nothing catches
\* what that raises: the thread ends, unreported, and the process lives on.
async_output_raises(w) ==
  /\ OutputErrors /\ fails < MaxFails
  /\ alive[w] /\ output_thread[w] /\ async_queue[w] # <<>>
  /\ LET r == Head(async_queue[w])
     IN  r.ok /\ call[r.call] = [kind |-> "step", timed |-> TRUE]
  /\ fails' = fails + 1
  /\ output_thread' = [output_thread EXCEPT ![w] = FALSE]
  /\ async_queue' = [async_queue EXCEPT ![w] = Tail(@)]
  /\ UNCHANGED <<rpc_broadcast_mq, busy, response_mq, engine, alive, monitor>>

Crash(w) ==
  /\ alive[w] /\ monitor = "watching"
  /\ Cardinality({x \in Ranks : ~alive[x]}) < MaxCrashes
  /\ alive' = [alive EXCEPT ![w] = FALSE]
  /\ UNCHANGED <<engine, workers, monitor>>

(***************************************************************************)
(* The monitor thread: is_failed first, then shutdown().                   *)
(***************************************************************************)
Notice ==
  /\ monitor = "watching" /\ \E w \in Ranks : ~alive[w]
  /\ monitor' = "failed"
  /\ UNCHANGED <<engine, workers, alive>>

Terminate ==
  /\ monitor = "failed"
  /\ monitor' = "terminated"
  /\ alive' = [w \in Ranks |-> FALSE]
  /\ UNCHANGED <<engine, workers>>

\* The wait is not cancelled while somebody waits.
SetShutdownEventMutant ==
  /\ monitor = "terminated" /\ goal = 0
  /\ monitor' = "done"
  /\ UNCHANGED <<engine, workers, alive>>
SetShutdownEvent ==
  /\ monitor = "terminated"
  /\ monitor' = "done"
  /\ UNCHANGED <<engine, workers, alive>>

Monitor == Notice \/ Terminate \/ SetShutdownEvent

Waiting == Dequeue \/ GiveUp("timeout") \/ GiveUp("cancelled") \/ Return

Next ==
  \/ \E kind \in {"step", "utility"} : CallFails(kind)
  \/ step_with_batch_queue \/ Result
  \/ \E timed \in {FALSE, Timeouts} : BlockingStep(timed) \/ UtilityCall(timed)
  \/ Waiting \/ HandleExecutorFailed
  \/ \E w \in Ranks : \/ Take(w) \/ async_output(w) \/ async_output_raises(w)
                      \/ \E ok \in BOOLEAN : Run(w, ok)
                      \/ Crash(w)
  \/ Monitor

Spec == Init /\ [][Next]_vars

\* The engine thread polls while it waits, live workers keep looping, and the
\* monitor thread runs: none of them blocks on anything else.
FairSpec ==
  /\ Spec /\ WF_vars(Waiting) /\ WF_vars(Monitor)
  /\ \A w \in Ranks : WF_vars(Take(w)) /\ WF_vars(\E ok \in BOOLEAN : Run(w, ok))
                      /\ WF_vars(async_output(w))

(***************************************************************************)
(* Properties.                                                             *)
(***************************************************************************)

\* "A list containing the results from each worker" (Executor.collective_rpc):
\* what a call returns was computed for that call, although responses carry no
\* call number and blocking calls drain other calls' futures first.
OwnReplies ==
  \A c \in Calls :
    outcome[c] = "ok" => results[c] = [i \in DOMAIN ResponseMqs(call[c].kind) |-> c]

\* What the engine takes for a step's output is that step's, even after client
\* calls that failed on some worker and left other workers' replies unread.
StepReplies ==
  \A c \in Calls : outcome[c] = "ok" /\ call[c].kind = "step" => results[c] = <<c>>

\* No call hangs: it returns or raises even when methods raise or a worker it
\* waits for dies at any point, for the monitor then ends the wait.
CallsReturn == (goal # 0) ~> (goal = 0)
=============================================================================

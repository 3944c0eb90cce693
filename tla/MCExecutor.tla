----------------------------- MODULE MCExecutor -----------------------------
(* The executor and the ring its queues are made of, one scenario for each   *)
(* instance; what a scenario is not about stays as it was initially.         *)
(*   ring      the shared-memory ring, sized by the configuration            *)
(*   batched   batched and blocking calls, a worker may die                  *)
(*   failures  methods and output threads that raise                         *)
(*   returns   a raising method, deadlines, a worker may die                 *)
EXTENDS ShmRingBuffer

CONSTANT Scenarios

VARIABLES
  scenario,
  n, call, outcome, results, futures, batch_queue, goal, left,
  rpc_broadcast_mq, busy, async_queue, response_mq, alive, output_thread, monitor,
  stopped, fails

executor == <<n, call, outcome, results, futures, batch_queue, goal, left,
              rpc_broadcast_mq, busy, async_queue, response_mq, alive, output_thread,
              monitor, stopped, fails>>
mcvars == <<scenario, vars, executor>>

Batched == INSTANCE MultiprocExecutor WITH
  NumWorkers <- 2, OutputRank <- 2, BatchQueueSize <- 2, AsyncOutput <- TRUE,
  Timeouts <- FALSE, OutputErrors <- FALSE, MaxCalls <- 4, MaxFails <- 0, MaxCrashes <- 1
Failures == INSTANCE MultiprocExecutor WITH
  NumWorkers <- 2, OutputRank <- 1, BatchQueueSize <- 2, AsyncOutput <- TRUE,
  Timeouts <- FALSE, OutputErrors <- TRUE, MaxCalls <- 3, MaxFails <- 2, MaxCrashes <- 0
Returns == INSTANCE MultiprocExecutor WITH
  NumWorkers <- 2, OutputRank <- 2, BatchQueueSize <- 2, AsyncOutput <- FALSE,
  Timeouts <- TRUE, OutputErrors <- FALSE, MaxCalls <- 2, MaxFails <- 1, MaxCrashes <- 1

In(s) == scenario = s

MCInit ==
  /\ scenario \in Scenarios /\ Init
  /\ (In("ring") \/ In("batched")) => Batched!Init
  /\ In("failures") => Failures!Init
  /\ In("returns") => Returns!Init

MCNext ==
  \/ In("ring") /\ Next /\ UNCHANGED <<scenario, executor>>
  \/ In("batched") /\ Batched!Next /\ UNCHANGED <<scenario, vars>>
  \/ In("failures") /\ Failures!Next /\ UNCHANGED <<scenario, vars>>
  \/ In("returns") /\ Returns!Next /\ UNCHANGED <<scenario, vars>>

(* The writer and the readers of the ring spin; the engine thread polls      *)
(* while it waits, live workers keep looping and the monitor runs.           *)
MCFairSpec ==
  /\ MCInit /\ [][MCNext]_mcvars
  /\ WF_vars(In("ring") /\ Writer)
  /\ \A r \in Readers : WF_vars(In("ring") /\ Reader(r))
  /\ WF_executor(In("returns") /\ Returns!Waiting)
  /\ WF_executor(In("returns") /\ Returns!Monitor)
  /\ \A w \in 1 .. 2 :
       /\ WF_executor(In("returns") /\ Returns!Take(w))
       /\ WF_executor(In("returns") /\ \E ok \in BOOLEAN : Returns!Run(w, ok))

-----------------------------------------------------------------------------
(* Every message reaches every reader, and a writer on a full ring gets a    *)
(* chunk again.                                                              *)
RingDelivers == AllDelivered /\ WriterGetsChunk

(* What a call returns was computed for that call: blocking calls drain the  *)
(* futures of earlier ones first, and a step gets its own output also after  *)
(* calls that failed on some worker.                                         *)
OwnReplies ==
  /\ In("batched") => Batched!OwnReplies
  /\ In("failures") => Failures!StepReplies

(* No call hangs when a method raises, a deadline passes or a worker dies.   *)
CallsReturn == In("returns") => Returns!CallsReturn
=============================================================================

------------------------- MODULE OffloadingConnector -------------------------
(***************************************************************************)
(* The offloading connector (kv_connector/v1/offloading_connector.py) in   *)
(* the engine loop: the FCFS scheduler and its KV blocks, the connector's  *)
(* scheduler side with a manager that keeps the contract of OffloadStore,  *)
(* its worker side, and the copies between GPU and CPU memory that run     *)
(* while the engine goes on.                                               *)
(*                                                                         *)
(* The manager is the LRU one up to its order: any unused block may be the *)
(* next evicted, so touch changes nothing, and a refused prepare_store     *)
(* changes nothing either.  The ARC manager does more: its refused store   *)
(* may have evicted, and the touch after a store raises (MCOffload).       *)
(*                                                                         *)
(* A block is one token, on the GPU and on the CPU.  A request is a prompt *)
(* of block hashes and finishes with its first output token.  The contents *)
(* of a block are the hash of the prefix they were computed from.          *)
(***************************************************************************)
EXTENDS Integers, Sequences, SequencesExt, FiniteSetsExt

CONSTANTS
  Chain,            \* Chain[r]: the block hashes of request r
  Hashes,
  NumGpuBlocks, NumCpuBlocks,
  max_num_scheduled_tokens, long_prefill_token_threshold,
  enable_prefix_caching,
  Warm,             \* blocks offloaded by earlier requests
  MaxAborts,        \* bound: aborted requests
  MaxResets         \* bound: calls of reset_prefix_cache(reset_running_requests=True)

VARIABLES
  phase,            \* where the engine step is
  Q,                \* requests: status, num_computed_tokens, num_preemptions > 0
  S,                \* the scheduler's queues and the step's output
  G,                \* KV blocks: ids per request, free queue, cached hashes, contents
  C,                \* OffloadingConnectorScheduler
  M,                \* the offloading manager: status and readers of a block, its data
  W,                \* OffloadingConnectorWorker and the transfers under way
  failed,           \* an assertion of the scheduler failed
  aborts, resets

vars == <<phase, Q, S, G, C, M, W, failed, aborts, resets>>

Reqs == DOMAIN Chain
GpuBlocks == 1..NumGpuBlocks
Junk == "junk"
NumTokens(r) == Len(Chain[r])

Init ==
  /\ phase = "idle"
  /\ Q = [r \in Reqs |-> [status |-> "none", computed |-> 0, resumed |-> FALSE]]
  /\ S = [waiting |-> <<>>, running |-> <<>>, skipped |-> <<>>, scheduled |-> [r \in Reqs |-> 0],
          todo |-> {}, preempted |-> {}, finished |-> {}, recved |-> {}, budget |-> 0, idx |-> 0]
  /\ G = [ids |-> [r \in Reqs |-> <<>>], free |-> [b \in GpuBlocks |-> b],
          cached |-> [b \in GpuBlocks |-> Junk], content |-> [b \in GpuBlocks |-> Junk]]
  /\ C = [next |-> [r \in Reqs |-> 0], keys |-> {}, stored |-> [r \in Reqs |-> {}],
          loaded |-> [r \in Reqs |-> {}], to_load |-> <<>>, to_store |-> <<>>]
  /\ M = [status |-> [h \in Hashes |-> IF h \in Warm THEN "ready" ELSE "absent"],
          readers |-> [h \in Hashes |-> 0], data |-> [h \in Hashes |-> IF h \in Warm THEN h ELSE Junk]]
  /\ W = [unsubmitted |-> <<>>, stores |-> <<>>, loads |-> <<>>,
          store_jobs |-> [r \in Reqs |-> -1],   \* -1: the request has no key
          finished |-> {}, sent |-> {}, recved |-> {}]
  /\ failed = FALSE /\ aborts = 0 /\ resets = 0

(***************************************************************************)
(* KV blocks.                                                              *)
(***************************************************************************)
Without(q, X) == SelectSeq(q, LAMBDA x : x \notin X)

\* Free a request's blocks, the last first; the shared ones stay with their other holders.
Free(g, r) ==
  LET others == UNION {ToSet(g.ids[o]) : o \in Reqs \ {r}} IN
  [g EXCEPT !.ids[r] = <<>>, !.free = @ \o Without(Reverse(g.ids[r]), others)]

\* Take cached blocks and then fresh ones from the head of the free queue.
Take(g, r, hit, n) ==
  LET rest == Without(g.free, ToSet(hit))
      new == SubSeq(rest, 1, n)
  IN  [g EXCEPT !.ids[r] = @ \o hit \o new, !.free = SubSeq(rest, n + 1, Len(rest)),
                !.cached = [b \in GpuBlocks |-> IF b \in ToSet(new) THEN Junk ELSE @[b]]]
CanTake(hit, n) == n <= Len(Without(G.free, ToSet(hit)))

CacheBlocks(g, r, n) ==
  [g EXCEPT !.cached = [b \in GpuBlocks |->
     IF enable_prefix_caching /\ \E i \in 1..n : g.ids[r][i] = b
     THEN Chain[r][CHOOSE i \in 1..n : g.ids[r][i] = b] ELSE @[b]]]

\* The longest cached prefix, short of the last token.
get_computed_blocks(r) ==
  LET Hit(i) == enable_prefix_caching /\ \E b \in GpuBlocks : G.cached[b] = Chain[r][i]
      n == Max({k \in 0..NumTokens(r) - 1 : \A i \in 1..k : Hit(i)})
  IN  [i \in 1..n |-> CHOOSE b \in GpuBlocks : G.cached[b] = Chain[r][i]]

(***************************************************************************)
(* Between steps: requests arrive, are aborted, and the prefix cache is    *)
(* reset.                                                                  *)
(***************************************************************************)
add_request(r) ==
  /\ phase = "idle" /\ Q[r].status = "none"
  /\ Q' = [Q EXCEPT ![r].status = "waiting"]
  /\ S' = [S EXCEPT !.waiting = Append(@, r)]
  /\ UNCHANGED <<phase, G, C, M, W, failed, aborts, resets>>

\* request_finished: the request is being saved when the connector has a set of stores for it.
request_finished(r) == r \in C.keys

\* A finished request: its blocks and its entry go now, or with the end of its transfers.
free_request(r, delay) ==
  /\ Q' = [Q EXCEPT ![r].status = IF delay \/ request_finished(r) THEN "finished" ELSE "gone"]
  /\ G' = IF delay \/ request_finished(r) THEN G ELSE Free(G, r)
  /\ C' = [C EXCEPT !.next[r] = 0]

finish_requests(r) ==
  /\ phase = "idle" /\ aborts < MaxAborts
  /\ Q[r].status \in {"waiting", "preempted", "remote", "running"}
  /\ free_request(r, Q[r].status = "remote" /\ r \notin S.recved)
  /\ S' = [S EXCEPT !.waiting = Without(@, {r}), !.running = Without(@, {r}),
                    !.finished = @ \cup {r}, !.recved = @ \ {r}]
  /\ aborts' = aborts + 1
  /\ UNCHANGED <<phase, M, W, failed, resets>>

\* Preempts every running request outside schedule; the cached hashes go when no block is
\* held.  When one is, the call ends in a RuntimeError that its client gets; the state it
\* leaves is this one.
reset_prefix_cache ==
  LET g == FoldLeft(Free, G, Reverse(S.running)) IN
  /\ phase = "idle" /\ resets < MaxResets /\ S.running # <<>>
  /\ Q' = [r \in Reqs |-> IF r \in ToSet(S.running)
                          THEN [status |-> "preempted", computed |-> 0, resumed |-> TRUE] ELSE Q[r]]
  /\ S' = [S EXCEPT !.waiting = S.running \o @, !.running = <<>>]
  /\ G' = IF Len(g.free) = NumGpuBlocks THEN [g EXCEPT !.cached = [b \in GpuBlocks |-> Junk]] ELSE g
  /\ resets' = resets + 1
  /\ UNCHANGED <<phase, C, M, W, failed, aborts>>

(***************************************************************************)
(* schedule: the running requests.                                         *)
(***************************************************************************)
HasRequests == S.waiting # <<>> \/ S.running # <<>> \/ S.finished # {}

BeginSchedule ==
  /\ phase = "idle" /\ HasRequests
  /\ phase' = "running"
  /\ S' = [S EXCEPT !.scheduled = [r \in Reqs |-> 0], !.preempted = {}, !.skipped = <<>>,
                    !.budget = max_num_scheduled_tokens, !.idx = 1]
  /\ UNCHANGED <<Q, G, C, M, W, failed, aborts, resets>>

RunningLeft == phase = "running" /\ S.idx <= Len(S.running) /\ S.budget > 0
Scheduled(r, n) == [S EXCEPT !.scheduled[r] = n, !.budget = @ - n]
NewTokens(r) == Min({NumTokens(r) - Q[r].computed, long_prefill_token_threshold, S.budget})
NewBlocks(r) == Q[r].computed + NewTokens(r) - Len(G.ids[r])

ScheduleRunning ==
  /\ RunningLeft
  /\ LET r == S.running[S.idx] IN
     /\ CanTake(<<>>, NewBlocks(r))
     /\ G' = CacheBlocks(Take(G, r, <<>>, NewBlocks(r)), r, Q[r].computed + NewTokens(r))
     /\ S' = [Scheduled(r, NewTokens(r)) EXCEPT !.idx = @ + 1]
  /\ UNCHANGED <<phase, Q, C, M, W, failed, aborts, resets>>

Preempt ==
  /\ RunningLeft
  /\ LET r == S.running[S.idx]
         v == Last(S.running)
     IN  /\ ~CanTake(<<>>, NewBlocks(r))
         /\ G' = Free(G, v)
         /\ Q' = [Q EXCEPT ![v] = [status |-> "preempted", computed |-> 0, resumed |-> TRUE]]
         /\ S' = [S EXCEPT !.running = Front(@), !.waiting = <<v>> \o @, !.preempted = @ \cup {v}]
         /\ phase' = IF v = r THEN "ended" ELSE "running"
  /\ UNCHANGED <<C, M, W, failed, aborts, resets>>

RunningDone ==
  /\ phase = "running" /\ ~RunningLeft
  /\ phase' = IF S.preempted = {} THEN "waiting" ELSE "ended"
  /\ UNCHANGED <<Q, S, G, C, M, W, failed, aborts, resets>>

(***************************************************************************)
(* schedule: the waiting requests.                                         *)
(***************************************************************************)
WaitingLeft == phase = "waiting" /\ S.waiting # <<>> /\ S.budget > 0

\* Blocks that are still being stored count too.
lookupMutant(r, local) ==
  Max({k \in 0..NumTokens(r) - local : \A i \in local + 1..local + k : M.status[Chain[r][i]] # "absent"})
\* get_num_new_matched_tokens, the blocks ready beyond the local ones: lookup.
lookup(r, local) ==
  Max({k \in 0..NumTokens(r) - local : \A i \in local + 1..local + k : M.status[Chain[r][i]] = "ready"})
Loading == IF enable_prefix_caching THEN UNION {C.loaded[r] : r \in Reqs} ELSE {}
Hits(r, local) == {Chain[r][i] : i \in local + 1..local + lookup(r, local)}

\* The request's load is still running, or blocks it would load are being loaded.
Skip ==
  /\ WaitingLeft
  /\ LET r == S.waiting[1] IN
     /\ \/ Q[r].status = "remote" /\ r \notin S.recved
        \/ /\ Q[r].status # "remote" /\ Q[r].computed = 0
           /\ Hits(r, Len(get_computed_blocks(r))) \cap Loading # {}
     /\ S' = [S EXCEPT !.waiting = Without(@, {r}), !.skipped = Append(@, r)]
  /\ UNCHANGED <<phase, Q, G, C, M, W, failed, aborts, resets>>

\* _update_waiting_for_remote_kv: the loaded blocks count as computed, short of the last token.
Received ==
  /\ WaitingLeft
  /\ LET r == S.waiting[1]
         n == Min({Len(G.ids[r]), NumTokens(r) - 1})
     IN  /\ Q[r].status = "remote" /\ r \in S.recved
         /\ Q' = [Q EXCEPT ![r].status = IF Q[r].resumed THEN "preempted" ELSE "waiting", ![r].computed = n]
         /\ G' = CacheBlocks(G, r, n)
         /\ S' = [S EXCEPT !.recved = @ \ {r}]
  /\ UNCHANGED <<phase, C, M, W, failed, aborts, resets>>

\* A load begins: blocks are allocated, the request waits for them.
Load ==
  /\ WaitingLeft
  /\ LET r == S.waiting[1]
         local == get_computed_blocks(r)
         hits == Hits(r, Len(local))
         n == Cardinality(hits)
         g == Take(G, r, local, n)
     IN  /\ Q[r].status # "remote" /\ Q[r].computed = 0
         /\ hits # {} /\ hits \cap Loading = {} /\ CanTake(local, n)
         /\ G' = g
         /\ M' = [M EXCEPT !.readers = [h \in Hashes |-> IF h \in hits THEN @[h] + 1 ELSE @[h]]]
         /\ C' = [C EXCEPT !.loaded[r] = @ \cup hits, !.next[r] = Len(local) + n,
                           !.to_load = Append(@, [req |-> r, done |-> FALSE,
                             gpu |-> SubSeq(g.ids[r], Len(local) + 1, Len(local) + n),
                             cpu |-> SubSeq(Chain[r], Len(local) + 1, Len(local) + n)])]
         /\ Q' = [Q EXCEPT ![r].status = "remote"]
         /\ S' = [S EXCEPT !.waiting = Without(@, {r}), !.skipped = Append(@, r)]
  /\ UNCHANGED <<phase, W, failed, aborts, resets>>

\* A request that has nothing to load, or has loaded, runs.
Local(r) == IF Q[r].computed = 0 THEN get_computed_blocks(r) ELSE <<>>
Admitted(r) == Q[r].status # "remote" /\ (Q[r].computed = 0 => Hits(r, Len(Local(r))) = {})
ToCompute(r) == Min({NumTokens(r) - Q[r].computed - Len(Local(r)), long_prefill_token_threshold, S.budget})
ToAllocate(r) == Q[r].computed + ToCompute(r) - Len(G.ids[r])

Admit ==
  /\ WaitingLeft
  /\ LET r == S.waiting[1]
         total == Q[r].computed + Len(Local(r))
     IN  /\ Admitted(r) /\ CanTake(Local(r), ToAllocate(r))
         /\ G' = CacheBlocks(Take(G, r, Local(r), ToAllocate(r)), r, total + ToCompute(r))
         /\ Q' = [Q EXCEPT ![r].status = "running", ![r].computed = total]
         /\ S' = [Scheduled(r, ToCompute(r)) EXCEPT !.waiting = Without(@, {r}), !.running = Append(@, r)]
  /\ UNCHANGED <<phase, C, M, W, failed, aborts, resets>>

\* The blocks the first request needs cannot be had.
BlocksRunOut ==
  /\ WaitingLeft
  /\ LET r == S.waiting[1]
         hits == Hits(r, Len(Local(r)))
     IN  \/ Admitted(r) /\ ~CanTake(Local(r), ToAllocate(r))
         \/ /\ Q[r].status # "remote" /\ ~Admitted(r) /\ hits \cap Loading = {}
            /\ ~CanTake(Local(r), Cardinality(hits))

WaitingDone ==
  /\ phase = "waiting" /\ (WaitingLeft => BlocksRunOut)
  /\ phase' = "ended"
  /\ UNCHANGED <<Q, S, G, C, M, W, failed, aborts, resets>>

(***************************************************************************)
(* build_connector_meta: one prepare_store per scheduled request, then the *)
(* stores of the requests preempted in this step are completed, before the *)
(* worker has waited for them.                                             *)
(***************************************************************************)
EndSchedule ==
  /\ phase = "ended" /\ phase' = "build"
  /\ S' = [S EXCEPT !.waiting = S.skipped \o @, !.skipped = <<>>,
                    !.todo = {r \in Reqs : S.scheduled[r] > 0}]
  /\ UNCHANGED <<Q, G, C, M, W, failed, aborts, resets>>

Held(m) == {h \in Hashes : m.status[h] # "absent"}
Evictable == {h \in Hashes : M.status[h] = "ready" /\ M.readers[h] = 0}

\* The blocks a request has complete after this step and has not offered before; manager.touch
\* on the blocks so far (line 447) only reorders the LRU manager's evictions.
_get_reqs_to_store(r) ==
  LET upto == Q[r].computed + S.scheduled[r]
      at == SelectSeq([i \in 1..upto |-> i],
                      LAMBDA i : i > C.next[r] /\ M.status[Chain[r][i]] = "absent")
      new == {Chain[r][at[k]] : k \in 1..Len(at)}
      short == Max({0, Len(at) - (NumCpuBlocks - Cardinality(Held(M)))})
      job == [req |-> r, done |-> FALSE, gpu |-> [k \in 1..Len(at) |-> G.ids[r][at[k]]],
              cpu |-> [k \in 1..Len(at) |-> Chain[r][at[k]]]]
  IN  /\ phase = "build" /\ r \in S.todo
      /\ S' = [S EXCEPT !.todo = @ \ {r}]
      /\ IF short > Cardinality(Evictable)
         THEN UNCHANGED <<C, M>>
         ELSE /\ \E gone \in kSubset(short, Evictable) :
                   M' = [M EXCEPT !.status = [h \in Hashes |-> IF h \in new THEN "storing"
                                                               ELSE IF h \in gone THEN "absent" ELSE @[h]],
                                  !.data = [h \in Hashes |-> IF h \in new \cup gone THEN Junk ELSE @[h]]]
              /\ C' = IF at = <<>> THEN [C EXCEPT !.next[r] = Max({@, upto})]
                      ELSE [C EXCEPT !.next[r] = upto, !.to_store = Append(@, job),
                                     !.keys = @ \cup {r}, !.stored[r] = @ \cup new]
      /\ UNCHANGED <<phase, Q, G, W, failed, aborts, resets>>

\* complete_store, for the blocks of a set that are being stored.
complete_store(m, H) ==
  [m EXCEPT !.status = [h \in Hashes |-> IF h \in H /\ @[h] = "storing" THEN "ready" ELSE @[h]]]

\* ... and _update_after_schedule.
build_connector_meta ==
  /\ phase = "build" /\ S.todo = {}
  /\ M' = complete_store(M, UNION {C.stored[r] : r \in S.preempted})
  /\ C' = [C EXCEPT !.stored = [r \in Reqs |-> IF r \in S.preempted THEN {} ELSE @[r]]]
  /\ Q' = [r \in Reqs |-> [Q[r] EXCEPT !.computed = @ + S.scheduled[r]]]
  /\ phase' = "start"
  /\ UNCHANGED <<S, G, W, failed, aborts, resets>>

(***************************************************************************)
(* The worker.  Transfers of a direction run in the order of submission,   *)
(* beside the engine.                                                      *)
(***************************************************************************)
Undone(q) == {k \in 1..Len(q) : ~q[k].done}

\* The data after the copies of the store jobs k out of the GPU.
CopiedOut(q, K) ==
  [h \in Hashes |-> LET J == {k \in K : h \in ToSet(q[k].cpu)} IN
     IF J = {} THEN M.data[h]
     ELSE LET job == q[Max(J)] IN G.content[job.gpu[CHOOSE i \in 1..Len(job.cpu) : job.cpu[i] = h]]]
MarkDone(q, K) == [k \in 1..Len(q) |-> [q[k] EXCEPT !.done = @ \/ k \in K]]

TransferStore ==
  /\ phase \in {"start", "forward"} /\ Undone(W.stores) # {}
  /\ LET k == Min(Undone(W.stores)) IN
     /\ M' = [M EXCEPT !.data = CopiedOut(W.stores, {k})]
     /\ W' = [W EXCEPT !.stores = MarkDone(@, {k})]
  /\ UNCHANGED <<phase, Q, S, G, C, failed, aborts, resets>>

TransferLoad ==
  /\ phase \in {"start", "forward"} /\ Undone(W.loads) # {}
  /\ LET k == Min(Undone(W.loads))
         job == W.loads[k]
     IN  /\ G' = [G EXCEPT !.content = [b \in GpuBlocks |->
                    IF b \in ToSet(job.gpu) THEN M.data[job.cpu[CHOOSE i \in 1..Len(job.gpu) : job.gpu[i] = b]]
                    ELSE @[b]]]
         /\ W' = [W EXCEPT !.loads = MarkDone(@, {k})]
  /\ UNCHANGED <<phase, Q, S, C, M, failed, aborts, resets>>

\* The jobs are submitted, none is waited for.
handle_preemptionsMutant(q) == {}
\* The store jobs that are done when handle_preemptions has waited for the preempted requests' ones.
handle_preemptions(q) == LET J == {k \in 1..Len(q) : q[k].req \in S.preempted} IN
  IF J = {} THEN {} ELSE Undone(q) \cap 1..Max(J)

\* handle_preemptions, then start_kv_transfers: deferred stores first, then the loads.
StartTransfers ==
  /\ phase = "start" /\ phase' = "forward"
  /\ LET q == W.stores \o W.unsubmitted IN
     /\ W' = [W EXCEPT !.unsubmitted = <<>>, !.stores = MarkDone(q, handle_preemptions(q)),
                       !.loads = @ \o C.to_load]
     /\ M' = [M EXCEPT !.data = CopiedOut(q, handle_preemptions(q))]
  /\ C' = [C EXCEPT !.to_load = <<>>]
  /\ UNCHANGED <<Q, S, G, failed, aborts, resets>>

Written(b) == {r \in Reqs : \E i \in Q[r].computed - S.scheduled[r] + 1..Q[r].computed : G.ids[r][i] = b}

\* The requests a job was done for, and the jobs that remain.
DonePrefix(q) == IF Undone(q) = {} THEN Len(q) ELSE Min(Undone(q)) - 1
Jobs(q, r) == Cardinality({k \in 1..Len(q) : q[k].req = r})

(***************************************************************************)
(* The forward pass writes the new tokens' blocks; prepare_store_kv defers *)
(* the stores to the next step; get_finished reports the finished          *)
(* transfers.                                                              *)
(***************************************************************************)
Forward ==
  LET n == DonePrefix(W.stores)
      ended == SubSeq(W.stores, 1, n)
      left == [r \in Reqs |-> IF Jobs(C.to_store, r) = 0 THEN W.store_jobs[r] - Jobs(ended, r)
                              ELSE Max({0, W.store_jobs[r]}) + 1 - Jobs(ended, r)]
      sent == {r \in W.finished : left[r] = 0 /\ Jobs(ended, r) > 0} \cup {r \in S.finished : left[r] = 0}
  IN  /\ phase = "forward" /\ phase' = "update"
      /\ G' = [G EXCEPT !.content = [b \in GpuBlocks |-> IF Written(b) = {} THEN @[b] ELSE
                  LET r == CHOOSE r \in Written(b) : TRUE IN
                  Chain[r][CHOOSE i \in 1..NumTokens(r) : i <= Len(G.ids[r]) /\ G.ids[r][i] = b]]]
      /\ W' = [W EXCEPT !.unsubmitted = C.to_store,
                        !.stores = SubSeq(@, n + 1, Len(@)),
                        !.loads = SubSeq(@, DonePrefix(@) + 1, Len(@)),
                        !.recved = {W.loads[k].req : k \in 1..DonePrefix(W.loads)},
                        !.sent = sent,
                        !.finished = (@ \cup {r \in S.finished : left[r] > 0}) \ sent,
                        !.store_jobs = [r \in Reqs |-> IF r \in sent THEN -1 ELSE left[r]]]
      /\ C' = [C EXCEPT !.to_store = <<>>]
      /\ S' = [S EXCEPT !.finished = {}]
      /\ UNCHANGED <<Q, M, failed, aborts, resets>>

(***************************************************************************)
(* update_from_output: requests whose prompt is computed finish; then the  *)
(* finished transfers are applied, to the connector and to the requests.   *)
(***************************************************************************)
FinishRequests ==
  /\ phase = "update"
  /\ \E r \in ToSet(S.running) :
       /\ Q[r].computed = NumTokens(r) /\ S.scheduled[r] > 0
       /\ free_request(r, FALSE)
       /\ S' = [S EXCEPT !.running = Without(@, {r}), !.finished = @ \cup {r}]
  /\ UNCHANGED <<phase, M, W, failed, aborts, resets>>

\* The loads that ended are not completed.
update_connector_outputMutant(m) == complete_store(m, UNION {C.stored[r] : r \in W.sent})
\* The stores of the requests sent are completed, the blocks of the requests received released.
update_connector_output(m) ==
  [complete_store(m, UNION {C.stored[r] : r \in W.sent}) EXCEPT
     !.readers = [h \in Hashes |-> @[h] - Cardinality({r \in W.recved : h \in C.loaded[r]})]]

\* The blocks being loaded are never cleared.
StillLoadingMutant(r) == C.loaded[r]
StillLoading(r) == IF r \in W.recved THEN {} ELSE C.loaded[r]

_update_from_kv_xfer_finished ==
  LET ending == {r \in W.recved : Q[r].status # "remote"} \cup W.sent IN
  /\ phase = "update" /\ phase' = "idle"
  /\ \A r \in ToSet(S.running) : S.scheduled[r] > 0 => Q[r].computed < NumTokens(r)
  /\ M' = update_connector_output(M)
  /\ C' = [C EXCEPT !.keys = @ \ W.sent,
                    !.stored = [r \in Reqs |-> IF r \in W.sent THEN {} ELSE @[r]],
                    !.loaded = [r \in Reqs |-> StillLoading(r)]]
  /\ failed' = (W.sent \cap W.recved # {} \/ \E r \in ending : Q[r].status # "finished")
  /\ S' = [S EXCEPT !.recved = @ \cup {r \in W.recved : Q[r].status = "remote"}]
  /\ G' = FoldSet(LAMBDA r, g : Free(g, r), G, ending)
  /\ Q' = [r \in Reqs |-> IF r \in ending THEN [Q[r] EXCEPT !.status = "gone"] ELSE Q[r]]
  /\ W' = [W EXCEPT !.sent = {}, !.recved = {}]
  /\ UNCHANGED <<aborts, resets>>

EngineStep ==
  \/ BeginSchedule \/ ScheduleRunning \/ Preempt \/ RunningDone
  \/ Skip \/ Received \/ Load \/ Admit \/ WaitingDone \/ EndSchedule
  \/ \E r \in Reqs : _get_reqs_to_store(r)
  \/ build_connector_meta \/ StartTransfers \/ Forward \/ FinishRequests
  \/ _update_from_kv_xfer_finished

\* Nothing is left to do.
Idle == phase = "idle" /\ ~HasRequests /\ UNCHANGED vars

Next == ~failed /\
  \/ \E r \in Reqs : add_request(r) \/ finish_requests(r)
  \/ reset_prefix_cache
  \/ EngineStep \/ TransferStore \/ TransferLoad \/ Idle

Spec == Init /\ [][Next]_vars

\* The engine steps while it has requests; the copies under way make progress.
Fairness ==
  /\ []<>(phase = "idle" /\ ~HasRequests) \/ []<><<EngineStep>>_vars
  /\ []<>(Undone(W.stores) = {}) \/ []<><<TransferStore>>_vars
  /\ []<>(Undone(W.loads) = {}) \/ []<><<TransferLoad>>_vars
FairSpec == Spec /\ Fairness

(***************************************************************************)
(* Properties.                                                             *)
(***************************************************************************)
Statuses == {"none", "waiting", "preempted", "remote", "running", "finished", "gone"}
TypeOK ==
  /\ phase \in {"idle", "running", "waiting", "ended", "build", "start", "forward", "update"}
  /\ \A r \in Reqs : Q[r].status \in Statuses /\ Q[r].computed \in 0..NumTokens(r)
  /\ IsInjective(G.free) /\ \A r \in Reqs : IsInjective(G.ids[r])
  /\ M.readers \in [Hashes -> 0..Cardinality(Reqs)] /\ Cardinality(Held(M)) <= NumCpuBlocks
  /\ \A r \in Reqs : W.store_jobs[r] >= -1

\* After every forward pass the blocks of each request that took part hold the keys and
\* values of its own prefix, computed, shared through the prefix cache or loaded back from
\* the CPU, whatever was preempted and copied in the meantime.
ReadsOwn == phase = "update" =>
  \A r \in Reqs : S.scheduled[r] > 0 /\ Q[r].status = "running" =>
    \A i \in 1..Q[r].computed : G.content[G.ids[r][i]] = Chain[r][i]

\* A block that can be looked up has been written, with its own contents, by the time any
\* copy out of it can start: completing the stores of a preempted request early is safe.
ReadyWritten == phase = "forward" => \A h \in Hashes : M.status[h] = "ready" => M.data[h] = h

\* A copy out of or into GPU memory only touches blocks its request still holds.
CopiesOwn == phase = "forward" =>
  \A k \in Undone(W.stores) \cup Undone(W.loads) :
    /\ k \in Undone(W.stores) => ToSet(W.stores[k].gpu) \subseteq ToSet(G.ids[W.stores[k].req])
    /\ k \in Undone(W.loads) => ToSet(W.loads[k].gpu) \subseteq ToSet(G.ids[W.loads[k].req])

\* The manager's books and the connector's agree: a block has as many readers as requests
\* are loading it, and is being stored while exactly one request stores it.
Accounted == phase = "idle" => \A h \in Hashes :
  /\ M.readers[h] = Cardinality({r \in Reqs : h \in C.loaded[r]})
  /\ (M.status[h] = "storing") = (Cardinality({r \in Reqs : h \in C.stored[r]}) = 1)

\* The assertions of _update_from_kv_xfer_finished hold: a transfer that ends belongs to a
\* request the scheduler still has, waiting for it or finished.
NoAssert == ~failed

\* Every request ends.
AllFinish == \A r \in Reqs : Q[r].status # "none" ~> Q[r].status \in {"finished", "gone"}

=============================================================================

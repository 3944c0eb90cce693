------------------------------- MODULE DPWaves -------------------------------
(***************************************************************************)
(* Data-parallel engines of a mixture-of-experts model step together:      *)
(* every forward pass is a collective of all of them.  Between "waves" of  *)
(* requests all are paused.  Front-ends, the coordinator process           *)
(* (coordinator.py) and the engines (DPEngineCoreProc) exchange messages   *)
(* over independent FIFO sockets so that all engines start when one has a  *)
(* request and stop, by an all-reduce every SyncEvery steps, when none has.*)
(*                                                                         *)
(* Stats, scale-up and pausing are left out.  A message "in" a channel may *)
(* still be in transit, so an engine may stop reading its input at any     *)
(* time there is work.                                                     *)
(***************************************************************************)
EXTENDS Integers, Sequences, FiniteSets

CONSTANTS
  NumEngines, NumClients,
  SlowFrontEnd,  \* may a FIRST_REQ wait while several states arrive
  SyncEvery,     \* steps between all-reduces (32)
  RequestSteps,  \* bound: forward passes a request takes
  MaxRequests,   \* bound: requests sent
  MaxDropped     \* bound: requests whose preprocessing fails

Engines == 0..NumEngines - 1
Clients == 1..NumClients
None == -1

VARIABLES
  \* front-ends (DPAsyncMPClient)
  cwave, crunning,
  first_req,      \* per client: FIRST_REQ messages for its own stats task
  \* coordinator
  gwave, grunning,
  \* engines
  ewave, engines_running, work, step_counter,
  pc,             \* "input", "step", "stepped" or "reduce"
  \* sockets
  to_coordinator, \* per client: [exclude, wave]
  to_client,      \* per client: [wave, running]
  add_queue,      \* per client and engine: wave and outcome of each ADD
  start_queue,    \* per engine: [wave, exclude] of each START_DP_WAVE
  from_engine,    \* per engine: [kind, wave] for the coordinator
  sent, dropped

clients == <<cwave, crunning, first_req>>
coordinator == <<gwave, grunning>>
engines == <<ewave, engines_running, work, step_counter, pc>>
sockets == <<to_coordinator, to_client, add_queue, start_queue, from_engine>>
vars == <<clients, coordinator, engines, sockets, sent, dropped>>

Init ==
  /\ cwave = [c \in Clients |-> 0] /\ crunning = [c \in Clients |-> FALSE]
  /\ first_req = [c \in Clients |-> <<>>]
  /\ gwave = 0 /\ grunning = FALSE
  /\ ewave = [e \in Engines |-> 0] /\ engines_running = [e \in Engines |-> FALSE]
  /\ work = [e \in Engines |-> 0] /\ step_counter = [e \in Engines |-> 0]
  /\ pc = [e \in Engines |-> "input"]
  /\ to_coordinator = [c \in Clients |-> <<>>] /\ to_client = [c \in Clients |-> <<>>]
  /\ add_queue = [c \in Clients |-> [e \in Engines |-> <<>>]] /\ start_queue = [e \in Engines |-> <<>>]
  /\ from_engine = [e \in Engines |-> <<>>]
  /\ sent = 0 /\ dropped = 0

(***************************************************************************)
(* Front-ends.                                                             *)
(***************************************************************************)
add_request_async(c, e, ok) ==
  /\ sent < MaxRequests /\ sent' = sent + 1
  /\ ~ok => dropped < MaxDropped
  /\ dropped' = IF ok THEN dropped ELSE dropped + 1
  /\ add_queue' = [add_queue EXCEPT ![c][e] = Append(@, [wave |-> cwave[c], ok |-> ok])]
  /\ first_req' = IF crunning[c] THEN first_req
                  ELSE [first_req EXCEPT ![c] = Append(@, e)]
  /\ UNCHANGED <<cwave, crunning, coordinator, engines, to_coordinator, to_client, start_queue, from_engine>>

\* The stats task forwards a FIRST_REQ, with the wave it knows of by then.
ForwardFirstReq(c) ==
  /\ first_req[c] # <<>>
  /\ first_req' = [first_req EXCEPT ![c] = Tail(@)]
  /\ crunning' = [crunning EXCEPT ![c] = TRUE]
  /\ to_coordinator' = [to_coordinator EXCEPT
        ![c] = Append(@, [exclude |-> Head(first_req[c]), wave |-> cwave[c]])]
  /\ UNCHANGED <<cwave, coordinator, engines, to_client, add_queue, start_queue, from_engine, sent, dropped>>

\* ... and takes the latest of the states that have arrived.  A FIRST_REQ that is
\* there goes first, but not once the client believes the engines are running.
ReadStats(c) ==
  /\ first_req[c] # <<>> => crunning[c] /\ SlowFrontEnd
  /\ \E k \in 1..Len(to_client[c]) :
       /\ cwave' = [cwave EXCEPT ![c] = to_client[c][k].wave]
       /\ crunning' = [crunning EXCEPT ![c] = to_client[c][k].running]
       /\ to_client' = [to_client EXCEPT ![c] = SubSeq(@, k + 1, Len(@))]
  /\ UNCHANGED <<first_req, coordinator, engines, to_coordinator, add_queue, start_queue, from_engine, sent, dropped>>

(***************************************************************************)
(* The coordinator.                                                        *)
(***************************************************************************)
Publish ==
  to_client' = [c \in Clients |-> Append(to_client[c], [wave |-> gwave', running |-> grunning'])]

_send_start_wave(wave, exclude) ==
  start_queue' = [e \in Engines |-> Append(start_queue[e], [wave |-> wave, exclude |-> exclude])]

\* The poller's timeout: the current state again.  (Once a client has read the last.)
PublishStats ==
  /\ \A c \in Clients : to_client[c] = <<>>
  /\ \E c \in Clients : <<cwave[c], crunning[c]>> # <<gwave, grunning>>
  /\ UNCHANGED <<clients, coordinator, engines, to_coordinator, add_queue, start_queue, from_engine, sent, dropped>>
  /\ Publish

\* A request of an old wave that still exempts the engine it went to.
NewRequestMutant(c) ==
  /\ to_coordinator[c] # <<>>
  /\ to_coordinator' = [to_coordinator EXCEPT ![c] = Tail(@)]
  /\ LET m == Head(to_coordinator[c])
     IN  IF grunning THEN UNCHANGED <<coordinator, start_queue, to_client>>
         ELSE /\ grunning' = TRUE /\ gwave' = gwave
              /\ _send_start_wave(gwave, m.exclude)
              /\ Publish
  /\ UNCHANGED <<clients, engines, add_queue, from_engine, sent, dropped>>
NewRequest(c) ==
  /\ to_coordinator[c] # <<>>
  /\ to_coordinator' = [to_coordinator EXCEPT ![c] = Tail(@)]
  /\ LET m == Head(to_coordinator[c])
     IN  IF grunning THEN UNCHANGED <<coordinator, start_queue, to_client>>
         ELSE /\ grunning' = TRUE /\ gwave' = gwave
              /\ _send_start_wave(gwave, IF m.wave < gwave THEN None ELSE m.exclude)
              /\ Publish
  /\ UNCHANGED <<clients, engines, add_queue, from_engine, sent, dropped>>

EngineMessage(e) ==
  /\ from_engine[e] # <<>>
  /\ from_engine' = [from_engine EXCEPT ![e] = Tail(@)]
  /\ LET m == Head(from_engine[e])
     IN  \/ /\ m.kind = "wave_complete" /\ gwave <= m.wave
            /\ gwave' = m.wave + 1 /\ grunning' = FALSE
            /\ Publish
            /\ UNCHANGED start_queue
         \/ /\ m.kind = "start_wave"
            /\ m.wave > gwave \/ (m.wave = gwave /\ ~grunning)
            /\ gwave' = m.wave /\ grunning' = TRUE
            /\ _send_start_wave(m.wave, e)
            /\ Publish
         \/ /\ \/ m.kind = "wave_complete" /\ gwave > m.wave
               \/ m.kind = "start_wave" /\ (m.wave < gwave \/ (m.wave = gwave /\ grunning))
            /\ UNCHANGED <<coordinator, start_queue, to_client>>
  /\ UNCHANGED <<clients, engines, to_coordinator, add_queue, sent, dropped>>

(***************************************************************************)
(* The engines.  Input first: _process_input_queue.                        *)
(***************************************************************************)
Notify(e, kind) ==
  from_engine' = [from_engine EXCEPT ![e] = Append(@, [kind |-> kind, wave |-> ewave[e]])]

add_request(c, e) ==
  /\ pc[e] = "input" /\ add_queue[c][e] # <<>> /\ Head(add_queue[c][e]).ok
  /\ add_queue' = [add_queue EXCEPT ![c][e] = Tail(@)]
  /\ work' = [work EXCEPT ![e] = @ + RequestSteps]
  /\ LET wave == Head(add_queue[c][e]).wave
     IN  /\ ewave' = [ewave EXCEPT ![e] = IF wave > @ THEN wave ELSE @]
         /\ IF wave < ewave[e] /\ ~engines_running[e]
            THEN Notify(e, "start_wave")
            ELSE UNCHANGED from_engine
  /\ UNCHANGED <<engines_running, step_counter, pc, clients, coordinator, to_coordinator, to_client, start_queue, sent, dropped>>

\* preprocess_add_request raises in the input thread: the client is told, and the
\* request never reaches the engine loop.
_handle_request_preproc_error(c, e) ==
  /\ add_queue[c][e] # <<>> /\ ~Head(add_queue[c][e]).ok
  /\ add_queue' = [add_queue EXCEPT ![c][e] = Tail(@)]
  /\ UNCHANGED <<engines, clients, coordinator, to_coordinator, to_client, start_queue, from_engine, sent, dropped>>

\* A late START_DP_WAVE taken at its word.
START_DP_WAVEMutant(e) ==
  /\ pc[e] = "input" /\ start_queue[e] # <<>>
  /\ start_queue' = [start_queue EXCEPT ![e] = Tail(@)]
  /\ LET m == Head(start_queue[e])
     IN  IF m.exclude # e
         THEN /\ ewave' = [ewave EXCEPT ![e] = m.wave]
              /\ engines_running' = [engines_running EXCEPT ![e] = TRUE]
         ELSE UNCHANGED <<ewave, engines_running>>
  /\ UNCHANGED <<work, step_counter, pc, clients, coordinator, to_coordinator, to_client, add_queue, from_engine, sent, dropped>>
START_DP_WAVE(e) ==
  /\ pc[e] = "input" /\ start_queue[e] # <<>>
  /\ start_queue' = [start_queue EXCEPT ![e] = Tail(@)]
  /\ LET m == Head(start_queue[e])
     IN  IF m.exclude # e /\ m.wave >= ewave[e]
         THEN /\ ewave' = [ewave EXCEPT ![e] = m.wave]
              /\ engines_running' = [engines_running EXCEPT ![e] = TRUE]
         ELSE UNCHANGED <<ewave, engines_running>>
  /\ UNCHANGED <<work, step_counter, pc, clients, coordinator, to_coordinator, to_client, add_queue, from_engine, sent, dropped>>

\* Into a forward pass, real or dummy, and out of it with all the others.
EnterStep(e) ==
  /\ pc[e] = "input"
  /\ work[e] > 0 \/ engines_running[e]
  /\ pc' = [pc EXCEPT ![e] = "step"]
  /\ UNCHANGED <<ewave, engines_running, work, step_counter, clients, coordinator, sockets, sent, dropped>>

ForwardPass ==
  /\ \A e \in Engines : pc[e] = "step"
  /\ pc' = [e \in Engines |-> "stepped"]
  /\ work' = [e \in Engines |-> IF work[e] > 0 THEN work[e] - 1 ELSE 0]
  /\ UNCHANGED <<ewave, engines_running, step_counter, clients, coordinator, sockets, sent, dropped>>

_has_global_unfinished_reqs(e) ==
  /\ pc[e] = "stepped"
  /\ step_counter' = [step_counter EXCEPT ![e] = @ + 1]
  /\ IF step_counter'[e] % SyncEvery # 0
     THEN /\ engines_running' = [engines_running EXCEPT ![e] = TRUE]
          /\ pc' = [pc EXCEPT ![e] = "input"]
     ELSE pc' = [pc EXCEPT ![e] = "reduce"] /\ UNCHANGED engines_running
  /\ UNCHANGED <<ewave, work, clients, coordinator, sockets, sent, dropped>>

\* The all-reduce, and what follows it in run_busy_loop.
has_unfinished_dp ==
  /\ \A e \in Engines : pc[e] = "reduce"
  /\ pc' = [e \in Engines |-> "input"]
  /\ LET unfinished == \E e \in Engines : work[e] > 0
     IN  /\ engines_running' = [e \in Engines |-> unfinished]
         /\ IF unfinished THEN UNCHANGED <<ewave, step_counter, from_engine>>
            ELSE /\ Notify(0, "wave_complete")
                 /\ ewave' = [e \in Engines |-> ewave[e] + 1]
                 /\ step_counter' = [e \in Engines |-> 0]
  /\ UNCHANGED <<work, clients, coordinator, to_coordinator, to_client, add_queue, start_queue, sent, dropped>>

Front(c) == ForwardFirstReq(c) \/ ReadStats(c) \/ NewRequest(c)

Engine(e) ==
  \/ \E c \in Clients : add_request(c, e) \/ _handle_request_preproc_error(c, e)
  \/ START_DP_WAVE(e)
  \/ EnterStep(e) \/ _has_global_unfinished_reqs(e) \/ EngineMessage(e)

Next ==
  \/ \E c \in Clients, e \in Engines, ok \in BOOLEAN : add_request_async(c, e, ok)
  \/ \E c \in Clients : Front(c)
  \/ PublishStats
  \/ \E e \in Engines : Engine(e)
  \/ ForwardPass \/ has_unfinished_dp

Spec == Init /\ [][Next]_vars

\* Sockets deliver, pollers return, engine loops run; requests need not come.
FairSpec ==
  /\ Spec
  /\ WF_vars(ForwardPass) /\ WF_vars(has_unfinished_dp)
  /\ \A c \in Clients : WF_vars(ForwardFirstReq(c)) /\ WF_vars(ReadStats(c)) /\ WF_vars(NewRequest(c))
  /\ \A e \in Engines :
       /\ WF_vars(EngineMessage(e)) /\ WF_vars(_has_global_unfinished_reqs(e))
       /\ WF_vars(START_DP_WAVE(e) \/ EnterStep(e) \/ \E c \in Clients : add_request(c, e))
       /\ \A c \in Clients : WF_vars(_handle_request_preproc_error(c, e))

(***************************************************************************)
(* Properties.                                                             *)
(***************************************************************************)

\* No engine is left waiting in a collective: whenever one enters a forward pass
\* every other comes, whatever the order in which requests, wave messages and
\* stats reach them.
StepsComplete == \A e \in Engines : (pc[e] \in {"step", "reduce"}) ~> (pc[e] = "input")

\* The engines that wait in a collective wait in the same one of the same wave.
SameCollective ==
  \A e, f \in Engines :
    pc[e] \in {"step", "reduce"} /\ pc[f] \in {"step", "reduce"}
      => pc[e] = pc[f] /\ step_counter[e] = step_counter[f] /\ ewave[e] = ewave[f]

\* Once requests stop coming everybody settles: engines paused, all requests
\* done, coordinator and engines at the same wave and both know that it is over.
Settles ==
  <>[](/\ \A e \in Engines : /\ pc[e] = "input" /\ ~engines_running[e] /\ work[e] = 0
                             /\ ewave[e] = gwave
       /\ ~grunning)
=============================================================================

----------------------------- MODULE MCParallel -----------------------------
(* Micro-batch threads and data-parallel engines, one scenario for each      *)
(* instance; what a scenario is not about stays as it was initially.         *)
(*   ubatch  micro-batches without exceptions, sized by the configuration    *)
(*   raise   two micro-batches, one of which may raise                       *)
(*   waves   two engines, two front-ends, two requests                       *)
(*   faults  two engines, a refused request and a front-end that forwards    *)
(*           late                                                            *)
EXTENDS Ubatching

CONSTANT Scenarios

VARIABLES
  scenario,
  pc2, main2, cpu_event2, forward_context2, registered2, recv_hook2, left2, raises2,
  cwave, crunning, first_req, gwave, grunning, ewave, engines_running, work,
  step_counter, epc, to_coordinator, to_client, add_queue, start_queue, from_engine,
  sent, dropped

two == <<pc2, main2, cpu_event2, forward_context2, registered2, recv_hook2, left2, raises2>>
dp == <<cwave, crunning, first_req, gwave, grunning, ewave, engines_running, work,
        step_counter, epc, to_coordinator, to_client, add_queue, start_queue, from_engine,
        sent, dropped>>
mcvars == <<scenario, vars, two, dp>>

Raising == INSTANCE Ubatching WITH
  NumUbatches <- 2, Yields <- 4, UseHooks <- TRUE, MaxRaises <- 1,
  pc <- pc2, main <- main2, cpu_event <- cpu_event2, forward_context <- forward_context2,
  registered <- registered2, recv_hook <- recv_hook2, left <- left2, raises <- raises2
Waves == INSTANCE DPWaves WITH
  NumEngines <- 2, NumClients <- 2, SlowFrontEnd <- FALSE, SyncEvery <- 2,
  RequestSteps <- 1, MaxRequests <- 2, MaxDropped <- 0, pc <- epc
Faults == INSTANCE DPWaves WITH
  NumEngines <- 2, NumClients <- 1, SlowFrontEnd <- TRUE, SyncEvery <- 2,
  RequestSteps <- 1, MaxRequests <- 2, MaxDropped <- 1, pc <- epc

In(s) == scenario = s

MCInit ==
  /\ scenario \in Scenarios /\ Init /\ Raising!Init
  /\ ~In("faults") => Waves!Init
  /\ In("faults") => Faults!Init

MCNext ==
  \/ In("ubatch") /\ Next /\ UNCHANGED <<scenario, two, dp>>
  \/ In("raise") /\ Raising!Next /\ UNCHANGED <<scenario, vars, dp>>
  \/ In("waves") /\ Waves!Next /\ UNCHANGED <<scenario, vars, two>>
  \/ In("faults") /\ Faults!Next /\ UNCHANGED <<scenario, vars, two>>

(* The operating system runs every thread that is not blocked.               *)
ThreadsRun ==
  /\ WF_vars(In("ubatch") /\ (Barrier \/ WakeFirst \/ Join))
  /\ \A i \in Threads : WF_vars(In("ubatch") /\ Step(i))
  /\ WF_two(In("raise") /\ (Raising!Barrier \/ Raising!WakeFirst \/ Raising!Join))
  /\ \A i \in 0 .. 1 : WF_two(In("raise") /\ Raising!Step(i))

(* Sockets deliver, pollers return, engine loops run; requests need not come. *)
EnginesRun ==
  /\ WF_dp(In("waves") /\ Waves!ForwardPass)
  /\ WF_dp(In("waves") /\ Waves!has_unfinished_dp)
  /\ \A c \in 1 .. 2 :
       /\ WF_dp(In("waves") /\ Waves!ForwardFirstReq(c))
       /\ WF_dp(In("waves") /\ Waves!ReadStats(c))
       /\ WF_dp(In("waves") /\ Waves!NewRequest(c))
  /\ \A e \in 0 .. 1 :
       /\ WF_dp(In("waves") /\ Waves!EngineMessage(e))
       /\ WF_dp(In("waves") /\ Waves!_has_global_unfinished_reqs(e))
       /\ WF_dp(In("waves") /\ (\/ Waves!START_DP_WAVE(e) \/ Waves!EnterStep(e)
                               \/ \E c \in 1 .. 2 : Waves!add_request(c, e)))

MCFairSpec == MCInit /\ [][MCNext]_mcvars /\ ThreadsRun /\ EnginesRun

-----------------------------------------------------------------------------
(* All micro-batches end and the main thread joins them, with three threads  *)
(* and with two of which one raises.                                         *)
MainReturns == <>((In("ubatch") => main = "done") /\ (In("raise") => main2 = "done"))

(* The engines that wait in a collective wait in the same one of the same    *)
(* wave, also with late forwarding and refused requests.                     *)
SameCollective == (~In("faults") => Waves!SameCollective) /\ (In("faults") => Faults!SameCollective)

(* No engine is left waiting in a collective, and once requests stop coming, *)
(* engines and coordinator settle in one wave.                               *)
WavesEnd ==
  /\ \A e \in 0 .. 1 : (In("waves") /\ epc[e] \in {"step", "reduce"}) ~> (epc[e] = "input")
  /\ In("waves") => Waves!Settles
=============================================================================

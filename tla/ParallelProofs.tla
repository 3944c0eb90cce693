--------------------------- MODULE ParallelProofs ---------------------------
(***************************************************************************)
(* The safety properties of Ubatching for any number of micro-batches,     *)
(* all-to-alls and exceptions, and of DPWaves for any number of engines,   *)
(* front-ends and requests.                                                *)
(*                                                                         *)
(* The inductive invariant of Ubatching: there is one token, either with   *)
(* the one running thread or in the one event that is set (Token); and a   *)
(* receive hook is pending only between its owner's registration and the   *)
(* moment the token, which the owner hands straight to the hook's keeper,  *)
(* is used by it to run the hook (Hooks).                                  *)
(*                                                                         *)
(* That of DPWaves: all engines are in the same wave, the latest there is: *)
(* nothing that any process knows, or that any socket carries, is of a     *)
(* later one, and what says that a wave is complete is of an earlier one   *)
(* (Known); and between two forward passes the engines are the same number *)
(* of steps from the next all-reduce (Lockstep).                           *)
(***************************************************************************)
EXTENDS Ubatching, Sequences, TLAPS

CONSTANTS
  NumEngines, NumClients, SlowFrontEnd, SyncEvery, RequestSteps, MaxRequests, MaxDropped

VARIABLES
  cwave, crunning, first_req, gwave, grunning, ewave, engines_running, work,
  step_counter, epc, to_coordinator, to_client, add_queue, start_queue, from_engine,
  sent, dropped

Waves == INSTANCE DPWaves WITH pc <- epc

PCs == {"new", "barrier", "wait", "woken", "cleared", "run", "ran_hook", "yield",
        "exit", "exit_signal", "exit_clear", "done"}

Types ==
  /\ pc \in [Threads -> PCs]
  /\ cpu_event \in [Threads -> BOOLEAN]
  /\ registered \in [Threads -> BOOLEAN]
  /\ recv_hook \in [Threads -> Threads \cup {None}]

Token ==
  /\ \A i, j \in Threads : Running(i) /\ Running(j) => i = j
  /\ \A i, j \in Threads : Running(i) /\ cpu_event[j] => i = j /\ pc[i] = "woken"
  /\ \A i, j \in Threads : cpu_event[i] /\ cpu_event[j] => i = j

Started ==
  /\ main \in {"start", "wake"} => \A i \in Threads : ~Running(i) /\ ~cpu_event[i]
  /\ main # "start" => \A i \in Threads : pc[i] \notin {"new", "barrier"}

Context ==
  \A i \in Threads : pc[i] \in {"run", "ran_hook", "yield"} => forward_context = i

Live ==
  \A i \in Threads : registered[i] => pc[i] \notin {"new", "exit_signal", "exit_clear", "done"}

Pending(i, j) ==
  /\ j = Succ(i)
  /\ \/ pc[i] = "yield" /\ pc[j] = "wait"
     \/ pc[i] = "wait" /\ pc[j] = "wait" /\ cpu_event[j]
     \/ pc[i] = "wait" /\ pc[j] \in {"woken", "cleared", "run", "exit"}

Hooks == \A i, j \in Threads : recv_hook[j] = i => Pending(i, j)

Inv == Types /\ Token /\ Started /\ Context /\ Live /\ Hooks

\* A thread's successor in the ring is another thread.
LEMMA SuccOther == \A i \in Threads : Succ(i) \in Threads /\ Succ(i) # i
  BY UbatchAssumption, SMT DEF Threads, Succ

\* Initially there is no token and no hook.
LEMMA InitInv == Init => Inv
  BY SMT, UbatchAssumption DEF Init, Inv, Types, PCs, Token, Started, Context, Live, Hooks, Pending, Running, None, Threads

\* No thread is None.
LEMMA NoneOther == None \notin Threads /\ 0 \in Threads
  BY UbatchAssumption, SMT DEF Threads, None

\* The main thread's steps preserve the invariant.
LEMMA MainInv == Inv /\ (Barrier \/ WakeFirst \/ Join) => Inv'
<1> SUFFICES ASSUME Inv, Barrier \/ WakeFirst \/ Join PROVE Inv'
  BY Zenon
<1> USE SuccOther, NoneOther DEF Inv, Types, PCs
<1>1. CASE Barrier
  BY <1>1, SMT DEF Barrier, Token, Started, Context, Live, Hooks, Pending, Running
<1>2. CASE WakeFirst
  BY <1>2, SMT DEF WakeFirst, Token, Started, Context, Live, Hooks, Pending, Running
<1>3. CASE Join
  BY <1>3, SMT DEF Join, Token, Started, Context, Live, Hooks, Pending, Running
<1> QED
  BY <1>1, <1>2, <1>3, Zenon

\* Every step of a thread preserves the invariant.
LEMMA StepInv == ASSUME NEW t \in Threads, Inv, Step(t) PROVE Inv'
<1> USE SuccOther, NoneOther DEF Inv, Types, PCs, At
<1>1. CASE Enter(t)
  BY <1>1, SMT DEF Enter, Token, Started, Context, Live, Hooks, Pending, Running
<1>2. CASE Wake(t)
  BY <1>2, SMT DEF Wake, Token, Started, Context, Live, Hooks, Pending, Running
<1>3. CASE Clear(t)
  BY <1>3, SMT DEF Clear, Token, Started, Context, Live, Hooks, Pending, Running
<1>4. CASE _restore_context(t)
  BY <1>4, SMT DEF _restore_context, Token, Started, Context, Live, Hooks, Pending, Running
<1>5. CASE maybe_run_recv_hook(t)
  BY <1>5, SMT DEF maybe_run_recv_hook, Token, Started, Context, Live, Hooks, Pending, Running
<1>6. CASE dbo_register_recv_hook(t)
  BY <1>6, SMT DEF dbo_register_recv_hook, Token, Started, Context, Live, Hooks, Pending, Running
<1>7. CASE _cpu_yield(t)
  BY <1>7, SMT DEF _cpu_yield, Token, Started, Context, Live, Hooks, Pending, Running
<1>8. CASE Finish(t) \/ Raise(t) \/ RegisterRaises(t)
  BY <1>8, SMT DEF Finish, Raise, RegisterRaises, Token, Started, Context, Live, Hooks, Pending, Running
<1>9. CASE Deregister(t)
  BY <1>9, SMT DEF Deregister, Token, Started, Context, Live, Hooks, Pending, Running
<1>10. CASE ExitSignal(t)
  BY <1>10, SMT DEF ExitSignal, Token, Started, Context, Live, Hooks, Pending, Running
<1>11. CASE ExitClear(t)
  BY <1>11, SMT DEF ExitClear, Token, Started, Context, Live, Hooks, Pending, Running
<1> QED
  BY <1>1, <1>2, <1>3, <1>4, <1>5, <1>6, <1>7, <1>8, <1>9, <1>10, <1>11, Zenon DEF Step

\* The invariant holds in every reachable state.
THEOREM UbatchInv == Spec => []Inv
<1>1. Inv /\ [Next]_vars => Inv'
  <2> SUFFICES ASSUME Inv, [Next]_vars PROVE Inv'
    BY Zenon
  <2>1. CASE UNCHANGED vars
    BY <2>1 DEF vars, Inv, Types, Token, Started, Context, Live, Hooks, Pending, Running
  <2>2. CASE Next
    BY <2>2, MainInv, StepInv, Zenon DEF Next
  <2> QED
    BY <2>1, <2>2, Zenon
<1> QED
  BY InitInv, <1>1, PTL DEF Spec

\* "It is critical for correctness that only one thread is running at a time"
\* (_cpu_yield): for any number of micro-batches, at most one runs.
THEOREM UbatchOneRuns == Spec => []OneRuns
<1>1. Inv => OneRuns
  BY Zenon DEF Inv, Token, OneRuns
<1> QED
  BY <1>1, UbatchInv, PTL

\* The asserts of _cpu_yield on the forward context and the event hold.
THEOREM UbatchYieldAsserts == Spec => []YieldAsserts
<1>1. Inv => YieldAsserts
  BY SMT DEF Inv, Types, Token, Context, YieldAsserts, Running
<1> QED
  BY <1>1, UbatchInv, PTL

\* A thread goes on after an all-to-all only once its receive hook has been run.
THEOREM UbatchReceiveDone == Spec => []ReceiveDone
<1>1. Inv => ReceiveDone
  BY SMT DEF Inv, Types, Hooks, Pending, ReceiveDone
<1> QED
  BY <1>1, UbatchInv, PTL

\* The hand-over is sound for any number of micro-batches and all-to-alls.
THEOREM UbatchThreadsSound == Spec => []ThreadsSound
<1>1. OneRuns /\ YieldAsserts /\ ReceiveDone => ThreadsSound
  BY Zenon DEF ThreadsSound
<1> QED
  BY <1>1, UbatchOneRuns, UbatchYieldAsserts, UbatchReceiveDone, PTL

-----------------------------------------------------------------------------
(* At least one engine, and an all-reduce every so many steps. *)
Deployment == NumEngines \in Nat \ {0} /\ SyncEvery \in Nat \ {0}

Engines == Waves!Engines
Clients == Waves!Clients
Wave == ewave[0]

States(w) == [wave : 0 .. w, running : BOOLEAN]
Adds(w) == [wave : 0 .. w, ok : BOOLEAN]
Starts(w) == [wave : 0 .. w, exclude : Engines \union {-1}]
Notices(w) ==
  [kind : {"start_wave"}, wave : 0 .. w] \union [kind : {"wave_complete"}, wave : 0 .. w - 1]

(* What is known, and what is under way, when the engines are in wave w. *)
Known(w) ==
  /\ cwave \in [Clients -> 0 .. w] /\ gwave \in 0 .. w
  /\ to_client \in [Clients -> Seq(States(w))]
  /\ add_queue \in [Clients -> [Engines -> Seq(Adds(w))]]
  /\ start_queue \in [Engines -> Seq(Starts(w))]
  /\ from_engine \in [Engines -> Seq(Notices(w))]

Rest ==
  /\ crunning \in [Clients -> BOOLEAN] /\ grunning \in BOOLEAN
  /\ first_req \in [Clients -> Seq(Engines)]
  /\ to_coordinator \in [Clients -> Seq([exclude : Engines, wave : Nat])]

Together ==
  /\ ewave \in [Engines -> Nat] /\ step_counter \in [Engines -> Nat]
  /\ epc \in [Engines -> {"input", "step", "stepped", "reduce"}]
  /\ \A e \in Engines : ewave[e] = Wave

(* c: the steps counted by an engine that has not counted the last one yet. *)
Lockstep(c) ==
  /\ \A e \in Engines : step_counter[e] = IF epc[e] = "stepped" THEN c ELSE c + 1
  /\ (c + 1) % SyncEvery = 0 => \/ \A e \in Engines : epc[e] \in {"stepped", "reduce"}
                                \/ \A e \in Engines : epc[e] \in {"input", "step"}
  /\ (c + 1) % SyncEvery # 0 => \A e \in Engines : epc[e] # "reduce"

WaveInv ==
  /\ Together /\ Known(Wave) /\ Rest
  /\ \E c \in Nat \union {-1} : Lockstep(c)

(* Taking from a queue and adding to it. *)
LEMMA Queue ==
  ASSUME NEW S, NEW s \in Seq(S)
  PROVE  /\ \A x \in S : Append(s, x) \in Seq(S)
         /\ s # <<>> => Head(s) \in S /\ Tail(s) \in Seq(S)
         /\ \A k \in 1 .. Len(s) : s[k] \in S /\ SubSeq(s, k + 1, Len(s)) \in Seq(S)
  BY SMT

(* A queue of one kind of message is one of a wider kind. *)
LEMMA WiderQueue ==
  ASSUME NEW S, NEW T, S \subseteq T
  PROVE  Seq(S) \subseteq Seq(T)
  BY SMT

(* What is known in a wave is known in the next. *)
LEMMA StillKnown ==
  ASSUME NEW w \in Nat, Known(w)
  PROVE  Known(w + 1)
<1>1. /\ States(w) \subseteq States(w + 1) /\ Adds(w) \subseteq Adds(w + 1)
      /\ Starts(w) \subseteq Starts(w + 1) /\ Notices(w) \subseteq Notices(w + 1)
      /\ 0 .. w \subseteq 0 .. w + 1
  BY SMT DEF States, Adds, Starts, Notices
<1>2. /\ Seq(States(w)) \subseteq Seq(States(w + 1)) /\ Seq(Adds(w)) \subseteq Seq(Adds(w + 1))
      /\ Seq(Starts(w)) \subseteq Seq(Starts(w + 1)) /\ Seq(Notices(w)) \subseteq Seq(Notices(w + 1))
  BY <1>1, WiderQueue, Zenon
<1>3. to_client \in [Clients -> Seq(States(w + 1))]
  BY <1>2, Zenon DEF Known
<1>4. add_queue \in [Clients -> [Engines -> Seq(Adds(w + 1))]]
  BY <1>2 DEF Known
<1>5. start_queue \in [Engines -> Seq(Starts(w + 1))]
  BY <1>2, Zenon DEF Known
<1>6. from_engine \in [Engines -> Seq(Notices(w + 1))]
  BY <1>2, Zenon DEF Known
<1>7. cwave \in [Clients -> 0 .. w + 1] /\ gwave \in 0 .. w + 1
  BY <1>1, Zenon DEF Known
<1> QED
  BY <1>3, <1>4, <1>5, <1>6, <1>7, Zenon DEF Known

(* Engine 0, whose wave stands for that of all. *)
LEMMA WaveNat == ASSUME Deployment, Together PROVE 0 \in Engines /\ Wave \in Nat
  BY SMT DEF Deployment, Engines, Waves!Engines, Together, Wave

(* Initially everybody is in wave 0. *)
LEMMA WaveInit == ASSUME Deployment, Waves!Init PROVE WaveInv
<1>1. 0 \in Engines
  BY SMT DEF Deployment, Engines, Waves!Engines
<1>2. Together /\ Wave = 0
  BY <1>1, Zenon DEF Waves!Init, Together, Wave, Engines
<1>3. Known(0)
  BY SMT DEF Waves!Init, Known, Engines, Clients
<1>4. Rest
  <2>1. crunning \in [Clients -> BOOLEAN] /\ grunning \in BOOLEAN
    BY Zenon DEF Waves!Init, Clients
  <2>2. /\ first_req \in [Clients -> Seq(Engines)]
        /\ to_coordinator \in [Clients -> Seq([exclude : Engines, wave : Nat])]
    BY SMT DEF Waves!Init, Engines, Clients
  <2> QED
    BY <2>1, <2>2, Zenon DEF Rest
<1>5. Lockstep(-1)
  BY SMT DEF Waves!Init, Lockstep, Engines
<1> QED
  BY <1>2, <1>3, <1>4, <1>5, Zenon DEF WaveInv

(* A step that leaves the engines where they are. *)
LEMMA EnginesStay ==
  ASSUME WaveInv, UNCHANGED <<ewave, step_counter, epc>>, Known(Wave)', Rest'
  PROVE  WaveInv'
<1>1. Together'
  BY Zenon DEF WaveInv, Together, Wave
<1>2. (\E c \in Nat \union {-1} : Lockstep(c))'
  BY Zenon DEF WaveInv, Lockstep
<1> QED
  BY <1>1, <1>2, Zenon DEF WaveInv

(* A front-end tags a request with a wave it knows of. *)
LEMMA AddRequestAsyncInv ==
  ASSUME Deployment, WaveInv, NEW c \in Clients, NEW e \in Engines, NEW ok \in BOOLEAN,
         Waves!add_request_async(c, e, ok)
  PROVE  WaveInv'
<1>1. UNCHANGED <<ewave, step_counter, epc, cwave, crunning, gwave, grunning, to_coordinator,
                  to_client, start_queue, from_engine>>
  BY Zenon DEF Waves!add_request_async, Waves!coordinator, Waves!engines
<1>2. Wave \in Nat /\ Wave' = Wave
  BY <1>1, WaveNat, Zenon DEF WaveInv, Wave
<1>3. add_queue' \in [Clients -> [Engines -> Seq(Adds(Wave))]]
  <2>1. [wave |-> cwave[c], ok |-> ok] \in Adds(Wave) /\ add_queue[c][e] \in Seq(Adds(Wave))
    BY Zenon DEF WaveInv, Known, Adds
  <2>2. Append(add_queue[c][e], [wave |-> cwave[c], ok |-> ok]) \in Seq(Adds(Wave))
    BY <2>1, Queue, Zenon
  <2> QED
    BY <2>2, Zenon DEF Waves!add_request_async, WaveInv, Known
<1>4. first_req' \in [Clients -> Seq(Engines)]
  <2>1. Append(first_req[c], e) \in Seq(Engines)
    BY Queue, Zenon DEF WaveInv, Rest
  <2> QED
    BY <2>1, Zenon DEF Waves!add_request_async, WaveInv, Rest
<1>5. Known(Wave)' /\ Rest'
  BY <1>1, <1>2, <1>3, <1>4, Zenon DEF WaveInv, Known, Rest
<1> QED
  BY <1>1, <1>5, EnginesStay, Zenon

(* It forwards a FIRST_REQ. *)
LEMMA ForwardFirstReqInv ==
  ASSUME Deployment, WaveInv, NEW c \in Clients, Waves!ForwardFirstReq(c)
  PROVE  WaveInv'
<1>1. UNCHANGED <<ewave, step_counter, epc, cwave, gwave, grunning, to_client, add_queue,
                  start_queue, from_engine>>
  BY Zenon DEF Waves!ForwardFirstReq, Waves!coordinator, Waves!engines
<1>2. Wave \in Nat /\ Wave' = Wave
  BY <1>1, WaveNat, Zenon DEF WaveInv, Wave
<1>3. Head(first_req[c]) \in Engines /\ Tail(first_req[c]) \in Seq(Engines)
  BY Queue, Zenon DEF Waves!ForwardFirstReq, WaveInv, Rest
<1>4. [exclude |-> Head(first_req[c]), wave |-> cwave[c]] \in [exclude : Engines, wave : Nat]
  BY <1>2, <1>3, SMT DEF WaveInv, Known
<1>5. Append(to_coordinator[c], [exclude |-> Head(first_req[c]), wave |-> cwave[c]])
        \in Seq([exclude : Engines, wave : Nat])
  BY <1>4, Queue, Zenon DEF WaveInv, Rest
<1>6. crunning' \in [Clients -> BOOLEAN]
  BY Zenon DEF Waves!ForwardFirstReq, WaveInv, Rest
<1>7. Rest'
  BY <1>1, <1>3, <1>5, <1>6, Zenon DEF Waves!ForwardFirstReq, WaveInv, Rest
<1>8. Known(Wave)'
  BY <1>1, <1>2, Zenon DEF WaveInv, Known
<1> QED
  BY <1>1, <1>7, <1>8, EnginesStay, Zenon

(* It takes one of the states that the coordinator published. *)
LEMMA ReadStatsInv ==
  ASSUME Deployment, WaveInv, NEW c \in Clients, Waves!ReadStats(c)
  PROVE  WaveInv'
<1>1. UNCHANGED <<ewave, step_counter, epc, first_req, gwave, grunning, to_coordinator, add_queue,
                  start_queue, from_engine>>
  BY Zenon DEF Waves!ReadStats, Waves!coordinator, Waves!engines
<1>2. Wave \in Nat /\ Wave' = Wave
  BY <1>1, WaveNat, Zenon DEF WaveInv, Wave
<1>3. PICK k \in 1 .. Len(to_client[c]) :
         /\ cwave' = [cwave EXCEPT ![c] = to_client[c][k].wave]
         /\ crunning' = [crunning EXCEPT ![c] = to_client[c][k].running]
         /\ to_client' = [to_client EXCEPT ![c] = SubSeq(@, k + 1, Len(@))]
  BY Zenon DEF Waves!ReadStats
<1>4. /\ to_client[c][k] \in States(Wave)
      /\ SubSeq(to_client[c], k + 1, Len(to_client[c])) \in Seq(States(Wave))
  BY Queue, Zenon DEF WaveInv, Known
<1>5. to_client[c][k].wave \in 0 .. Wave /\ to_client[c][k].running \in BOOLEAN
  BY <1>4, Zenon DEF States
<1>6. crunning' \in [Clients -> BOOLEAN]
  BY <1>3, <1>5, Zenon DEF WaveInv, Rest
<1>7. Rest'
  BY <1>1, <1>6, Zenon DEF WaveInv, Rest
<1>8. Known(Wave)'
  BY <1>1, <1>2, <1>3, <1>4, <1>5, Zenon DEF WaveInv, Known
<1> QED
  BY <1>1, <1>7, <1>8, EnginesStay, Zenon

(* The coordinator publishes a wave that the engines have reached. *)
LEMMA PublishKnown ==
  ASSUME Deployment, WaveInv, gwave' \in 0 .. Wave, grunning' \in BOOLEAN, Waves!Publish
  PROVE  to_client' \in [Clients -> Seq(States(Wave))]
<1>1. [wave |-> gwave', running |-> grunning'] \in States(Wave)
  BY Zenon DEF States
<1>2. \A c \in Clients :
        Append(to_client[c], [wave |-> gwave', running |-> grunning']) \in Seq(States(Wave))
  BY <1>1, Queue, Zenon DEF WaveInv, Known
<1> QED
  BY <1>2, Zenon DEF Waves!Publish, Clients

(* ... and starts one. *)
LEMMA StartKnown ==
  ASSUME Deployment, WaveInv, NEW w \in 0 .. Wave, NEW x \in Engines \union {-1},
         Waves!_send_start_wave(w, x)
  PROVE  start_queue' \in [Engines -> Seq(Starts(Wave))]
<1>1. [wave |-> w, exclude |-> x] \in Starts(Wave)
  BY Zenon DEF Starts
<1>2. \A e \in Engines : Append(start_queue[e], [wave |-> w, exclude |-> x]) \in Seq(Starts(Wave))
  BY <1>1, Queue, Zenon DEF WaveInv, Known
<1> QED
  BY <1>2, Zenon DEF Waves!_send_start_wave, Engines

(* The poller's timeout. *)
LEMMA PublishStatsInv ==
  ASSUME Deployment, WaveInv, Waves!PublishStats
  PROVE  WaveInv'
<1>1. /\ UNCHANGED <<ewave, step_counter, epc, cwave, crunning, first_req, gwave, grunning,
                     to_coordinator, add_queue, start_queue, from_engine>>
      /\ Waves!Publish
  BY Zenon DEF Waves!PublishStats, Waves!clients, Waves!coordinator, Waves!engines
<1>2. Wave \in Nat /\ Wave' = Wave
  BY <1>1, WaveNat, Zenon DEF WaveInv, Wave
<1>3. to_client' \in [Clients -> Seq(States(Wave))]
  BY <1>1, PublishKnown, Zenon DEF WaveInv, Known, Rest
<1>4. Known(Wave)' /\ Rest'
  BY <1>1, <1>2, <1>3, Zenon DEF WaveInv, Known, Rest
<1> QED
  BY <1>1, <1>4, EnginesStay, Zenon

(* The coordinator starts its own wave for a request. *)
LEMMA NewRequestInv ==
  ASSUME Deployment, WaveInv, NEW c \in Clients, Waves!NewRequest(c)
  PROVE  WaveInv'
<1>1. UNCHANGED <<ewave, step_counter, epc, cwave, crunning, first_req, add_queue, from_engine>>
  BY Zenon DEF Waves!NewRequest, Waves!clients, Waves!engines
<1>2. Wave \in Nat /\ Wave' = Wave
  BY <1>1, WaveNat, Zenon DEF WaveInv, Wave
<1> DEFINE m == Head(to_coordinator[c])
<1>3. m \in [exclude : Engines, wave : Nat]
      /\ Tail(to_coordinator[c]) \in Seq([exclude : Engines, wave : Nat])
  BY Queue, Zenon DEF Waves!NewRequest, WaveInv, Rest
<1>4. to_coordinator' \in [Clients -> Seq([exclude : Engines, wave : Nat])]
  BY <1>3, Zenon DEF Waves!NewRequest, WaveInv, Rest
<1>5. CASE grunning
  <2>1. UNCHANGED <<gwave, grunning, start_queue, to_client>>
    BY <1>5, Zenon DEF Waves!NewRequest, Waves!coordinator
  <2>2. Known(Wave)' /\ Rest'
    BY <1>1, <1>2, <1>4, <2>1, Zenon DEF WaveInv, Known, Rest
  <2> QED
    BY <1>1, <2>2, EnginesStay, Zenon
<1>6. CASE ~grunning
  <2> DEFINE x == IF m.wave < gwave THEN Waves!None ELSE m.exclude
  <2>1. /\ grunning' = TRUE /\ gwave' = gwave /\ Waves!Publish
        /\ Waves!_send_start_wave(gwave, x)
    BY <1>6, Zenon DEF Waves!NewRequest
  <2>2. x \in Engines \union {-1}
    BY <1>3, Zenon DEF Waves!None
  <2> HIDE DEF x
  <2>3. gwave \in 0 .. Wave
    BY Zenon DEF WaveInv, Known
  <2>4. start_queue' \in [Engines -> Seq(Starts(Wave))]
    BY <2>1, <2>2, <2>3, StartKnown, Zenon
  <2>5. to_client' \in [Clients -> Seq(States(Wave))]
    BY <2>1, <2>3, PublishKnown, Zenon
  <2>6. Known(Wave)' /\ Rest'
    BY <1>1, <1>2, <1>4, <2>1, <2>4, <2>5, Zenon DEF WaveInv, Known, Rest
  <2> QED
    BY <1>1, <2>6, EnginesStay, Zenon
<1> QED
  BY <1>5, <1>6, Zenon

(* A wave that an engine reports complete is over for all, and one that it   *)
(* asks to start is theirs.                                                  *)
LEMMA EngineMessageInv ==
  ASSUME Deployment, WaveInv, NEW e \in Engines, Waves!EngineMessage(e)
  PROVE  WaveInv'
<1>1. UNCHANGED <<ewave, step_counter, epc, cwave, crunning, first_req, to_coordinator, add_queue>>
  BY Zenon DEF Waves!EngineMessage, Waves!clients, Waves!engines
<1>2. Wave \in Nat /\ Wave' = Wave
  BY <1>1, WaveNat, Zenon DEF WaveInv, Wave
<1> DEFINE m == Head(from_engine[e])
<1>3. m \in Notices(Wave) /\ Tail(from_engine[e]) \in Seq(Notices(Wave))
  BY Queue, Zenon DEF Waves!EngineMessage, WaveInv, Known
<1>4. from_engine' \in [Engines -> Seq(Notices(Wave))]
  BY <1>3, Zenon DEF Waves!EngineMessage, WaveInv, Known
<1>5. CASE /\ m.kind = "wave_complete" /\ gwave' = m.wave + 1 /\ grunning' = FALSE
           /\ Waves!Publish /\ UNCHANGED start_queue
  <2>1. gwave' \in 0 .. Wave
    BY <1>2, <1>3, <1>5, SMT DEF Notices
  <2>2. to_client' \in [Clients -> Seq(States(Wave))]
    BY <1>5, <2>1, PublishKnown, Zenon
  <2>3. Known(Wave)' /\ Rest'
    BY <1>1, <1>2, <1>4, <1>5, <2>1, <2>2, Zenon DEF WaveInv, Known, Rest
  <2> QED
    BY <1>1, <2>3, EnginesStay, Zenon
<1>6. CASE /\ gwave' = m.wave /\ grunning' = TRUE /\ Waves!_send_start_wave(m.wave, e)
           /\ Waves!Publish
  <2>1. m.wave \in 0 .. Wave
    BY <1>2, <1>3, SMT DEF Notices
  <2>2. to_client' \in [Clients -> Seq(States(Wave))]
    BY <1>6, <2>1, PublishKnown, Zenon
  <2>3. start_queue' \in [Engines -> Seq(Starts(Wave))]
    BY <1>6, <2>1, StartKnown, Zenon
  <2>4. Known(Wave)' /\ Rest'
    BY <1>1, <1>2, <1>4, <1>6, <2>1, <2>2, <2>3, Zenon DEF WaveInv, Known, Rest
  <2> QED
    BY <1>1, <2>4, EnginesStay, Zenon
<1>7. CASE UNCHANGED <<gwave, grunning, start_queue, to_client>>
  <2>1. Known(Wave)' /\ Rest'
    BY <1>1, <1>2, <1>4, <1>7, Zenon DEF WaveInv, Known, Rest
  <2> QED
    BY <1>1, <2>1, EnginesStay, Zenon
<1> QED
  BY <1>5, <1>6, <1>7, Zenon DEF Waves!EngineMessage, Waves!coordinator

(* An engine tells the coordinator of its wave. *)
LEMMA NotifyKnown ==
  ASSUME Deployment, WaveInv, NEW e \in Engines, Waves!Notify(e, "start_wave")
  PROVE  from_engine' \in [Engines -> Seq(Notices(Wave))]
<1>1. [kind |-> "start_wave", wave |-> ewave[e]] \in Notices(Wave)
  BY WaveNat, SMT DEF WaveInv, Together, Notices
<1>2. Append(from_engine[e], [kind |-> "start_wave", wave |-> ewave[e]]) \in Seq(Notices(Wave))
  BY <1>1, Queue, Zenon DEF WaveInv, Known
<1> QED
  BY <1>2, Zenon DEF Waves!Notify, WaveInv, Known

(* A request never takes an engine to a wave that the others are not in. *)
LEMMA AddRequestInv ==
  ASSUME Deployment, WaveInv, NEW c \in Clients, NEW e \in Engines, Waves!add_request(c, e)
  PROVE  WaveInv'
<1>1. UNCHANGED <<step_counter, epc, cwave, crunning, first_req, gwave, grunning, to_coordinator,
                  to_client, start_queue>>
  BY Zenon DEF Waves!add_request, Waves!clients, Waves!coordinator
<1>2. /\ Head(add_queue[c][e]) \in Adds(Wave)
      /\ Tail(add_queue[c][e]) \in Seq(Adds(Wave))
  BY Queue DEF Waves!add_request, WaveInv, Known
<1>3. Head(add_queue[c][e]).wave \in 0 .. Wave
  BY <1>2, Zenon DEF Adds
<1>4. ewave' = ewave
  <2>1. ~(Head(add_queue[c][e]).wave > ewave[e])
    BY <1>3, WaveNat, SMT DEF WaveInv, Together
  <2> QED
    BY <2>1, Zenon DEF Waves!add_request, WaveInv, Together
<1>5. Wave' = Wave
  BY <1>4, Zenon DEF Wave
<1>6. add_queue' \in [Clients -> [Engines -> Seq(Adds(Wave))]]
  BY <1>2, Zenon DEF Waves!add_request, WaveInv, Known
<1>7. from_engine' \in [Engines -> Seq(Notices(Wave))]
  BY NotifyKnown, Zenon DEF Waves!add_request, WaveInv, Known
<1>8. Known(Wave)' /\ Rest'
  BY <1>1, <1>5, <1>6, <1>7, Zenon DEF WaveInv, Known, Rest
<1> QED
  BY <1>1, <1>4, <1>8, EnginesStay, Zenon

(* A request that fails in the input thread. *)
LEMMA PreprocErrorInv ==
  ASSUME Deployment, WaveInv, NEW c \in Clients, NEW e \in Engines,
         Waves!_handle_request_preproc_error(c, e)
  PROVE  WaveInv'
<1>1. UNCHANGED <<ewave, step_counter, epc, cwave, crunning, first_req, gwave, grunning,
                  to_coordinator, to_client, start_queue, from_engine>>
  BY Zenon DEF Waves!_handle_request_preproc_error, Waves!clients, Waves!coordinator, Waves!engines
<1>2. Tail(add_queue[c][e]) \in Seq(Adds(Wave)) /\ Wave' = Wave
  BY <1>1, Queue, Zenon DEF Waves!_handle_request_preproc_error, WaveInv, Known, Wave
<1>3. add_queue' \in [Clients -> [Engines -> Seq(Adds(Wave))]]
  BY <1>2, Zenon DEF Waves!_handle_request_preproc_error, WaveInv, Known
<1>4. Known(Wave)' /\ Rest'
  BY <1>1, <1>2, <1>3, Zenon DEF WaveInv, Known, Rest
<1> QED
  BY <1>1, <1>4, EnginesStay, Zenon

(* Nor does a START_DP_WAVE, however late. *)
LEMMA StartDpWaveInv ==
  ASSUME Deployment, WaveInv, NEW e \in Engines, Waves!START_DP_WAVE(e)
  PROVE  WaveInv'
<1>1. UNCHANGED <<step_counter, epc, cwave, crunning, first_req, gwave, grunning, to_coordinator,
                  to_client, add_queue, from_engine>>
  BY Zenon DEF Waves!START_DP_WAVE, Waves!clients, Waves!coordinator
<1>2. Head(start_queue[e]) \in Starts(Wave) /\ Tail(start_queue[e]) \in Seq(Starts(Wave))
  BY Queue, Zenon DEF Waves!START_DP_WAVE, WaveInv, Known
<1>3. Head(start_queue[e]).wave \in 0 .. Wave
  BY <1>2, Zenon DEF Starts
<1>4. ewave' = ewave
  <2>1. Head(start_queue[e]).wave >= ewave[e] => Head(start_queue[e]).wave = ewave[e]
    BY <1>3, WaveNat, SMT DEF WaveInv, Together
  <2> QED
    BY <2>1, Zenon DEF Waves!START_DP_WAVE, WaveInv, Together
<1>5. Wave' = Wave
  BY <1>4, Zenon DEF Wave
<1>6. start_queue' \in [Engines -> Seq(Starts(Wave))]
  BY <1>2, Zenon DEF Waves!START_DP_WAVE, WaveInv, Known
<1>7. Known(Wave)' /\ Rest'
  BY <1>1, <1>5, <1>6, Zenon DEF WaveInv, Known, Rest
<1> QED
  BY <1>1, <1>4, <1>7, EnginesStay, Zenon

(* A step of the engines alone, within a wave. *)
LEMMA WaveStays ==
  ASSUME Deployment, WaveInv, NEW c \in Nat \union {-1}, Lockstep(c)',
         UNCHANGED <<ewave, Waves!clients, Waves!coordinator, Waves!sockets>>,
         step_counter' \in [Engines -> Nat],
         epc' \in [Engines -> {"input", "step", "stepped", "reduce"}]
  PROVE  WaveInv'
<1>1. Wave' = Wave /\ Together'
  BY Zenon DEF WaveInv, Together, Wave
<1>2. Known(Wave)' /\ Rest'
  BY <1>1, Zenon DEF WaveInv, Known, Rest, Waves!clients, Waves!coordinator, Waves!sockets
<1> QED
  BY <1>1, <1>2, Zenon DEF WaveInv

(* An engine waits for the others in a forward pass. *)
LEMMA EnterStepInv ==
  ASSUME Deployment, WaveInv, NEW e \in Engines, Waves!EnterStep(e)
  PROVE  WaveInv'
<1>1. PICK c \in Nat \union {-1} : Lockstep(c)
  BY Zenon DEF WaveInv
<1>2. epc[e] = "input" /\ epc' = [epc EXCEPT ![e] = "step"] /\ step_counter' = step_counter
  BY Zenon DEF Waves!EnterStep
<1>3. epc' \in [Engines -> {"input", "step", "stepped", "reduce"}] /\ step_counter' \in [Engines -> Nat]
  BY <1>2, Zenon DEF WaveInv, Together
<1>4. Lockstep(c)'
  BY <1>1, <1>2, Zenon DEF WaveInv, Together, Lockstep
<1> QED
  BY <1>3, <1>4, WaveStays, Zenon DEF Waves!EnterStep

(* All engines do the forward pass. *)
LEMMA ForwardPassInv ==
  ASSUME Deployment, WaveInv, Waves!ForwardPass
  PROVE  WaveInv'
<1>1. PICK c \in Nat \union {-1} : Lockstep(c)
  BY Zenon DEF WaveInv
<1>2. /\ \A e \in Engines : epc[e] = "step"
      /\ epc' = [e \in Engines |-> "stepped"] /\ step_counter' = step_counter
  BY Zenon DEF Waves!ForwardPass, Engines
<1>3. epc' \in [Engines -> {"input", "step", "stepped", "reduce"}] /\ step_counter' \in [Engines -> Nat]
  BY <1>2, Zenon DEF WaveInv, Together
<1>4. Lockstep(c + 1)'
  BY <1>1, <1>2, Zenon DEF Lockstep
<1>5. c + 1 \in Nat \union {-1}
  BY SMT
<1> QED
  BY <1>3, <1>4, <1>5, WaveStays, Zenon DEF Waves!ForwardPass

(* An engine counts the step, and waits for the others if it is the last     *)
(* before an all-reduce.                                                     *)
LEMMA CountStepInv ==
  ASSUME Deployment, WaveInv, NEW e \in Engines, Waves!_has_global_unfinished_reqs(e)
  PROVE  WaveInv'
<1>1. PICK c \in Nat \union {-1} : Lockstep(c)
  BY Zenon DEF WaveInv
<1>2. epc[e] = "stepped" /\ step_counter' = [step_counter EXCEPT ![e] = @ + 1]
  BY Zenon DEF Waves!_has_global_unfinished_reqs
<1>3. step_counter[e] = c /\ step_counter' \in [Engines -> Nat] /\ step_counter'[e] = c + 1
  BY <1>1, <1>2, SMT DEF WaveInv, Together, Lockstep
<1>4. CASE (c + 1) % SyncEvery # 0
  <2>1. epc' = [epc EXCEPT ![e] = "input"]
    BY <1>3, <1>4, Zenon DEF Waves!_has_global_unfinished_reqs
  <2>2. epc' \in [Engines -> {"input", "step", "stepped", "reduce"}]
    BY <2>1, Zenon DEF WaveInv, Together
  <2>3. Lockstep(c)'
    BY <1>1, <1>2, <1>3, <1>4, <2>1, Zenon DEF WaveInv, Together, Lockstep
  <2> QED
    BY <1>3, <2>2, <2>3, WaveStays, Zenon DEF Waves!_has_global_unfinished_reqs
<1>5. CASE (c + 1) % SyncEvery = 0
  <2>1. epc' = [epc EXCEPT ![e] = "reduce"]
    BY <1>3, <1>5, Zenon DEF Waves!_has_global_unfinished_reqs
  <2>2. epc' \in [Engines -> {"input", "step", "stepped", "reduce"}]
    BY <2>1, Zenon DEF WaveInv, Together
  <2>3. \A f \in Engines : epc[f] \in {"stepped", "reduce"}
    BY <1>1, <1>2, <1>5, Zenon DEF Lockstep
  <2>4. Lockstep(c)'
    BY <1>1, <1>2, <1>3, <1>5, <2>1, <2>3, Zenon DEF WaveInv, Together, Lockstep
  <2> QED
    BY <1>3, <2>2, <2>4, WaveStays, Zenon DEF Waves!_has_global_unfinished_reqs
<1> QED
  BY <1>4, <1>5, Zenon

(* The all-reduce ends the wave for all engines or for none. *)
LEMMA AllReduceInv ==
  ASSUME Deployment, WaveInv, Waves!has_unfinished_dp
  PROVE  WaveInv'
<1>1. PICK c \in Nat \union {-1} : Lockstep(c)
  BY Zenon DEF WaveInv
<1>2. /\ \A e \in Engines : epc[e] = "reduce" /\ step_counter[e] = c + 1
      /\ epc' = [e \in Engines |-> "input"]
      /\ UNCHANGED <<cwave, crunning, first_req, gwave, grunning, to_coordinator, to_client,
                     add_queue, start_queue>>
  BY <1>1, Zenon DEF Waves!has_unfinished_dp, Engines, Lockstep, Waves!clients, Waves!coordinator
<1>3. 0 \in Engines /\ Wave \in Nat /\ epc' \in [Engines -> {"input", "step", "stepped", "reduce"}]
  BY <1>2, WaveNat, Zenon DEF WaveInv
<1>4. CASE UNCHANGED <<ewave, step_counter, from_engine>>
  <2>1. step_counter' \in [Engines -> Nat]
    BY <1>4, Zenon DEF WaveInv, Together
  <2>2. Lockstep(c)'
    BY <1>2, <1>4, Zenon DEF Lockstep
  <2> QED
    BY <1>2, <1>3, <1>4, <2>1, <2>2, WaveStays, Zenon DEF Waves!clients, Waves!coordinator, Waves!sockets
<1>5. CASE /\ Waves!Notify(0, "wave_complete")
           /\ ewave' = [e \in Engines |-> ewave[e] + 1]
           /\ step_counter' = [e \in Engines |-> 0]
  <2>1. Wave' = Wave + 1 /\ Together'
    BY <1>3, <1>5, SMT DEF WaveInv, Together, Wave
  <2>2. Known(Wave + 1)
    BY <1>3, StillKnown, Zenon DEF WaveInv
  <2>3. [kind |-> "wave_complete", wave |-> ewave[0]] \in Notices(Wave + 1)
    BY <1>3, SMT DEF Notices, Wave
  <2>4. Append(from_engine[0], [kind |-> "wave_complete", wave |-> ewave[0]])
          \in Seq(Notices(Wave + 1))
    BY <1>3, <2>2, <2>3, Queue, Zenon DEF Known
  <2>5. from_engine' \in [Engines -> Seq(Notices(Wave + 1))]
    BY <1>3, <1>5, <2>2, <2>4, Zenon DEF Known, Waves!Notify
  <2>6. Known(Wave)' /\ Rest'
    BY <1>2, <2>1, <2>2, <2>5, Zenon DEF WaveInv, Known, Rest
  <2>7. Lockstep(-1)'
    BY <1>2, <1>5, SMT DEF Lockstep
  <2> QED
    BY <2>1, <2>6, <2>7, Zenon DEF WaveInv
<1> QED
  BY <1>4, <1>5, Zenon DEF Waves!has_unfinished_dp, Engines

(* Every step preserves the invariant. *)
LEMMA WaveNext ==
  ASSUME Deployment, WaveInv, [Waves!Next]_(Waves!vars)
  PROVE  WaveInv'
<1>1. CASE UNCHANGED Waves!vars
  BY <1>1, Zenon DEF Waves!vars, Waves!clients, Waves!coordinator, Waves!engines, Waves!sockets, WaveInv, Together, Known, Rest, Lockstep, Wave
<1>2. CASE \E c \in Waves!Clients, e \in Waves!Engines, ok \in BOOLEAN : Waves!add_request_async(c, e, ok)
  BY <1>2, AddRequestAsyncInv, Zenon DEF Clients, Engines
<1>3. ASSUME NEW c \in Waves!Clients, Waves!Front(c) PROVE WaveInv'
  BY <1>3, ForwardFirstReqInv, ReadStatsInv, NewRequestInv, Zenon DEF Clients, Waves!Front
<1>4. ASSUME NEW e \in Waves!Engines, Waves!Engine(e) PROVE WaveInv'
  BY <1>4, AddRequestInv, PreprocErrorInv, StartDpWaveInv, EnterStepInv, CountStepInv, EngineMessageInv, Zenon DEF Engines, Clients, Waves!Engine
<1> QED
  BY <1>1, <1>2, <1>3, <1>4, PublishStatsInv, ForwardPassInv, AllReduceInv, Zenon DEF Waves!Next

(* For any number of engines, front-ends and requests, and whatever the      *)
(* order in which sockets deliver: the engines that wait in a collective     *)
(* wait in the same one of the same wave.                                    *)
THEOREM WavesSameCollective ==
  ASSUME Deployment
  PROVE  Waves!Spec => []Waves!SameCollective
<1>1. Waves!Init => WaveInv
  BY WaveInit, Zenon
<1>2. WaveInv /\ [Waves!Next]_(Waves!vars) => WaveInv'
  BY WaveNext, Zenon
<1>3. WaveInv => Waves!SameCollective
  <2> SUFFICES ASSUME WaveInv, NEW e \in Engines, NEW f \in Engines,
                      epc[e] \in {"step", "reduce"}, epc[f] \in {"step", "reduce"}
               PROVE  epc[e] = epc[f] /\ step_counter[e] = step_counter[f] /\ ewave[e] = ewave[f]
    BY Zenon DEF Waves!SameCollective, Engines
  <2>1. PICK c \in Nat \union {-1} : Lockstep(c)
    BY Zenon DEF WaveInv
  <2> QED
    BY <2>1, Zenon DEF WaveInv, Together, Lockstep
<1> QED
  BY <1>1, <1>2, <1>3, PTL DEF Waves!Spec
=============================================================================

------------------------------ MODULE Ubatching ------------------------------
(***************************************************************************)
(* Dual-batch overlap: one thread per micro-batch runs the same model, one *)
(* at a time, handing over at its all-to-all points through a ring of      *)
(* threading.Events (ubatching.py, gpu_ubatch_wrapper.py).  A low-latency  *)
(* all-to-all leaves its receive hook with the next micro-batch, which     *)
(* runs it at its own next all-to-all (modular_kernel.py).                 *)
(*                                                                         *)
(* Every call on an Event, and every access to the process-wide forward    *)
(* context, is a step.  Streams and device events are left out.            *)
(***************************************************************************)
EXTENDS Integers

CONSTANTS
  NumUbatches,
  Yields,        \* all-to-all points of the model, the same for every thread
  UseHooks,      \* low-latency all-to-all (receive hooks) or high-throughput
  MaxRaises      \* bound: threads whose model raises

ASSUME UbatchAssumption ==
  /\ NumUbatches \in Nat \ {0, 1}
  /\ Yields \in Nat /\ MaxRaises \in Nat
  /\ UseHooks \in BOOLEAN

Threads == 0..NumUbatches - 1
Succ(i) == (i + 1) % NumUbatches
None == -1

VARIABLES
  pc,
  main,             \* the main thread: "start", "wake", "join" or "done"
  cpu_event,        \* cpu_event[i]: thread i's cpu_wait_event
  forward_context,  \* the thread whose context is installed
  registered,       \* is the thread's context in _CURRENT_CONTEXTS
  recv_hook,        \* recv_hook[i]: whose receive thread i has to run
  left,             \* all-to-all points left
  raises

vars == <<pc, main, cpu_event, forward_context, registered, recv_hook, left, raises>>

Init ==
  /\ pc = [i \in Threads |-> "new"]
  /\ main = "start"
  /\ cpu_event = [i \in Threads |-> FALSE]
  /\ forward_context = None
  /\ registered = [i \in Threads |-> FALSE]
  /\ recv_hook = [i \in Threads |-> None]
  /\ left = [i \in Threads |-> Yields]
  /\ raises = 0

At(i, here, there) == pc[i] = here /\ pc' = [pc EXCEPT ![i] = there]

(***************************************************************************)
(* __enter__, up to the barrier, and the main thread.                      *)
(***************************************************************************)
Enter(i) ==
  /\ At(i, "new", "barrier")
  /\ registered' = [registered EXCEPT ![i] = TRUE]
  /\ UNCHANGED <<main, cpu_event, forward_context, recv_hook, left, raises>>

Barrier ==
  /\ main = "start" /\ \A i \in Threads : pc[i] = "barrier"
  /\ main' = "wake"
  /\ pc' = [i \in Threads |-> "wait"]
  /\ UNCHANGED <<cpu_event, forward_context, registered, recv_hook, left, raises>>

WakeFirst ==
  /\ main = "wake" /\ main' = "join"
  /\ cpu_event' = [cpu_event EXCEPT ![0] = TRUE]
  /\ UNCHANGED <<pc, forward_context, registered, recv_hook, left, raises>>

Join ==
  /\ main = "join" /\ \A i \in Threads : pc[i] = "done"
  /\ main' = "done"
  /\ UNCHANGED <<pc, cpu_event, forward_context, registered, recv_hook, left, raises>>

(***************************************************************************)
(* cpu_wait_event.wait(), .clear(), _restore_context().                    *)
(***************************************************************************)
Wake(i) ==
  /\ At(i, "wait", "woken")
  /\ cpu_event[i]
  /\ UNCHANGED <<main, cpu_event, forward_context, registered, recv_hook, left, raises>>

\* The event stays set after the wait.
ClearMutant(i) ==
  /\ At(i, "woken", "cleared")
  /\ UNCHANGED <<main, cpu_event, forward_context, registered, recv_hook, left, raises>>
Clear(i) ==
  /\ At(i, "woken", "cleared")
  /\ cpu_event' = [cpu_event EXCEPT ![i] = FALSE]
  /\ UNCHANGED <<main, forward_context, registered, recv_hook, left, raises>>

_restore_context(i) ==
  /\ At(i, "cleared", "run")
  /\ forward_context' = i
  /\ UNCHANGED <<main, cpu_event, registered, recv_hook, left, raises>>

(***************************************************************************)
(* The next all-to-all: run the hook left here, leave one's own, yield.    *)
(***************************************************************************)
maybe_run_recv_hook(i) ==
  /\ At(i, "run", "ran_hook") /\ left[i] > 0
  /\ recv_hook' = [recv_hook EXCEPT ![i] = None]
  /\ UNCHANGED <<main, cpu_event, forward_context, registered, left, raises>>

dbo_register_recv_hook(i) ==
  /\ At(i, "ran_hook", "yield")
  /\ UseHooks => registered[Succ(i)]
  /\ recv_hook' = IF UseHooks THEN [recv_hook EXCEPT ![Succ(i)] = i] ELSE recv_hook
  /\ UNCHANGED <<main, cpu_event, forward_context, registered, left, raises>>

_cpu_yield(i) ==
  /\ At(i, "yield", "wait")
  /\ left' = [left EXCEPT ![i] = @ - 1]
  /\ cpu_event' = [cpu_event EXCEPT ![Succ(i)] = TRUE]
  /\ UNCHANGED <<main, forward_context, registered, recv_hook, raises>>

(***************************************************************************)
(* __exit__, after the model has returned or raised.                       *)
(***************************************************************************)
Finish(i) ==
  /\ At(i, "run", "exit") /\ left[i] = 0
  /\ UNCHANGED <<main, cpu_event, forward_context, registered, recv_hook, left, raises>>

Raise(i) ==
  /\ raises < MaxRaises
  /\ At(i, "run", "exit")
  /\ raises' = raises + 1
  /\ UNCHANGED <<main, cpu_event, forward_context, registered, recv_hook, left>>

\* The next micro-batch is gone: None has no recv_hook.
RegisterRaises(i) ==
  /\ At(i, "ran_hook", "exit")
  /\ UseHooks /\ ~registered[Succ(i)]
  /\ UNCHANGED <<main, cpu_event, forward_context, registered, recv_hook, left, raises>>

Deregister(i) ==
  /\ At(i, "exit", "exit_signal")
  /\ registered' = [registered EXCEPT ![i] = FALSE]
  /\ recv_hook' = [recv_hook EXCEPT ![i] = None]
  /\ UNCHANGED <<main, cpu_event, forward_context, left, raises>>

\* A thread that leaves without a signal.
ExitSignalMutant(i) ==
  /\ At(i, "exit_signal", "exit_clear")
  /\ UNCHANGED <<main, cpu_event, forward_context, registered, recv_hook, left, raises>>
ExitSignal(i) ==
  /\ At(i, "exit_signal", "exit_clear")
  /\ cpu_event' = [cpu_event EXCEPT ![Succ(i)] = TRUE]
  /\ UNCHANGED <<main, forward_context, registered, recv_hook, left, raises>>

ExitClear(i) ==
  /\ At(i, "exit_clear", "done")
  /\ cpu_event' = [cpu_event EXCEPT ![i] = FALSE]
  /\ UNCHANGED <<main, forward_context, registered, recv_hook, left, raises>>

Step(i) ==
  \/ Enter(i) \/ Wake(i) \/ Clear(i) \/ _restore_context(i)
  \/ maybe_run_recv_hook(i) \/ dbo_register_recv_hook(i) \/ _cpu_yield(i)
  \/ Finish(i) \/ Raise(i) \/ RegisterRaises(i)
  \/ Deregister(i) \/ ExitSignal(i) \/ ExitClear(i)

Next == Barrier \/ WakeFirst \/ Join \/ \E i \in Threads : Step(i)

Spec == Init /\ [][Next]_vars

\* The operating system runs every thread that is not blocked.
FairSpec ==
  /\ Spec /\ WF_vars(Barrier) /\ WF_vars(WakeFirst) /\ WF_vars(Join)
  /\ \A i \in Threads : WF_vars(Step(i))

(***************************************************************************)
(* Properties.                                                             *)
(***************************************************************************)
Running(i) ==
  pc[i] \in {"woken", "cleared", "run", "ran_hook", "yield", "exit", "exit_signal"}

\* "It is critical for correctness that only one thread is running at a time"
\* (_cpu_yield): at most one is between its wake-up and its next signal.
OneRuns == \A i, j \in Threads : Running(i) /\ Running(j) => i = j

\* The asserts of _cpu_yield: the forward context is the thread's own and nobody
\* has woken it again.
YieldAsserts ==
  \A i \in Threads : pc[i] \in {"run", "ran_hook", "yield"} => forward_context = i /\ ~cpu_event[i]

\* When a thread goes on after its all-to-all, the receive it left behind has been
\* run by its successor: no hook of its own is pending anywhere.
ReceiveDone ==
  \A i, j \in Threads : pc[i] \in {"run", "ran_hook"} => recv_hook[j] # i

\* All micro-batches run to their end and the main thread joins them.
AllJoined == <>(main = "done")

\* The hand-over of the CPU between micro-batches is sound: one runs at a time,
\* with its own context, and only after its receive was run.
ThreadsSound == OneRuns /\ YieldAsserts /\ ReceiveDone
=============================================================================
